----------------------------- MODULE GPTTimerLib ----------------------------
(* Library/GPTTimerLib/GPTTimerLib.c: delays on a counter that wraps.  The  *)
(* counter runs on between two reads of it, by as much as an interrupt or a *)
(* notification takes.                                                      *)
EXTENDS Naturals

CONSTANTS
  CounterRange,   \* 2^32 of the code
  Delays,         \* microseconds asked for
  NanoDelays,     \* nanoseconds asked for
  MaxGap          \* bound: counts between two reads

ASSUME GptAssumption ==
  /\ CounterRange \in Nat \ {0} /\ MaxGap \in Nat /\ Delays \subseteq Nat
  /\ NanoDelays \subseteq Nat

VARIABLES
  GPT_COUNT_VAL,
  gptAt,        \* "early", "idle", "wrap" and "reach" (the two loops)
  gptCount,     \* Count of MicroSecondDelay
  gptInitCount,
  gptTicks,
  gptAsked,     \* MicroSeconds
  gptElapsed    \* history: counts since the delay's first read

gptVars == <<GPT_COUNT_VAL, gptAt, gptCount, gptInitCount, gptTicks, gptAsked, gptElapsed>>

\* The counts that so many microseconds take, rounded up at 33 kHz.
Ticks(us) == (us * 33 + 1000 - 33) \div 1000

\* NanoSecondDelay's argument for MicroSecondDelay.
NanoSecondDelay(ns) == ns \div 1000 + (IF ns % 1000 = 0 THEN 0 ELSE 1)

\* No delay, with a gap after it, takes the counter once round.
ASSUME DelayAssumption ==
  \A us \in Delays \cup {NanoSecondDelay(ns) : ns \in NanoDelays} :
    Ticks(us) + MaxGap < CounterRange

\* GetTimeInNanoSecond at a frequency, with giga for 10^9.
GetTimeInNanoSecond(ticks, frequency, giga) ==
  (ticks \div frequency) * giga + ((ticks % frequency) * giga) \div frequency

Timeout == (gptInitCount + gptTicks) % CounterRange

Runs32(gap) ==
  /\ GPT_COUNT_VAL' = (GPT_COUNT_VAL + gap) % CounterRange
  /\ gptElapsed' = IF gptElapsed > 2 * CounterRange THEN gptElapsed
                                                    ELSE gptElapsed + gap

-----------------------------------------------------------------------------
\* The counter is stopped, cleared, waited for and started again.
TimerEarlyInit ==
  /\ gptAt = "early"
  /\ GPT_COUNT_VAL' = 0
  /\ gptAt' = "idle"
  /\ UNCHANGED <<gptCount, gptInitCount, gptTicks, gptAsked, gptElapsed>>

\* Time passes between calls.
IdleTime ==
  /\ gptAt \in {"early", "idle"}
  /\ GPT_COUNT_VAL' = (GPT_COUNT_VAL + 1) % CounterRange
  /\ UNCHANGED <<gptAt, gptCount, gptInitCount, gptTicks, gptAsked, gptElapsed>>

MicroSecondDelay ==
  /\ gptAt = "idle"
  /\ \E us \in Delays \cup {NanoSecondDelay(ns) : ns \in NanoDelays} :
       gptAsked' = us /\ gptTicks' = Ticks(us)
  /\ gptCount' = GPT_COUNT_VAL
  /\ gptInitCount' = GPT_COUNT_VAL
  /\ gptElapsed' = 0
  /\ gptAt' = "wrap"
  /\ UNCHANGED GPT_COUNT_VAL

\* while (Timeout < Count && InitCount <= Count)
\* Mutant: only the sum's wrap is looked at, not that it has happened.
BeforeTimeout == Timeout < gptCount

BeforeWrap == Timeout < gptCount /\ gptInitCount <= gptCount

ReadsAgain ==
  \E gap \in 1..MaxGap : Runs32(gap) /\ gptCount' = GPT_COUNT_VAL'

WaitsForWrap ==
  /\ gptAt = "wrap"
  /\ IF BeforeWrap THEN ReadsAgain /\ UNCHANGED gptAt
     ELSE gptAt' = "reach" /\ UNCHANGED <<GPT_COUNT_VAL, gptElapsed, gptCount>>
  /\ UNCHANGED <<gptInitCount, gptTicks, gptAsked>>

\* while (Timeout > Count)
BeforeEnd == Timeout > gptCount

WaitsForTimeout ==
  /\ gptAt = "reach"
  /\ IF BeforeEnd THEN ReadsAgain /\ UNCHANGED gptAt
     ELSE gptAt' = "idle" /\ UNCHANGED <<GPT_COUNT_VAL, gptElapsed, gptCount>>
  /\ UNCHANGED <<gptInitCount, gptTicks, gptAsked>>

-----------------------------------------------------------------------------
GptInit ==
  /\ GPT_COUNT_VAL \in {0, CounterRange - 1}
  /\ gptAt = "early"
  /\ gptCount = 0 /\ gptInitCount = 0 /\ gptTicks = 0 /\ gptAsked = 0 /\ gptElapsed = 0

GptNext ==
  \/ TimerEarlyInit \/ IdleTime \/ MicroSecondDelay
  \/ WaitsForWrap \/ WaitsForTimeout

GptSpec == GptInit /\ [][GptNext]_gptVars

-----------------------------------------------------------------------------
(* A delay returns at most one microsecond early, at 33 counts a            *)
(* millisecond (the sum that is divided rounds 31 microseconds down),       *)
(* wherever the counter starts and however it jumps over the wrap.          *)
DelayLongEnough == gptAt = "idle" => gptElapsed * 1000 > (gptAsked - 1) * 33

(* A delay returns within one gap of its end, unless its end is so close to *)
(* the wrap that the counter may pass both between two reads (the loop then *)
(* waits for the counter to come round again).                              *)
DelayNotMuchLonger ==
  Timeout + MaxGap < CounterRange => gptElapsed <= gptTicks + MaxGap

(* The conversion of counts is exact to the nanosecond, rounded down,       *)
(* although it is done in two parts.                                        *)
TimeIsExact ==
  LET ns == GetTimeInNanoSecond(gptElapsed, 7, 1000) IN
  ns * 7 <= gptElapsed * 1000 /\ gptElapsed * 1000 < (ns + 1) * 7

(* A delay takes the time that was asked for, and time is counted exactly.   *)
DelaysRight == DelayLongEnough /\ DelayNotMuchLonger /\ TimeIsExact
=============================================================================
