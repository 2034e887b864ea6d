------------------------ MODULE VirtualRealTimeClock ------------------------
(* VirtualRealTimeClockLib.c, which makes a time of the counter that        *)
(* GPTTimerLib reads.  Ticks are the counts there have really been; the     *)
(* code sees what the counter holds of them.                                *)
EXTENDS Naturals

CONSTANTS
  PcdMsmDgtTimerFreq,
  CounterWidth,     \* 2^32 of the code
  CounterGaps,      \* counts between two readings
  MaxReadings       \* bound

ASSUME RtcAssumption ==
  /\ PcdMsmDgtTimerFreq \in Nat \ {0} /\ CounterWidth \in Nat \ {0}
  /\ CounterGaps \subseteq Nat /\ MaxReadings \in Nat

VARIABLE rtc   \* ticks so far, and history: the number of readings and the last two

\* GetPerformanceCounterProperties: the counts of a second.
PerformanceFreq == 32765

NoTime == [Day |-> 0, Hour |-> 0, Minute |-> 0, Second |-> 0]
NoReading == [ticks |-> 0, time |-> NoTime]

RtcInit == rtc = [ticks |-> 0, readings |-> 0, last |-> NoReading, before |-> NoReading]

GetPerformanceCounter(ticks) == ticks % CounterWidth

SecondsPerDay == 24 * 60 * 60
SecondsPerHour == 60 * 60

\* Mutant: the hours of the days before are not taken out of the minutes.
TimeWithHours(count) ==
  LET seconds == count \div PcdMsmDgtTimerFreq
  IN  [Day |-> seconds \div SecondsPerDay, Hour |-> (seconds % SecondsPerDay) \div SecondsPerHour,
       Minute |-> (seconds % SecondsPerDay) \div 60, Second |-> seconds % 60]

\* Days, from 0, of a month that does not end.
LibGetTime(count) ==
  LET seconds == count \div PcdMsmDgtTimerFreq
      inDay == seconds % SecondsPerDay
      inHour == inDay % SecondsPerHour
  IN  [Day |-> seconds \div SecondsPerDay, Hour |-> inDay \div SecondsPerHour,
       Minute |-> inHour \div 60, Second |-> inHour % 60]

GetTime(gap) ==
  /\ rtc.readings < MaxReadings
  /\ LET ticks == rtc.ticks + gap
     IN  rtc' = [ticks |-> ticks, readings |-> rtc.readings + 1, before |-> rtc.last,
                 last |-> [ticks |-> ticks, time |-> LibGetTime(GetPerformanceCounter(ticks))]]

RtcNext == \E gap \in CounterGaps : GetTime(gap)

RtcSpec == RtcInit /\ [][RtcNext]_rtc
-----------------------------------------------------------------------------
\* The seconds that a time's fields stand for.
InSeconds(t) == ((t.Day * 24 + t.Hour) * 60 + t.Minute) * 60 + t.Second

SameTurn(a, b) == a.ticks \div CounterWidth = b.ticks \div CounterWidth

\* A time's fields are in their ranges, and a later reading is not an earlier
\* time, over the ends of minutes, hours and days: "for relative time
\* measurement", until the counter starts again from 0.
TimesInOrder ==
  LET t == rtc.last.time
  IN  /\ t.Hour < 24 /\ t.Minute < 60 /\ t.Second < 60
      /\ SameTurn(rtc.before, rtc.last) => InSeconds(rtc.before.time) <= InSeconds(t)

\* "Day, Hours, Minutes and Seconds starting from the begining of CPU up-time"
\* (VirtualRealTimeClockLib.c:38 to 40): the time told is the seconds that have
\* passed, by the counter's own frequency, until the counter starts again.
TimeIsElapsed ==
  rtc.last.ticks < CounterWidth =>
    InSeconds(rtc.last.time) = rtc.last.ticks \div PerformanceFreq
=============================================================================
