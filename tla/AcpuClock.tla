----------------------------- MODULE AcpuClock -----------------------------
(* GPLDrivers/ClockDxe/acpuclock.c: stepping the processor's clock.  The    *)
(* processor runs from a raw source, configured in one of two halves of a   *)
(* register, or from its PLL; to change the PLL it must run from elsewhere. *)
(* A function is the sequence of its register writes and waits; the PLL     *)
(* (external) finishes a switch in its own time.                            *)
EXTENDS Integers, Sequences

CONSTANTS
  FirstSpeed,     \* freq_num of msm_acpu_clock_init
  AskedKhz,       \* rates asked of acpuclk_set_rate, in kHz
  MaxSetRates     \* bound: calls of acpuclk_set_rate

\* ClockDxeInitialize asks for a speed of the PLL.
ASSUME AcpuAssumption == FirstSpeed \in 1..17

VARIABLES
  clkSel,         \* SPSS_CLK_SEL: src, and the half a raw source is taken from
  clkCntl,        \* SPSS_CLK_CNTL: the source configured in each half
  scpll,          \* mode; l, the multiplier; busy, while it switches
  current_speed,  \* index in acpu_freq_tbl, -1 before
  acpuTodo,       \* what the function that runs still does
  acpuCalls,      \* calls of acpuclk_set_rate
  mpllOn          \* whether the modem's PLL runs

acpuVars == <<clkSel, clkCntl, scpll, current_speed, acpuTodo, acpuCalls, mpllOn>>

SRC_RAW == 0
SRC_SCPLL == 1
MODEM_PLL == "modem"    \* the standby clock
TCXO == "tcxo"

acpu_freq_tbl ==
  [i \in 0..17 |->
     IF i = 0 THEN [khz |-> 245000, cfg |-> MODEM_PLL, sel |-> SRC_RAW, l |-> 0]
     ELSE [khz |-> 38400 * (9 + i), cfg |-> TCXO, sel |-> SRC_SCPLL, l |-> 9 + i]]

acpu_stby == 0

-----------------------------------------------------------------------------
(* What the functions write, in order.                                      *)

scpll_power_down == <<<<"wait">>, <<"mode", "standby">>, <<"mode", "powerdown">>>>

scpll_set_freq(lval) == <<<<"wait">>, <<"freq", IF lval > 33 THEN 33 ELSE IF lval < 10 THEN 10 ELSE lval>>>>

\* The rest of scpll_set_freq: from any mode but normal, first to 384 MHz.
SetsFreq(lval) ==
  (IF scpll.mode = "normal" THEN <<>>
   ELSE <<<<"mode", "standby">>, <<"l", 10>>, <<"mode", "normal">>, <<"wait">>>>)
  \o <<<<"l", lval>>, <<"mode", "normal">>, <<"wait">>>>

\* Mutant: switched over before the other half is configured.
select_toggles_first(src, config) ==
  (IF src = SRC_RAW THEN <<<<"toggle">>, <<"config", config>>>> ELSE <<>>)
  \o <<<<"src", src>>>>

select_clock(src, config) ==
  (IF src = SRC_RAW THEN <<<<"config", config>>, <<"toggle">>>> ELSE <<>>)
  \o <<<<"src", src>>>>

StandBy == select_clock(acpu_freq_tbl[acpu_stby].sel, acpu_freq_tbl[acpu_stby].cfg)

Steps(cur, next) ==
  LET to == acpu_freq_tbl[next]
  IN  IF to.sel = SRC_SCPLL
      THEN (IF cur = acpu_stby THEN <<>> ELSE StandBy)
           \o scpll_set_freq(to.l) \o select_clock(SRC_SCPLL, 0)
      ELSE IF acpu_freq_tbl[cur].sel = SRC_SCPLL
      THEN StandBy \o select_clock(to.sel, to.cfg) \o scpll_power_down
      ELSE select_clock(to.sel, to.cfg)

-----------------------------------------------------------------------------
(* Calls.                                                                   *)

\* The speed asked for: the present one and 0 change nothing, and one that
\* is not in the table is refused (-1).
acpuclk_set_rate(khz) ==
  /\ acpuTodo = <<>> /\ current_speed >= 0
  /\ acpuCalls < MaxSetRates
  /\ acpuCalls' = acpuCalls + 1
  /\ LET found == {i \in 0..17 : acpu_freq_tbl[i].khz = khz}
     IN  IF khz = acpu_freq_tbl[current_speed].khz \/ found = {}
         THEN UNCHANGED <<acpuTodo, current_speed>>
         ELSE \E next \in found :
                acpuTodo' = Steps(current_speed, next) \o <<<<"speed", next>>>>
                  /\ UNCHANGED current_speed
  /\ UNCHANGED <<clkSel, clkCntl, scpll, mpllOn>>

\* find_speed spins unless the processor runs from the PLL or the AXI clock;
\* acpuclk_init, once, spins if the modem's PLL is off after the request.
acpuclk_init ==
  /\ acpuTodo = <<>> /\ current_speed < 0
  /\ acpuTodo' =
       IF clkSel.src \notin 1..2 \/ ~mpllOn THEN <<<<"spin">>>>
       ELSE StandBy \o scpll_power_down \o scpll_set_freq(acpu_freq_tbl[FirstSpeed].l)
            \o select_clock(SRC_SCPLL, 0)
  /\ current_speed' = IF acpuTodo' = <<<<"spin">>>> THEN current_speed ELSE FirstSpeed
  /\ UNCHANGED <<clkSel, clkCntl, scpll, acpuCalls, mpllOn>>

OtherHalf == 1 - clkSel.half

\* One write or wait.  A change of l or of the mode to normal sets the PLL off.
AcpuStep ==
  /\ acpuTodo # <<>>
  /\ LET op == Head(acpuTodo)
         rest == Tail(acpuTodo)
     IN  /\ op[1] # "spin"
         /\ op[1] \in {"wait", "freq"} => ~scpll.busy
         /\ acpuTodo' = IF op[1] = "freq" THEN SetsFreq(op[2]) \o rest ELSE rest
         /\ clkCntl' = IF op[1] = "config"
                       THEN [clkCntl EXCEPT ![OtherHalf] = op[2]] ELSE clkCntl
         /\ clkSel' = CASE op[1] = "toggle" -> [clkSel EXCEPT !.half = OtherHalf]
                        [] op[1] = "src"    -> [clkSel EXCEPT !.src = op[2]]
                        [] OTHER            -> clkSel
         /\ scpll' = CASE op[1] = "mode" -> [scpll EXCEPT !.mode = op[2], !.busy = op[2] = "normal"]
                       [] op[1] = "l"    -> [scpll EXCEPT !.l = op[2]]
                       [] OTHER          -> scpll
         /\ current_speed' = IF op[1] = "speed" THEN op[2] ELSE current_speed
  /\ UNCHANGED <<acpuCalls, mpllOn>>

PllSettles ==
  /\ scpll.busy
  /\ scpll' = [scpll EXCEPT !.busy = FALSE]
  /\ UNCHANGED <<clkSel, clkCntl, current_speed, acpuTodo, acpuCalls, mpllOn>>

\* The boot loader leaves any source and configuration behind.
AcpuInit ==
  /\ clkSel \in [src : 0..2, half : 0..1]
  /\ clkCntl = [h \in 0..1 |-> "?"]
  /\ scpll = [mode |-> IF clkSel.src = SRC_SCPLL THEN "normal" ELSE "powerdown",
              l |-> 10, busy |-> FALSE]
  /\ current_speed = -1
  /\ acpuTodo = <<>>
  /\ acpuCalls = 0
  /\ mpllOn \in BOOLEAN

AcpuNext ==
  \/ \E khz \in AskedKhz : acpuclk_set_rate(khz)
  \/ acpuclk_init \/ AcpuStep \/ PllSettles

AcpuSpec == AcpuInit /\ [][AcpuNext]_acpuVars

-----------------------------------------------------------------------------
AcpuTypeOK ==
  /\ clkSel \in [src : 0..3, half : 0..1]
  /\ clkCntl \in [0..1 -> {"?", MODEM_PLL, TCXO}]
  /\ scpll \in [mode : {"normal", "standby", "powerdown"}, l : 10..33, busy : BOOLEAN]
  /\ current_speed \in -1..17

(* While the processor runs from the PLL, the PLL is in normal mode and not *)
(* on its way to another frequency: every path steps aside to the standby   *)
(* clock first and waits for the switch before it comes back.               *)
RunsFromSteadyPll ==
  clkSel.src = SRC_SCPLL => scpll.mode = "normal" /\ ~scpll.busy

(* The raw source that the processor runs from, in whichever half, is one   *)
(* that the driver has configured there before it switched over.            *)
RawIsConfigured ==
  (clkSel.src = SRC_RAW /\ current_speed >= 0) => clkCntl[clkSel.half] = MODEM_PLL

(* When no function runs, the hardware runs at current_speed.               *)
SpeedIsCurrent ==
  (acpuTodo = <<>> /\ current_speed >= 0) =>
    LET s == acpu_freq_tbl[current_speed]
    IN  /\ clkSel.src = s.sel
        /\ s.sel = SRC_SCPLL => scpll.l = s.l
        /\ s.sel = SRC_RAW => clkCntl[clkSel.half] = s.cfg /\ scpll.mode = "powerdown"

(* The processor always runs from a clock that is there, and ends up at the  *)
(* speed the driver remembers.                                               *)
SpeedSwitchedSafely == AcpuTypeOK /\ RunsFromSteadyPll /\ RawIsConfigured /\ SpeedIsCurrent
=============================================================================
