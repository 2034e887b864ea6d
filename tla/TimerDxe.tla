------------------------------ MODULE TimerDxe ------------------------------
(* Drivers/TimerDxe/Timer.c: the debug timer (DGT), whose interrupt is the  *)
(* tick of the DXE core; with the drivers that start around it, up to       *)
(* ExitBootServices.                                                        *)
(*                                                                          *)
(* The tick's handler ends its interrupt early and lowers the task priority *)
(* level with the processor's interrupts on again: the notifications that   *)
(* RestoreTPL dispatches run inside the handler, and the next tick may come *)
(* while they do.  tickFrames is how many handlers stand at that point.     *)
EXTENDS InterruptDxe

CONSTANTS
  TimerSource,     \* INT_DEBUG_TIMER_EXP
  PcdTimerPeriod,  \* in 100 ns
  DgtTicksPerMs,   \* DGT_HZ / 1000
  MaxFrames        \* bound: handlers inside one another

ASSUME TimerAssumption ==
  /\ TimerSource \in DeviceSources
  /\ PcdTimerPeriod \in Nat \ {0} /\ DgtTicksPerMs \in Nat /\ MaxFrames \in Nat

VARIABLES
  mTimerNotifyFunction,  \* the DXE core has registered its tick
  mTimerPeriod,
  dgt,          \* on, match: the timer's registers
  tickFrames,   \* tick handlers that have lowered the TPL and not returned
  drivers,      \* drivers that have started, and "exit" events that have run
  tickOwed,     \* history: ticks of the timer less calls of the core
  tickTold      \* history: the period the core was last told, or -1

tickVars == <<mTimerNotifyFunction, mTimerPeriod, dgt, tickFrames, drivers,
              tickOwed, tickTold>>

-----------------------------------------------------------------------------
(* Calls, as programs.                                                      *)

MatchVal(period) == (period \div 10000) * DgtTicksPerMs

TimerDriverSetTimerPeriod(period) ==
  IF period = 0
  THEN <<IrqWrite("stop", 0)>> \o DisableInterruptSource(TimerSource)
         \o <<IrqWrite("period", 0)>>
  ELSE DisableInterruptSource(TimerSource) \o <<IrqWrite("start", period)>>
         \o EnableInterruptSource(TimerSource) \o <<IrqWrite("period", period)>>

TimerInitialize ==
  TimerDriverSetTimerPeriod(0) \o RegisterInterruptSource(TimerSource)
    \o TimerDriverSetTimerPeriod(PcdTimerPeriod) \o <<IrqWrite("install", 0)>>

TimerExitBootServices == TimerDriverSetTimerPeriod(0)

DgtAfter(w) ==
  CASE w.op = "stop"  -> [dgt EXCEPT !.on = FALSE]
    [] w.op = "start" -> [on |-> TRUE, match |-> MatchVal(w.source)]
    [] OTHER -> dgt

\* The next write of the running call.
DriverWrites ==
  /\ irqTodo # <<>>
  /\ LET w == Head(irqTodo) IN
       /\ IrqExecute(w)
       /\ irqTodo' = Tail(irqTodo)
       /\ dgt' = DgtAfter(w)
       /\ mTimerPeriod' = IF w.op = "period" THEN w.source ELSE mTimerPeriod
       /\ drivers' = IF w.op = "install" THEN drivers \cup {<<"timer">>} ELSE drivers
  /\ UNCHANGED <<mTimerNotifyFunction, tickFrames, tickOwed, tickTold>>

-----------------------------------------------------------------------------
(* Drivers start one after the other; the foreground is one thread.         *)

Calls(program, driver) ==
  /\ irqTodo = <<>>
  /\ driver \notin drivers
  /\ irqTodo' = program
  /\ drivers' = drivers \cup (IF driver = <<"timer">> THEN {} ELSE {driver})
  /\ UNCHANGED <<gRegisteredInterruptHandlers, vic, irqHooked, dgt,
                 mTimerNotifyFunction, mTimerPeriod, tickFrames, tickOwed, tickTold>>

\* A device's driver that registers its source when it starts.
Claimable(source) == source \in DeviceSources \ {TimerSource}

StartsDriver ==
  /\ drivers \cap {<<"irqexit">>, <<"timerexit">>} = {}
  /\ \/ Calls(InterruptDxeInitialize, <<"irq">>)
     \/ <<"irq">> \in drivers /\ Calls(TimerInitialize, <<"timer">>)
     \/ \E s \in DeviceSources : Claimable(s) /\ <<"irq">> \in drivers
          /\ Calls(RegisterInterruptSource(s), <<"device", s>>)

\* I2CDxe masks its source after each transfer and unmasks it before one.
Toggles ==
  \E s \in DeviceSources :
    /\ Claimable(s) /\ <<"device", s>> \in drivers
    /\ drivers \cap {<<"irqexit">>, <<"timerexit">>} = {}
    /\ irqTodo = <<>>
    /\ irqTodo' = IF s \in vic.en THEN DisableInterruptSource(s)
                                  ELSE EnableInterruptSource(s)
    /\ UNCHANGED <<gRegisteredInterruptHandlers, vic, irqHooked, tickVars>>

\* TimerDriverRegisterHandler, called once by the DXE core.
TimerDriverRegisterHandler ==
  /\ <<"timer">> \in drivers /\ ~mTimerNotifyFunction
  /\ mTimerNotifyFunction' = TRUE
  /\ tickOwed' = IF TimerSource \in vic.pending THEN 1 ELSE 0
  /\ UNCHANGED <<irqVars, mTimerPeriod, dgt, tickFrames, drivers, tickTold>>

\* ExitBootServices runs the events of both drivers, in either order.
ExitBootServices ==
  /\ mTimerNotifyFunction
  /\ \/ Calls(InterruptExitBootServices, <<"irqexit">>)
     \/ Calls(TimerExitBootServices, <<"timerexit">>)

-----------------------------------------------------------------------------
(* Interrupts.                                                              *)

\* The CPU takes an interrupt it can take before the timer's next tick.
Tick ==
  /\ dgt.on
  /\ ~CanInterrupt(TimerSource)
  /\ tickFrames < MaxFrames /\ tickOwed < 2
  /\ Raise(TimerSource)
  /\ tickOwed' = IF mTimerNotifyFunction /\ TimerSource \in vic.en
                 THEN tickOwed + 1 ELSE tickOwed
  /\ UNCHANGED <<gRegisteredInterruptHandlers, irqHooked, irqTodo, dgt,
                 mTimerNotifyFunction, mTimerPeriod, tickFrames, drivers, tickTold>>

DeviceRaises ==
  /\ \E s \in IrqSources \ {TimerSource} : s \notin vic.pending /\ Raise(s)
  /\ UNCHANGED <<gRegisteredInterruptHandlers, irqHooked, irqTodo, tickVars>>

\* Mutant: the interrupt is ended after the TPL is restored.
EndedLate(source) == Acknowledged(source)

EndedBeforeRestoreTPL(source) == EndOfInterrupt(Acknowledged(source))

\* IrqInterruptHandler calls TimerInterruptHandler, up to RestoreTPL.
TimerInterruptHandler ==
  /\ TimerSource \in gRegisteredInterruptHandlers
  /\ CanInterrupt(TimerSource)
  /\ tickFrames < MaxFrames
  /\ vic' = EndedBeforeRestoreTPL(TimerSource)
  /\ tickFrames' = tickFrames + 1
  /\ IF mTimerNotifyFunction
     THEN tickTold' = mTimerPeriod /\ tickOwed' = tickOwed - 1
     ELSE UNCHANGED <<tickTold, tickOwed>>
  /\ UNCHANGED <<gRegisteredInterruptHandlers, irqHooked, irqTodo, dgt,
                 mTimerNotifyFunction, mTimerPeriod, drivers>>

\* ... and from there to the end, where the interrupt is ended again.
TimerInterruptReturns ==
  /\ tickFrames > 0
  /\ vic' = EndOfInterrupt(vic)
  /\ tickFrames' = tickFrames - 1
  /\ UNCHANGED <<gRegisteredInterruptHandlers, irqHooked, irqTodo, dgt,
                 mTimerNotifyFunction, mTimerPeriod, drivers, tickOwed, tickTold>>

\* Any other source, and the timer's while it has no handler.
OtherInterrupt ==
  /\ \E s \in IrqSources :
       /\ s = TimerSource => s \notin gRegisteredInterruptHandlers
       /\ IrqInterruptHandler(s)
  /\ UNCHANGED tickVars

-----------------------------------------------------------------------------
TickInit ==
  /\ IrqInit
  /\ mTimerNotifyFunction = FALSE
  /\ mTimerPeriod = 0
  /\ \E on \in BOOLEAN : dgt = [on |-> on, match |-> 0]
  /\ tickFrames = 0
  /\ drivers = {}
  /\ tickOwed = 0
  /\ tickTold = -1

TickNext ==
  \/ DriverWrites \/ StartsDriver \/ Toggles \/ TimerDriverRegisterHandler
  \/ ExitBootServices
  \/ Tick \/ DeviceRaises
  \/ TimerInterruptHandler \/ TimerInterruptReturns \/ OtherInterrupt

TickSpec == TickInit /\ [][TickNext]_<<irqVars, tickVars>>

-----------------------------------------------------------------------------
TickTypeOK ==
  /\ gRegisteredInterruptHandlers \subseteq DeviceSources
  /\ vic.en \subseteq IrqSources /\ vic.pending \subseteq IrqSources
  /\ vic.master \in BOOLEAN /\ vic.active \in BOOLEAN
  /\ irqHooked \in BOOLEAN /\ mTimerNotifyFunction \in BOOLEAN
  /\ mTimerPeriod \in {0, PcdTimerPeriod}
  /\ dgt.on \in BOOLEAN /\ dgt.match \in {0, MatchVal(PcdTimerPeriod)}
  /\ tickFrames \in 0..MaxFrames

(* Once InitInterrupts has run, a source that is enabled and that           *)
(* InitInterrupts did not enable itself has a handler: whenever an          *)
(* interrupt comes between the writes of RegisterInterruptSource, the       *)
(* driver that registers gets it and IrqInterruptHandler does not drop it.  *)
EnabledIsHandled ==
  (<<"irq">> \in drivers /\ (irqTodo = <<>> \/ Head(irqTodo).op \notin {"hook", "init"}))
    => vic.en \subseteq gRegisteredInterruptHandlers \cup BareSources

(* Every tick of the timer is a call of the DXE core's tick function, or is *)
(* still latched: none is lost to a handler that takes longer than a tick   *)
(* (the comment at Timer.c:84), and none is handled twice by handlers that  *)
(* interrupt one another.                                                   *)
TicksKept ==
  (mTimerNotifyFunction /\ TimerSource \in vic.en)
    => tickOwed = IF TimerSource \in vic.pending THEN 1 ELSE 0

(* The core is told the period that the timer really runs with, although   *)
(* mTimerPeriod is written after the timer and its source are on.           *)
TickCarriesPeriod == tickTold # -1 => tickTold > 0 /\ MatchVal(tickTold) = dgt.match

(* After both ExitBootServices events the interrupt controller and the      *)
(* timer are off, in whichever order the events run and whatever came in    *)
(* between.                                                                 *)
ExitIsQuiet ==
  ({<<"irqexit">>, <<"timerexit">>} \subseteq drivers /\ irqTodo = <<>>)
    => vic.en = {} /\ ~vic.master /\ ~dgt.on /\ mTimerPeriod = 0

(* An interrupt of an enabled source is taken, also when a source without   *)
(* handler interrupts in front of it, or its source is masked first.        *)
InterruptsServed ==
  \A s \in IrqSources :
    (s \in vic.pending \cap vic.en /\ irqHooked /\ vic.master)
      ~> (s \notin vic.pending \/ s \notin vic.en \/ tickFrames = MaxFrames)

(* Interrupts and ticks are neither lost nor unasked for, from the first     *)
(* registration to ExitBootServices.                                         *)
TicksRight ==
  TickTypeOK /\ EnabledIsHandled /\ TicksKept /\ TickCarriesPeriod /\ ExitIsQuiet
=============================================================================
