---------------------------- MODULE InterruptDxe ----------------------------
(* Drivers/InterruptDxe/InterruptDxe.c: the table of interrupt handlers and *)
(* the vectored interrupt controller (VIC) of the QSD8250.                  *)
(*                                                                          *)
(* A driver's call is a program of register writes, any two of which an     *)
(* interrupt may come between: irqTodo is what is left of it.  The IRQ      *)
(* exception is taken with the processor's interrupts masked, so            *)
(* IrqInterruptHandler is one step for a handler that does not unmask them  *)
(* (TimerDxe's does, and is in module TimerDxe).                            *)
EXTENDS Integers, Sequences

CONSTANTS
  DeviceSources,   \* sources that a driver registers a handler for
  BareSources      \* sources 0 and 32, which InitInterrupts enables

ASSUME IrqSourcesDiffer == DeviceSources \cap BareSources = {}

VARIABLES
  gRegisteredInterruptHandlers,   \* sources with a handler in the table
  vic,          \* en, pending: sources; master; active: VEC_RD without VEC_WR
  irqHooked,    \* the IRQ exception leads to IrqInterruptHandler
  irqTodo       \* writes that the running driver call still has to make

irqVars == <<gRegisteredInterruptHandlers, vic, irqHooked, irqTodo>>

IrqSources == DeviceSources \cup BareSources

IrqWrite(op, source) == [op |-> op, source |-> source]

-----------------------------------------------------------------------------
(* Calls, as programs.                                                      *)

RegisterInterruptSource(source) ==
  <<IrqWrite("handler", source), IrqWrite("enable", source)>>

EnableInterruptSource(source) == <<IrqWrite("enable", source)>>

DisableInterruptSource(source) == <<IrqWrite("disable", source)>>

InterruptDxeInitialize == <<IrqWrite("hook", 0), IrqWrite("init", 0)>>

InterruptExitBootServices == <<IrqWrite("maskall", 0), IrqWrite("deinit", 0)>>

\* What the controller holds after one write.
VicAfter(w) ==
  CASE w.op = "enable"  -> [vic EXCEPT !.en = @ \cup {w.source}]
    [] w.op = "disable" -> [vic EXCEPT !.en = @ \ {w.source}]
    [] w.op = "maskall" -> [vic EXCEPT !.en = {}]
    [] w.op = "init"    -> [en |-> BareSources, pending |-> {},
                            master |-> TRUE, active |-> vic.active]
    [] w.op = "deinit"  -> [en |-> {}, pending |-> {},
                            master |-> FALSE, active |-> vic.active]
    [] OTHER -> vic

IrqExecute(w) ==
  /\ vic' = VicAfter(w)
  /\ gRegisteredInterruptHandlers' =
       gRegisteredInterruptHandlers
         \cup (IF w.op = "handler" THEN {w.source} ELSE {})
  /\ irqHooked' = (irqHooked \/ w.op = "hook")

-----------------------------------------------------------------------------
(* Interrupts.                                                              *)

\* A device raises its line; the controller latches it, enabled or not.
Raise(source) == vic' = [vic EXCEPT !.pending = @ \cup {source}]

CanInterrupt(source) ==
  /\ irqHooked
  /\ vic.master
  /\ ~vic.active
  /\ source \in vic.en \cap vic.pending

\* VEC_RD makes the controller wait for VEC_WR before the next interrupt.
Acknowledged(source) ==
  [vic EXCEPT !.active = TRUE, !.pending = @ \ {source}]

EndOfInterrupt(v) == [v EXCEPT !.active = FALSE]

\* Mutant: only a registered handler's interrupt is ended.
EndedIfHandled(source) ==
  IF source \in gRegisteredInterruptHandlers
  THEN EndOfInterrupt(Acknowledged(source)) ELSE Acknowledged(source)

HandledAtOnce(source) == EndOfInterrupt(Acknowledged(source))

IrqInterruptHandler(source) ==
  /\ CanInterrupt(source)
  /\ vic' = HandledAtOnce(source)
  /\ UNCHANGED <<gRegisteredInterruptHandlers, irqHooked, irqTodo>>

-----------------------------------------------------------------------------
(* What the boot loader left in the controller is anyone's guess.           *)
IrqInit ==
  /\ gRegisteredInterruptHandlers = {}
  /\ \E en \in {{}, DeviceSources}, pending \in {{}, IrqSources}, on \in BOOLEAN :
       vic = [en |-> en, pending |-> pending, master |-> on, active |-> FALSE]
  /\ irqHooked = FALSE
  /\ irqTodo = <<>>
=============================================================================
