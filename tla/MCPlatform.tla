----------------------------- MODULE MCPlatform -----------------------------
(* Small instances of the drivers that the others stand on.  A behaviour is *)
(* of one of them, the part it chooses at the start: they are independent.  *)
EXTENDS TimerDxe, GpioDxe, GPTTimerLib, ClockDxe, AcpuClock, Charging, TLC

VARIABLE part

tick == <<irqVars, tickVars>>
delay == gptVars
pcom == <<pcomVars, clockVars>>
everything == <<part, tick, gpioVars, delay, pcom, acpuVars, chargeVars>>

Parts == {"tick", "gpio", "delay", "pcom", "acpu", "charge"}

Init ==
  /\ part \in Parts
  /\ TickInit /\ GpioInit /\ GptInit /\ ClockInit /\ AcpuInit /\ ChargeInit
  /\ part # "tick" => vic.en = {} /\ vic.pending = {} /\ ~vic.master /\ ~dgt.on
  /\ part # "delay" => GPT_COUNT_VAL = 0
  /\ part # "acpu" => clkSel = [src |-> 1, half |-> 0] /\ mpllOn
  /\ part # "charge" => supply = [cable |-> FALSE, ac |-> FALSE, raw |-> 1600]

Next ==
  \/ /\ part = "tick" /\ TickNext
     /\ UNCHANGED <<part, gpioVars, delay, pcom, acpuVars, chargeVars>>
  \/ /\ part = "gpio" /\ GpioNext
     /\ UNCHANGED <<part, tick, delay, pcom, acpuVars, chargeVars>>
  \/ /\ part = "delay" /\ GptNext
     /\ UNCHANGED <<part, tick, gpioVars, pcom, acpuVars, chargeVars>>
  \/ /\ part = "pcom" /\ ClockNext
     /\ UNCHANGED <<part, tick, gpioVars, delay, acpuVars, chargeVars>>
  \/ /\ part = "acpu" /\ AcpuNext
     /\ UNCHANGED <<part, tick, gpioVars, delay, pcom, chargeVars>>
  \/ /\ part = "charge" /\ ChargeNext
     /\ UNCHANGED <<part, tick, gpioVars, delay, pcom, acpuVars>>

\* Interrupts are served and drivers go on; the modem answers; the 100 ms timer is periodic.
FairSpec ==
  /\ Init /\ [][Next]_everything
  /\ WF_tick(part = "tick" /\ TimerInterruptReturns)
  /\ WF_tick(part = "tick" /\ DriverWrites)
  /\ WF_tick(part = "tick" /\ TimerInterruptHandler)
  /\ \A s \in IrqSources : WF_tick(part = "tick" /\ IrqInterruptHandler(s) /\ UNCHANGED tickVars)
  /\ WF_pcom(part = "pcom" /\ CallSteps)
  /\ WF_pcom(part = "pcom" /\ ModemSteps)
  /\ WF_pcom(part = "pcom" /\ reboot)
  /\ WF_chargeVars(part = "charge" /\ (WantsCharging \/ MicroPDxeInitialize \/ ChargingDxeInit))

\* Two callers that share bank 4's register, and two banks of their own.
MCPinUsers ==
  0 :> {[op |-> "config", pin |-> 95]} @@ 1 :> {[op |-> "set", pin |-> 100]}
    @@ 2 :> {[op |-> "set", pin |-> 33], [op |-> "get", pin |-> 42], [op |-> "set", pin |-> 95]}

MCUsedClocks == {"SDC2_CLK", "I2C_CLK"}
=============================================================================
