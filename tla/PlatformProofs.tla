--------------------------- MODULE PlatformProofs ---------------------------
(***************************************************************************)
(* The drivers that the others stand on: for all their sources, pins,      *)
(* delays, voltages and speeds, no tick is lost, no pin is lost but where  *)
(* two levels share a bank, no delay is short, the charger is set right,   *)
(* the processor's clock never rests on a PLL that is off and the modem's  *)
(* mailbox keeps the clocks as the driver has them.  They are independent; *)
(* each has its own specification and invariant.                           *)
(***************************************************************************)
EXTENDS TimerDxe, GpioDxe, GPTTimerLib, Charging, AcpuClock, ClockDxe,
        FiniteSetTheorems, SequenceTheorems, TLAPS

-----------------------------------------------------------------------------
(* Charging.                                                                *)

\* The rest of the state's type.
ChargeMoreTypeOK ==
  /\ supply \in [cable : BOOLEAN, ac : BOOLEAN, raw : RawVoltages]
  /\ chargeAt \in {"microp", "init", "asserted", "idle", "voltage", "ac", "led", "exited"}
  /\ steady \in BOOLEAN

\* While nothing has changed and no transfer has failed, each step of the
\* notification knows what the steps before it have read.
SteadyKnows ==
  steady =>
    /\ chargeAt \notin {"microp", "init"}
    /\ chargeAt = "voltage" => seen.cable /\ supply.cable
    /\ chargeAt = "ac" => seen.cable /\ supply.cable /\ ~seen.full /\ ~Full(supply.raw)
    /\ chargeAt = "led" => /\ seen.cable = supply.cable
                           /\ seen.cable => seen.full = Full(supply.raw)
                           /\ gState = WantedState

ChargeInv == ChargerRight /\ ChargeMoreTypeOK /\ SteadyKnows

-----------------------------------------------------------------------------
\* The two bytes of a voltage, read without a fault, are that voltage.
LEMMA BytesAreVoltage ==
  ASSUME NEW raw \in RawVoltages
  PROVE  ds2746_voltage(raw \div 16, (raw % 16) * 16) = MilliVolt(raw)
<1>1. raw \in Nat
  BY ChargeAssumption DEF ChargeAssumption
<1>2. (raw \div 16) * 16 + ((raw % 16) * 16) \div 16 = raw
  BY <1>1, SMT
<1> QED BY <1>2 DEF ds2746_voltage

\* SetCharger leaves state, pins and USB controller in keeping.
LEMMA SetChargerRight ==
  ASSUME ChargeTypeOK, PinsMatchState,
         NEW state \in {"CHG_OFF", "CHG_AC", "CHG_USB_LOW", "CHG_OFF_FULL_BAT"},
         SetCharger(state)
  PROVE  /\ gState' = state /\ PinsMatchState'
         /\ chgPins' \in [enable : 0..2, current : 0..2]
         /\ usbCmd' \in {"found", "stopped", "running"}
<1>1. CASE gState = state
  BY <1>1 DEF SetCharger, ChargeTypeOK, PinsMatchState
<1>2. CASE gState # state
  <2>1. gState' = state /\ chgPins' = PinsFor(state)
        /\ usbCmd' = IF state = "CHG_AC" THEN "stopped" ELSE "running"
    BY <1>2 DEF SetCharger
  <2>2. PinsFor(state) \in [enable : 0..1, current : 0..1]
    BY DEF PinsFor
  <2>3. PinsFor(state).enable # 2 /\ chgPins' \in [enable : 0..2, current : 0..2]
    BY <2>1, <2>2
  <2> QED BY <2>1, <2>3 DEF PinsMatchState
<1> QED BY <1>1, <1>2

\* A charger that nobody has asked yet.
LEMMA ChargeInitInv == ChargeInit => ChargeInv
<1> SUFFICES ASSUME ChargeInit PROVE ChargeInv
  OBVIOUS
<1>1. ChargeTypeOK
  BY DEF ChargeInit, ChargeTypeOK
<1>2. ~steady /\ ChargeMoreTypeOK
  BY DEF ChargeInit, ChargeMoreTypeOK
<1>3. PinsMatchState /\ OffAfterExit
  BY DEF ChargeInit, PinsMatchState, OffAfterExit
<1> QED
  BY <1>1, <1>2, <1>3 DEF ChargeInv, ChargerRight, SteadyMeansRight, SteadyKnows

\* Every step keeps the invariant, whatever fails on the bus.
LEMMA ChargeNextInv == ChargeInv /\ [ChargeNext]_chargeVars => ChargeInv'
<1> SUFFICES ASSUME ChargeInv, [ChargeNext]_chargeVars PROVE ChargeInv'
  OBVIOUS
<1> USE DEF ChargeInv, ChargerRight, ChargeTypeOK, SteadyMeansRight, PinsMatchState,
       OffAfterExit, ChargeMoreTypeOK, SteadyKnows
<1>1. CASE MicroPDxeInitialize
  <2>1. microp' \in [light : {"found", "off", "green", "amber"}, installed : BOOLEAN]
    <3>1. PICK fails \in {0, RetryTimes, RetryTimes + 1} :
            microp' = [microp EXCEPT !.installed = WrittenInTime(fails)]
      BY <1>1 DEF MicroPDxeInitialize
    <3>2. WrittenInTime(fails) \in BOOLEAN
      BY DEF WrittenInTime
    <3> QED BY <3>1, <3>2
  <2> QED BY <1>1, <2>1 DEF MicroPDxeInitialize, hardware
<1>2. CASE ChargingDxeInit
  BY <1>2 DEF ChargingDxeInit, hardware
<1>3. CASE CheckUsbStatus
  <2>1. seen' \in [cable : BOOLEAN, full : BOOLEAN] /\ seen'.cable = supply.cable
    BY <1>3 DEF CheckUsbStatus
  <2>2. CASE supply.cable
    BY <1>3, <2>1, <2>2 DEF CheckUsbStatus, hardware
  <2>3. CASE ~supply.cable
    <3>1. SetCharger("CHG_OFF") /\ chargeAt' = "led"
      BY <1>3, <2>3 DEF CheckUsbStatus
    <3>2. gState' = "CHG_OFF" /\ PinsMatchState'
          /\ chgPins' \in [enable : 0..2, current : 0..2]
          /\ usbCmd' \in {"found", "stopped", "running"}
      BY <3>1, SetChargerRight
    <3> QED BY <1>3, <2>1, <2>3, <3>1, <3>2 DEF CheckUsbStatus, hardware, WantedState
  <2> QED BY <2>2, <2>3
<1>4. CASE ReadsVoltage
  <2>0. PICK failed \in SUBSET {"msb", "lsb"} :
          /\ steady' = (steady /\ failed = {})
          /\ \E s0 \in IF "msb" \in failed THEN JunkBytes ELSE {supply.raw \div 16},
                s1 \in IF "lsb" \in failed THEN JunkBytes ELSE {(supply.raw % 16) * 16} :
               LET full == ds2746_voltage(s0, s1) >= default_chg_voltage_threshold
               IN  /\ seen' = [seen EXCEPT !.full = full]
                   /\ IF full THEN chargeAt' = "led" /\ SetCharger("CHG_OFF_FULL_BAT")
                      ELSE chargeAt' = "ac" /\ UNCHANGED <<gState, chgPins, usbCmd>>
    BY <1>4 DEF ReadsVoltage
  <2>1. PICK s0 \in IF "msb" \in failed THEN JunkBytes ELSE {supply.raw \div 16},
             s1 \in IF "lsb" \in failed THEN JunkBytes ELSE {(supply.raw % 16) * 16} :
               LET full == ds2746_voltage(s0, s1) >= default_chg_voltage_threshold
               IN  /\ seen' = [seen EXCEPT !.full = full]
                   /\ IF full THEN chargeAt' = "led" /\ SetCharger("CHG_OFF_FULL_BAT")
                      ELSE chargeAt' = "ac" /\ UNCHANGED <<gState, chgPins, usbCmd>>
    BY <2>0
  <2> DEFINE full == ds2746_voltage(s0, s1) >= default_chg_voltage_threshold
  <2>2. full \in BOOLEAN
    BY DEF ds2746_voltage, MilliVolt, default_chg_voltage_threshold
  <2>3. seen' \in [cable : BOOLEAN, full : BOOLEAN]
        /\ seen'.cable = seen.cable /\ seen'.full = full
    BY <2>1, <2>2
  <2>4. failed = {} => full = Full(supply.raw)
    <3>1. supply.raw \in RawVoltages
      OBVIOUS
    <3> QED BY <2>1, <3>1, BytesAreVoltage DEF Full
  <2>5. chargeAt = "voltage" /\ supply' = supply /\ microp' = microp
    BY <1>4 DEF ReadsVoltage, hardware
  <2> HIDE DEF full
  <2>6. CASE full
    <3>1. SetCharger("CHG_OFF_FULL_BAT") /\ chargeAt' = "led"
      BY <2>1, <2>6 DEF full
    <3>2. gState' = "CHG_OFF_FULL_BAT" /\ PinsMatchState'
          /\ chgPins' \in [enable : 0..2, current : 0..2]
          /\ usbCmd' \in {"found", "stopped", "running"}
      BY <3>1, SetChargerRight
    <3> QED BY <2>0, <2>3, <2>4, <2>5, <2>6, <3>1, <3>2 DEF WantedState
  <2>7. CASE ~full
    <3>1. chargeAt' = "ac" /\ UNCHANGED <<gState, chgPins, usbCmd>>
      BY <2>1, <2>7 DEF full
    <3> QED BY <2>0, <2>3, <2>4, <2>5, <2>7, <3>1
  <2> QED BY <2>6, <2>7
<1>5. CASE IsAcOnline
  <2> DEFINE state == IF supply.ac THEN "CHG_AC" ELSE "CHG_USB_LOW"
  <2>1. SetCharger(state) /\ chargeAt = "ac" /\ chargeAt' = "led"
        /\ UNCHANGED <<supply, seen, microp, steady>>
    BY <1>5 DEF IsAcOnline, hardware
  <2>2. gState' = state /\ PinsMatchState'
        /\ chgPins' \in [enable : 0..2, current : 0..2]
        /\ usbCmd' \in {"found", "stopped", "running"}
    <3>1. state \in {"CHG_OFF", "CHG_AC", "CHG_USB_LOW", "CHG_OFF_FULL_BAT"}
      OBVIOUS
    <3> HIDE DEF state
    <3> QED BY <2>1, <3>1, SetChargerRight
  <2>3. /\ state \in {"CHG_AC", "CHG_USB_LOW"}
        /\ steady => state = WantedState
    BY <2>1 DEF WantedState
  <2>4. WantedState' = WantedState
    BY <2>1 DEF WantedState
  <2> HIDE DEF state
  <2>5. ChargeTypeOK' /\ OffAfterExit'
    BY <2>1, <2>2, <2>3
  <2>6. SteadyKnows'
    BY <2>1, <2>2, <2>3, <2>4 DEF Full
  <2> QED BY <2>1, <2>2, <2>5, <2>6
<1>6. CASE LedSetMode
  <2>1. /\ chargeAt = "led" /\ chargeAt' = "idle"
        /\ UNCHANGED <<supply, seen, gState, chgPins, usbCmd>>
        /\ \/ microp' = [microp EXCEPT !.light = LightFor(seen)] /\ steady' = steady
           \/ steady' = FALSE /\ microp' = microp
    BY <1>6 DEF LedSetMode, hardware
  <2>2. LightFor(seen) \in {"off", "green", "amber"}
    BY DEF LightFor
  <2>3. microp' \in [light : {"found", "off", "green", "amber"}, installed : BOOLEAN]
        /\ (steady' => steady /\ microp'.light = LightFor(seen))
    BY <2>1, <2>2
  <2>4. steady => LightFor(seen) = WantedLight
    BY <2>1 DEF LightFor, WantedLight, WantedState
  <2>5. WantedLight' = WantedLight /\ WantedState' = WantedState
    BY <2>1 DEF WantedLight, WantedState
  <2> QED BY ZenonT(30), <2>1, <2>3, <2>4, <2>5
<1>7. CASE ExitBootServicesEvent
  <2>1. SetCharger("CHG_OFF") /\ chargeAt' = "exited" /\ UNCHANGED <<supply, seen>>
    BY <1>7 DEF ExitBootServicesEvent, hardware
  <2>2. gState' = "CHG_OFF" /\ PinsMatchState'
        /\ chgPins' \in [enable : 0..2, current : 0..2]
        /\ usbCmd' \in {"found", "stopped", "running"}
    BY <2>1, SetChargerRight
  <2>3. microp' \in [light : {"found", "off", "green", "amber"}, installed : BOOLEAN]
        /\ steady' \in BOOLEAN
    BY <1>7 DEF ExitBootServicesEvent
  <2>4. chgPins'.enable # 0
    BY <2>2 DEF PinsFor
  <2> QED BY <2>1, <2>2, <2>3, <2>4
<1>8. CASE SupplyChanges
  <2>1. steady' = FALSE /\ supply' \in [cable : BOOLEAN, ac : BOOLEAN, raw : RawVoltages]
        /\ UNCHANGED <<chargeAt, seen, gState, chgPins, usbCmd, microp, busFaults>>
    BY <1>8 DEF SupplyChanges
  <2>2. ChargeTypeOK' /\ OffAfterExit' /\ PinsMatchState'
    BY <2>1
  <2> QED BY <2>1, <2>2
<1>9. CASE UNCHANGED chargeVars
  BY <1>9 DEF chargeVars, WantedState, WantedLight
<1> QED
  BY <1>1, <1>2, <1>3, <1>4, <1>5, <1>6, <1>7, <1>8, <1>9 DEF ChargeNext, WantsCharging

\* State, pins, light and USB controller belong together, and to the cable and
\* the battery once these rest: for every voltage and whatever the stack held.
THEOREM ChargerIsRight == ChargeSpec => []ChargerRight
<1>1. ChargeInv => ChargerRight
  BY DEF ChargeInv
<1> QED BY <1>1, ChargeInitInv, ChargeNextInv, PTL DEF ChargeSpec

-----------------------------------------------------------------------------
(* GpioDxe.                                                                 *)

GpioCall ==
  [op : {"config", "set", "get", "none"}, pin : 0..164, on : BOOLEAN,
   at : {"oe", "out", "end"}, seen : SUBSET UsedPins]

GpioMoreTypeOK ==
  /\ gpioRegs \in [{"oe", "out"} -> SUBSET UsedPins]
  /\ gpioWant \in [{"oe", "out"} -> SUBSET UsedPins]
  /\ gpioCall \in [Levels -> GpioCall]
  /\ gpioClobbered \subseteq {"oe", "out"} \X UsedPins

\* A call that stands is one of its level's, and has read its own bank.
CallsAreAsked ==
  \A l \in Levels : gpioCall[l].at # "end" =>
    /\ \E u \in PinUsers[l] : u.pin = gpioCall[l].pin
    /\ gpioCall[l].seen \subseteq find_gpio(gpioCall[l].pin)

\* What a call has read of its bank still stands there, but for the pins that
\* calls above it have written in the meantime.
SeenStillStands ==
  \A l \in Levels, r \in {"oe", "out"} : gpioCall[l].at = r =>
    \A n \in UsedPins \cap find_gpio(gpioCall[l].pin) :
      <<r, n>> \notin gpioClobbered => (n \in gpioCall[l].seen <=> n \in gpioRegs[r])

\* Two levels use the bank of a pin that was clobbered.
BankUsers(n) == {l \in Levels : \E u \in PinUsers[l] : u.pin \in find_gpio(n)}

TwoLevelsClobber ==
  \A c \in gpioClobbered : \E k, l \in BankUsers(c[2]) : k # l

GpioInv ==
  /\ PinsKept /\ GpioMoreTypeOK /\ CallsAreAsked /\ SeenStillStands
  /\ TwoLevelsClobber

-----------------------------------------------------------------------------
\* A pin's bank is the one range of the table that holds it.
LEMMA BankHolds ==
  ASSUME NEW n \in Nat, NEW p \in Nat
  PROVE  n \in find_gpio(p) <=>
           \E i \in 1..8 : /\ n \in GPIO_REGS[i][1]..GPIO_REGS[i][2]
                           /\ p \in GPIO_REGS[i][1]..GPIO_REGS[i][2]
BY DEF find_gpio

\* No pin lies in two banks.
LEMMA BanksDiffer ==
  ASSUME NEW n \in Nat, NEW i \in 1..8, NEW j \in 1..8,
         n \in GPIO_REGS[i][1]..GPIO_REGS[i][2],
         n \in GPIO_REGS[j][1]..GPIO_REGS[j][2]
  PROVE  i = j
BY DEF GPIO_REGS

\* Every pin lies in a bank.
LEMMA PinInItsBank ==
  ASSUME NEW p \in 0..164
  PROVE  p \in find_gpio(p)
<1>1. \E i \in 1..8 : p \in GPIO_REGS[i][1]..GPIO_REGS[i][2]
  BY DEF GPIO_REGS
<1>2. p \in Nat
  OBVIOUS
<1> QED BY <1>1, <1>2, BankHolds

\* Two pins that share a bank share all of it.
LEMMA OneBank ==
  ASSUME NEW p \in 0..164, NEW n \in 0..164, n \in find_gpio(p)
  PROVE  find_gpio(n) = find_gpio(p) /\ p \in find_gpio(n)
<1>1. PICK i \in 1..8 : /\ n \in GPIO_REGS[i][1]..GPIO_REGS[i][2]
                        /\ p \in GPIO_REGS[i][1]..GPIO_REGS[i][2]
  BY BankHolds
<1>2. \A j \in 1..8 : n \in GPIO_REGS[j][1]..GPIO_REGS[j][2] <=> j = i
  BY <1>1, BanksDiffer
<1>3. \A j \in 1..8 : p \in GPIO_REGS[j][1]..GPIO_REGS[j][2] <=> j = i
  BY <1>1, BanksDiffer
<1>4. find_gpio(n) = find_gpio(p)
  BY <1>2, <1>3 DEF find_gpio
<1> QED BY <1>1, <1>4, BankHolds

\* The table of banks covers the pins of every call.
LEMMA UsedPinsInTable == UsedPins \subseteq 0..164
BY PinUsersAssumption DEF PinUsersAssumption, UsedPins, Levels

\* Before any call.
LEMMA GpioInitInv == GpioInit => GpioInv
<1> SUFFICES ASSUME GpioInit PROVE GpioInv
  OBVIOUS
<1>1. GpioMoreTypeOK
  BY DEF GpioInit, GpioMoreTypeOK, GpioCall, NoCall
<1>2. PinsKept
  BY DEF GpioInit, PinsKept, GpioTypeOK, PinsKeepUnlessOverlapped, OneLevelBanksKeep, NoCall
<1> QED
  BY <1>1, <1>2 DEF GpioInit, GpioInv, CallsAreAsked, SeenStillStands, TwoLevelsClobber, NoCall

\* What the write of a call at level l does to a register: its pin becomes
\* what was asked for, every other pin of the bank becomes what was read.
LEMMA WritesInv ==
  ASSUME GpioInv, NEW l \in Levels, NEW reg \in {"oe", "out"},
         Runs(l), gpioCall[l].at = reg, Writes(l, reg)
  PROVE  /\ gpioRegs' \in [{"oe", "out"} -> SUBSET UsedPins]
         /\ gpioWant' \in [{"oe", "out"} -> SUBSET UsedPins]
         /\ gpioClobbered' \subseteq {"oe", "out"} \X UsedPins
         /\ PinsKeepUnlessOverlapped' /\ TwoLevelsClobber'
         /\ \A r \in {"oe", "out"} : r # reg => gpioRegs'[r] = gpioRegs[r]
         /\ \A k \in Levels \ {l}, r \in {"oe", "out"} : gpioCall[k].at = r =>
              \A n \in UsedPins \cap find_gpio(gpioCall[k].pin) :
                <<r, n>> \notin gpioClobbered' => (n \in gpioCall[k].seen <=> n \in gpioRegs'[r])
<1> DEFINE c == gpioCall[l]
           p == c.pin
           bank == find_gpio(p)
           high == HighBit(c, reg)
<1>1. /\ gpioRegs \in [{"oe", "out"} -> SUBSET UsedPins]
      /\ gpioWant \in [{"oe", "out"} -> SUBSET UsedPins]
      /\ gpioClobbered \subseteq {"oe", "out"} \X UsedPins
      /\ c \in GpioCall /\ c.seen \subseteq UsedPins /\ c.seen \subseteq bank
      /\ p \in 0..164
  BY DEF GpioInv, GpioMoreTypeOK, CallsAreAsked, GpioCall
<1>2. PICK u \in PinUsers[l] : u.pin = p
  BY DEF GpioInv, CallsAreAsked
<1>3. p \in UsedPins /\ p \in bank
  BY <1>1, <1>2, PinInItsBank DEF UsedPins
<1>4. /\ gpioRegs' = [gpioRegs EXCEPT ![reg] = (@ \ bank) \cup Written(c, reg)]
      /\ gpioWant' = [gpioWant EXCEPT ![reg] = IF high THEN @ \cup {p} ELSE @ \ {p}]
      /\ gpioClobbered' = IF Overlaps(l, reg, p) THEN gpioClobbered \cup {<<reg, p>>}
                          ELSE gpioClobbered \ {<<reg, p>>}
  BY DEF Writes
<1>5. Written(c, reg) = IF high THEN c.seen \cup {p} ELSE c.seen \ {p}
  BY DEF Written
<1>6. \A n \in UsedPins :
        n \in gpioRegs'[reg] <=> IF n = p THEN high
                                 ELSE IF n \in bank THEN n \in c.seen ELSE n \in gpioRegs[reg]
  <2> HIDE DEF c, p, bank, high
  <2> QED BY <1>1, <1>3, <1>4, <1>5
<1>7. \A n \in UsedPins :
        n \in gpioWant'[reg] <=> IF n = p THEN high ELSE n \in gpioWant[reg]
  <2> HIDE DEF c, p, bank, high
  <2> QED BY <1>1, <1>3, <1>4
<1>8. \A r \in {"oe", "out"} : r # reg => gpioRegs'[r] = gpioRegs[r] /\ gpioWant'[r] = gpioWant[r]
  BY <1>1, <1>4
<1>9. \A n \in UsedPins : n # p /\ <<reg, n>> \notin gpioClobbered =>
        (n \in gpioRegs'[reg] <=> n \in gpioRegs[reg])
  BY <1>6 DEF GpioInv, SeenStillStands
<1>10. \A r \in {"oe", "out"}, n \in UsedPins : <<r, n>> # <<reg, p>> =>
         (<<r, n>> \in gpioClobbered' <=> <<r, n>> \in gpioClobbered)
  BY <1>4
<1>11. /\ gpioRegs' \in [{"oe", "out"} -> SUBSET UsedPins]
       /\ gpioWant' \in [{"oe", "out"} -> SUBSET UsedPins]
       /\ gpioClobbered' \subseteq {"oe", "out"} \X UsedPins
  <2> HIDE DEF c, p, bank, high
  <2> QED BY <1>1, <1>3, <1>4, <1>5
<1>12. PinsKeepUnlessOverlapped'
  <2> SUFFICES ASSUME NEW r \in {"oe", "out"}, NEW n \in UsedPins, <<r, n>> \notin gpioClobbered'
               PROVE  n \in gpioRegs'[r] <=> n \in gpioWant'[r]
    BY DEF PinsKeepUnlessOverlapped, UsedPins, Levels
  <2>1. \A q \in {"oe", "out"} : \A m \in UsedPins :
          <<q, m>> \notin gpioClobbered => (m \in gpioRegs[q] <=> m \in gpioWant[q])
    BY DEF GpioInv, PinsKept, PinsKeepUnlessOverlapped
  <2>2. CASE r # reg
    BY <1>8, <1>10, <2>1, <2>2
  <2>3. CASE r = reg /\ n = p
    BY <1>6, <1>7, <2>3
  <2>4. CASE r = reg /\ n # p
    BY <1>7, <1>9, <1>10, <2>1, <2>4
  <2> QED BY <2>2, <2>3, <2>4
<1>13. TwoLevelsClobber'
  <2> SUFFICES ASSUME NEW x \in gpioClobbered'
               PROVE  \E k, m \in BankUsers(x[2]) : k # m
    BY DEF TwoLevelsClobber, BankUsers, Levels
  <2>1. CASE x \in gpioClobbered
    BY <2>1 DEF GpioInv, TwoLevelsClobber
  <2>2. CASE x \notin gpioClobbered
    <3>1. x = <<reg, p>> /\ Overlaps(l, reg, p)
      BY <1>4, <2>2
    <3>2. PICK k \in Levels : k < l /\ gpioCall[k].at = reg
                              /\ find_gpio(gpioCall[k].pin) = bank
      BY <3>1 DEF Overlaps
    <3>3. PICK v \in PinUsers[k] : v.pin = gpioCall[k].pin
      BY <3>2 DEF GpioInv, CallsAreAsked
    <3>4. gpioCall[k].pin \in 0..164
      BY DEF GpioInv, GpioMoreTypeOK, GpioCall
    <3>5. v.pin \in bank
      BY <3>2, <3>3, <3>4, PinInItsBank
    <3>6. k \in BankUsers(p) /\ l \in BankUsers(p) /\ k # l
      <4>1. k # l
        BY <3>2, PinUsersAssumption DEF PinUsersAssumption, Levels
      <4> QED BY <1>2, <1>3, <3>5, <4>1 DEF BankUsers
    <3> QED BY <3>1, <3>6
  <2> QED BY <2>1, <2>2
<1>14. ASSUME NEW k \in Levels \ {l}, NEW r \in {"oe", "out"}, gpioCall[k].at = r,
              NEW n \in UsedPins \cap find_gpio(gpioCall[k].pin), <<r, n>> \notin gpioClobbered'
       PROVE  n \in gpioCall[k].seen <=> n \in gpioRegs'[r]
  <2>1. \A m \in UsedPins \cap find_gpio(gpioCall[k].pin) :
          <<r, m>> \notin gpioClobbered => (m \in gpioCall[k].seen <=> m \in gpioRegs[r])
    BY <1>14 DEF GpioInv, SeenStillStands
  <2>2. CASE r # reg
    BY <1>8, <1>10, <1>14, <2>1, <2>2
  <2>3. CASE r = reg /\ n # p
    BY <1>9, <1>10, <1>14, <2>1, <2>3
  <2>4. CASE r = reg /\ n = p
    <3>1. k < l
      <4>1. k \in Nat /\ l \in Nat /\ k # l
        BY PinUsersAssumption DEF PinUsersAssumption, Levels
      <4>2. ~(k > l)
        BY <1>14, <2>4 DEF Runs, NoCall
      <4> QED BY <4>1, <4>2
    <3>2. gpioCall[k].pin \in 0..164
      BY DEF GpioInv, GpioMoreTypeOK, GpioCall
    <3>3. find_gpio(gpioCall[k].pin) = bank
      BY <1>1, <1>14, <2>4, <3>2, OneBank
    <3>4. Overlaps(l, reg, p)
      BY <1>14, <2>4, <3>1, <3>3 DEF Overlaps
    <3> QED BY <1>4, <1>14, <2>4, <3>4
  <2> QED BY <2>2, <2>3, <2>4
<1> QED BY <1>8, <1>11, <1>12, <1>13, <1>14

\* Where one level only uses a bank, nothing is clobbered there.
LEMMA OneLevelUnclobbered ==
  ASSUME PinsKeepUnlessOverlapped, TwoLevelsClobber
  PROVE  OneLevelBanksKeep
<1> SUFFICES ASSUME NEW n \in UsedPins, Cardinality(BankUsers(n)) = 1,
                    NEW r \in {"oe", "out"}
             PROVE  n \in gpioRegs[r] <=> n \in gpioWant[r]
  BY DEF OneLevelBanksKeep, BankUsers
<1>1. IsFiniteSet(BankUsers(n))
  <2>1. BankUsers(n) \subseteq Levels
    BY DEF BankUsers
  <2> QED BY <2>1, FS_Subset, PinUsersAssumption DEF PinUsersAssumption, Levels
<1>2. \E x : BankUsers(n) = {x}
  BY <1>1, FS_Singleton
<1>3. <<r, n>> \notin gpioClobbered
  BY <1>2 DEF TwoLevelsClobber
<1> QED BY <1>3 DEF PinsKeepUnlessOverlapped

\* Every step keeps the invariant.
LEMMA GpioNextInv == GpioInv /\ [GpioNext]_gpioVars => GpioInv'
<1> SUFFICES ASSUME GpioInv, [GpioNext]_gpioVars PROVE GpioInv'
  OBVIOUS
<1>1. /\ gpioRegs \in [{"oe", "out"} -> SUBSET UsedPins]
      /\ gpioCall \in [Levels -> GpioCall]
  BY DEF GpioInv, GpioMoreTypeOK
<1>2. ASSUME NEW l \in Levels, gpio_call(l)
      PROVE  GpioInv'
  <2>1. PICK u \in PinUsers[l], on \in BOOLEAN :
          gpioCall' = [gpioCall EXCEPT ![l] =
            [op |-> u.op, pin |-> u.pin, on |-> on, at |-> "oe",
             seen |-> readl(gpioRegs, "oe", u.pin)]]
    BY <1>2 DEF gpio_call
  <2> DEFINE new == [op |-> u.op, pin |-> u.pin, on |-> on, at |-> "oe",
                     seen |-> readl(gpioRegs, "oe", u.pin)]
  <2>2. UNCHANGED <<gpioRegs, gpioWant, gpioClobbered>>
    BY <1>2 DEF gpio_call
  <2>3. readl(gpioRegs, "oe", u.pin) = gpioRegs["oe"] \cap find_gpio(u.pin)
    BY DEF readl
  <2>4. u \in [op : {"config", "set", "get"}, pin : 0..164]
    BY PinUsersAssumption DEF PinUsersAssumption, Levels
  <2>5. new \in GpioCall /\ new.seen \subseteq UsedPins /\ new.pin = u.pin /\ new.at = "oe"
        /\ new.seen = gpioRegs["oe"] \cap find_gpio(u.pin)
    BY <1>1, <2>3, <2>4 DEF GpioCall
  <2>6. gpioCall' \in [Levels -> GpioCall] /\ gpioCall'[l] = new
        /\ \A k \in Levels : k # l => gpioCall'[k] = gpioCall[k]
    <3> HIDE DEF new
    <3> QED BY <1>1, <2>1, <2>5 DEF new
  <2> HIDE DEF new
  <2>7. CallsAreAsked'
    BY <2>5, <2>6 DEF GpioInv, CallsAreAsked
  <2>8. SeenStillStands'
    BY <2>2, <2>5, <2>6 DEF GpioInv, SeenStillStands
  <2>9. GpioMoreTypeOK' /\ GpioTypeOK'
    BY <2>2, <2>5, <2>6 DEF GpioInv, GpioMoreTypeOK, GpioTypeOK, PinsKept, GpioCall
  <2>10. TwoLevelsClobber' /\ PinsKeepUnlessOverlapped' /\ OneLevelBanksKeep'
    BY <2>2 DEF GpioInv, TwoLevelsClobber, PinsKept, PinsKeepUnlessOverlapped,
                OneLevelBanksKeep, BankUsers
  <2> QED BY <2>7, <2>8, <2>9, <2>10 DEF GpioInv, PinsKept
<1>3. ASSUME NEW l \in Levels, NEW reg \in {"oe", "out"}, NEW new \in GpioCall,
             Runs(l), gpioCall[l].at = reg, Writes(l, reg),
             gpioCall' = [gpioCall EXCEPT ![l] = new],
             \/ new = NoCall
             \/ /\ reg = "oe" /\ new.at = "out" /\ new.pin = gpioCall[l].pin
                /\ new.seen = readl(gpioRegs, "out", gpioCall[l].pin)
      PROVE  GpioInv'
  <2>1. /\ gpioRegs' \in [{"oe", "out"} -> SUBSET UsedPins]
        /\ gpioWant' \in [{"oe", "out"} -> SUBSET UsedPins]
        /\ gpioClobbered' \subseteq {"oe", "out"} \X UsedPins
        /\ PinsKeepUnlessOverlapped' /\ TwoLevelsClobber'
        /\ \A r \in {"oe", "out"} : r # reg => gpioRegs'[r] = gpioRegs[r]
        /\ \A k \in Levels \ {l}, r \in {"oe", "out"} : gpioCall[k].at = r =>
              \A n \in UsedPins \cap find_gpio(gpioCall[k].pin) :
                <<r, n>> \notin gpioClobbered' => (n \in gpioCall[k].seen <=> n \in gpioRegs'[r])
    BY <1>3, WritesInv
  <2>2. gpioCall' \in [Levels -> GpioCall] /\ gpioCall'[l] = new
        /\ \A k \in Levels : k # l => gpioCall'[k] = gpioCall[k]
    BY <1>1, <1>3
  <2>3. OneLevelBanksKeep'
    <3>1. PinsKeepUnlessOverlapped' /\ TwoLevelsClobber' => OneLevelBanksKeep'
      BY OneLevelUnclobbered, PTL
    <3> QED BY <2>1, <3>1
  <2>4. new.at # "end" =>
          /\ new.at = "out" /\ reg = "oe" /\ new.pin = gpioCall[l].pin
          /\ new.seen = gpioRegs["out"] \cap find_gpio(gpioCall[l].pin)
    BY <1>3 DEF NoCall, readl
  <2>5. CallsAreAsked'
    BY <1>3, <2>2, <2>4 DEF GpioInv, CallsAreAsked
  <2>6. SeenStillStands'
    <3> SUFFICES ASSUME NEW k \in Levels, NEW r \in {"oe", "out"}, gpioCall'[k].at = r,
                        NEW n \in UsedPins \cap find_gpio(gpioCall'[k].pin),
                        <<r, n>> \notin gpioClobbered'
                 PROVE  n \in gpioCall'[k].seen <=> n \in gpioRegs'[r]
      BY DEF SeenStillStands, UsedPins, Levels
    <3>1. CASE k = l
      <4>1. new.at = r /\ r # "end"
        BY <2>2, <3>1
      <4> QED BY <2>1, <2>2, <2>4, <3>1, <4>1
    <3>2. CASE k # l
      BY <2>1, <2>2, <3>2
    <3> QED BY <3>1, <3>2
  <2>7. GpioMoreTypeOK' /\ GpioTypeOK'
    BY <2>1, <2>2 DEF GpioMoreTypeOK, GpioTypeOK, GpioCall
  <2> QED BY <2>1, <2>3, <2>5, <2>6, <2>7 DEF GpioInv, PinsKept
<1>4. ASSUME NEW l \in Levels, gpio_config(l)
      PROVE  GpioInv'
  <2> DEFINE c == gpioCall[l]
             new == IF c.op # "set" THEN NoCall
                    ELSE [c EXCEPT !.at = "out", !.seen = readl(gpioRegs, "out", c.pin)]
  <2>1. Runs(l) /\ c.at = "oe" /\ Writes(l, "oe") /\ gpioCall' = [gpioCall EXCEPT ![l] = new]
    BY <1>1, <1>4 DEF gpio_config
  <2>2. c \in GpioCall /\ readl(gpioRegs, "out", c.pin) \subseteq UsedPins
    BY <1>1 DEF readl
  <2>3. new \in GpioCall /\
        (\/ new = NoCall
         \/ /\ new.at = "out" /\ new.pin = c.pin
            /\ new.seen = readl(gpioRegs, "out", c.pin))
    <3>1. CASE c.op # "set"
      BY <3>1 DEF GpioCall, NoCall
    <3>2. CASE c.op = "set"
      BY <2>2, <3>2 DEF GpioCall
    <3> QED BY <3>1, <3>2
  <2> HIDE DEF new
  <2> QED BY <1>3, <2>1, <2>3
<1>5. ASSUME NEW l \in Levels, gpio_set(l)
      PROVE  GpioInv'
  <2>1. NoCall \in GpioCall
    BY DEF GpioCall, NoCall
  <2> QED BY <1>3, <1>5, <2>1 DEF gpio_set
<1>6. CASE UNCHANGED gpioVars
  BY <1>6 DEF gpioVars, GpioInv, PinsKept, GpioTypeOK, PinsKeepUnlessOverlapped,
       OneLevelBanksKeep, GpioMoreTypeOK, CallsAreAsked, SeenStillStands,
       TwoLevelsClobber, BankUsers
<1> QED BY <1>2, <1>4, <1>5, <1>6 DEF GpioNext

\* A call for a pin changes that pin alone, except where calls overlap: for
\* every set of callers, at any number of levels.
THEOREM PinsAreKept == GpioSpec => []PinsKept
<1>1. GpioInv => PinsKept
  BY DEF GpioInv
<1> QED BY <1>1, GpioInitInv, GpioNextInv, PTL DEF GpioSpec

-----------------------------------------------------------------------------
(* GPTTimerLib.                                                             *)

GptTypeOK ==
  /\ GPT_COUNT_VAL \in 0..CounterRange - 1
  /\ gptAt \in {"early", "idle", "wrap", "reach"}
  /\ gptCount \in 0..CounterRange - 1 /\ gptInitCount \in 0..CounterRange - 1
  /\ gptTicks \in Nat
  /\ gptAt \in {"wrap", "reach"} => gptTicks + MaxGap < CounterRange
  /\ gptAsked \in Nat /\ gptElapsed \in Nat

\* The count of a delay's end, without the wrap.
GptEnd == gptInitCount + gptTicks

\* The count that a loop has read last is the time since the first read, less
\* the wraps; the first loop is left after the wrap that the end lies behind.
CountsOn ==
  \/ gptElapsed > 2 * CounterRange
  \/ /\ gptCount = (gptInitCount + gptElapsed) % CounterRange
     /\ (gptAt = "reach" /\ GptEnd >= CounterRange) =>
          gptInitCount + gptElapsed >= CounterRange

\* A delay whose end lies before the wrap goes straight through the first loop.
EndsInTime ==
  Timeout + MaxGap < CounterRange =>
    /\ gptElapsed <= gptTicks + MaxGap
    /\ (gptAt = "wrap" /\ GptEnd < CounterRange) => gptElapsed = 0

GptInv ==
  /\ GptTypeOK
  /\ gptAt \in {"wrap", "reach"} =>
       CountsOn /\ gptTicks = Ticks(gptAsked) /\ gptCount = GPT_COUNT_VAL
  /\ gptAt = "early" => gptElapsed = 0 /\ gptAsked = 0
  /\ EndsInTime /\ DelayLongEnough

\* A product with a factor of at least one is at least the other factor.
LEMMA TimesAtLeast ==
  ASSUME NEW k \in Int, k >= 1, NEW R \in Nat
  PROVE  k * R >= R
OBVIOUS

\* Quotient and rest.
LEMMA DivRest ==
  ASSUME NEW x \in Nat, NEW R \in Nat, R > 0
  PROVE  x \div R \in Nat /\ x % R \in 0..R-1 /\ x = (x \div R) * R + (x % R)
OBVIOUS

\* The rest is the only number below the divisor that is left.
LEMMA RestIsUnique ==
  ASSUME NEW x \in Nat, NEW c \in Nat, NEW R \in Nat, NEW m \in Nat, c < R, x = m * R + c
  PROVE  x % R = c
<1> DEFINE d == x \div R
           r == x % R
<1>1. d \in Nat /\ r \in 0..R-1 /\ x = d * R + r
  BY DivRest
<1> HIDE DEF d, r
<1>2. (m - d) * R = r - c /\ (d - m) * R = c - r
  BY <1>1
<1>3. ~(m - d >= 1)
  <2> SUFFICES ASSUME m - d >= 1 PROVE FALSE
    OBVIOUS
  <2>1. (m - d) * R >= R
    BY <1>1, TimesAtLeast
  <2> QED BY <2>1, <1>1, <1>2
<1>4. ~(d - m >= 1)
  <2> SUFFICES ASSUME d - m >= 1 PROVE FALSE
    OBVIOUS
  <2>1. (d - m) * R >= R
    BY <1>1, TimesAtLeast
  <2> QED BY <2>1, <1>1, <1>2
<1>5. m = d
  BY <1>1, <1>3, <1>4
<1> QED BY <1>1, <1>5 DEF r

\* Counting on by a gap from a counter that has wrapped.
LEMMA CountOn ==
  ASSUME NEW x \in Nat, NEW gap \in Nat, NEW R \in Nat, R > 0
  PROVE  ((x % R) + gap) % R = (x + gap) % R
<1> DEFINE d == x \div R
           r == x % R
           p == (r + gap) \div R
           c == (r + gap) % R
           m == d + p
<1>1. d \in Nat /\ r \in 0..R-1 /\ x = d * R + r
  BY DivRest
<1> HIDE DEF d, r
<1>2. p \in Nat /\ c \in 0..R-1 /\ r + gap = p * R + c
  BY <1>1, DivRest
<1> HIDE DEF p, c
<1>3. m \in Nat /\ m * R = d * R + p * R
  BY <1>1, <1>2
<1>4. x + gap = m * R + c /\ x + gap \in Nat /\ c \in Nat /\ c < R
  BY <1>1, <1>2, <1>3
<1> HIDE DEF m
<1>5. (x + gap) % R = c
  BY <1>3, <1>4, RestIsUnique
<1> QED BY <1>5 DEF c, r

\* A sum of two counts wraps at most once.
LEMMA WrapsOnce ==
  ASSUME NEW x \in Nat, x < 2 * CounterRange
  PROVE  x % CounterRange = IF x < CounterRange THEN x ELSE x - CounterRange
BY GptAssumption DEF GptAssumption

\* The counts of a delay, and that they round up to a microsecond short of it.
LEMMA TicksEnough ==
  ASSUME NEW us \in Nat
  PROVE  Ticks(us) \in Nat /\ Ticks(us) * 1000 > (us - 1) * 33
BY DEF Ticks

\* Between two reads of a loop the counter goes on.
LEMMA ReadsOn ==
  ASSUME GptInv, ReadsAgain, gptAt \in {"wrap", "reach"},
         UNCHANGED <<gptAt, gptInitCount, gptTicks, gptAsked>>,
         Timeout + MaxGap < CounterRange =>
           gptElapsed < gptTicks /\ ~(gptAt = "wrap" /\ GptEnd < CounterRange)
  PROVE  GptInv'
<1> DEFINE R == CounterRange
<1>1. R \in Nat \ {0} /\ MaxGap \in Nat
  BY GptAssumption DEF GptAssumption
<1>2. PICK gap \in 1..MaxGap : Runs32(gap) /\ gptCount' = GPT_COUNT_VAL'
  BY DEF ReadsAgain
<1>3. /\ GPT_COUNT_VAL' = (GPT_COUNT_VAL + gap) % R
      /\ gptElapsed' = IF gptElapsed > 2 * R THEN gptElapsed ELSE gptElapsed + gap
  BY <1>2 DEF Runs32
<1>4. GptTypeOK /\ CountsOn /\ gptTicks = Ticks(gptAsked) /\ gptCount = GPT_COUNT_VAL /\ EndsInTime
  BY DEF GptInv
<1> HIDE DEF R
<1>5. GPT_COUNT_VAL' \in 0..R-1 /\ gptElapsed' \in Nat
  BY <1>1, <1>3, <1>4, DivRest DEF GptTypeOK, R
<1>6. GptTypeOK'
  BY <1>2, <1>4, <1>5 DEF GptTypeOK, R
<1>7. CountsOn'
  <2>1. CASE gptElapsed' > 2 * R
    BY <2>1 DEF CountsOn, R
  <2>2. CASE ~(gptElapsed' > 2 * R)
    <3> DEFINE x == gptInitCount + gptElapsed
    <3>1. gptElapsed' = gptElapsed + gap /\ ~(gptElapsed > 2 * R)
      BY <1>1, <1>3, <1>4, <2>2 DEF GptTypeOK
    <3>2. x \in Nat /\ gptCount = x % R
          /\ ((gptAt = "reach" /\ GptEnd >= R) => x >= R)
      BY <1>4, <3>1, <1>1 DEF GptTypeOK, CountsOn, R
    <3>3. x + gap = gptInitCount' + gptElapsed' /\ x + gap >= x
      BY <3>1, <3>2, <1>4, <1>1 DEF GptTypeOK
    <3> HIDE DEF x
    <3>4. (gptCount + gap) % R = (x + gap) % R
      <4>1. gap \in Nat /\ R \in Nat /\ R > 0
        BY <1>1
      <4>2. ((x % R) + gap) % R = (x + gap) % R
        BY <3>2, <4>1, CountOn
      <4> QED BY <3>2, <4>2
    <3>5. gptCount' = (gptInitCount' + gptElapsed') % R
      BY <1>2, <1>3, <1>4, <3>3, <3>4
    <3>6. (gptAt' = "reach" /\ GptEnd' >= R) => gptInitCount' + gptElapsed' >= R
      BY <1>1, <3>2, <3>3 DEF GptEnd
    <3> QED BY <3>5, <3>6 DEF CountsOn, R
  <2> QED BY <2>1, <2>2
<1>8. EndsInTime'
  <2> SUFFICES ASSUME Timeout' + MaxGap < R
               PROVE  /\ gptElapsed' <= gptTicks' + MaxGap
                      /\ ~(gptAt' = "wrap" /\ GptEnd' < R)
    BY DEF EndsInTime, R
  <2>1. Timeout' = Timeout
    BY DEF Timeout
  <2>2. gptElapsed < gptTicks /\ ~(gptAt = "wrap" /\ GptEnd < R) /\ GptEnd' = GptEnd
    BY <2>1 DEF R, GptEnd
  <2> QED
    BY <1>1, <1>3, <1>4, <2>1, <2>2 DEF GptTypeOK, R
<1>9. DelayLongEnough' /\ gptTicks' = Ticks(gptAsked')
  BY <1>4 DEF DelayLongEnough
<1> QED BY <1>2, <1>6, <1>7, <1>8, <1>9 DEF GptInv

\* Where the counter stands in a delay that no gap has carried past the wrap twice.
LEMMA WhereItStands ==
  ASSUME GptInv, gptAt \in {"wrap", "reach"}, ~(gptElapsed > 2 * CounterRange)
  PROVE  /\ Timeout = IF GptEnd < CounterRange THEN GptEnd ELSE GptEnd - CounterRange
         /\ gptInitCount + gptElapsed < CounterRange => gptCount = gptInitCount + gptElapsed
         /\ (gptInitCount + gptElapsed >= CounterRange
           /\ gptInitCount + gptElapsed < 2 * CounterRange)
              => gptCount = gptInitCount + gptElapsed - CounterRange
         /\ (gptAt = "reach" /\ GptEnd >= CounterRange) =>
              gptInitCount + gptElapsed >= CounterRange
<1>1. CounterRange \in Nat \ {0} /\ MaxGap \in Nat
  BY GptAssumption DEF GptAssumption
<1>2. GptTypeOK /\ CountsOn
  BY DEF GptInv
<1> DEFINE x == gptInitCount + gptElapsed
<1>3. x \in Nat /\ gptCount = x % CounterRange
      /\ ((gptAt = "reach" /\ GptEnd >= CounterRange) => x >= CounterRange)
  BY <1>1, <1>2 DEF GptTypeOK, CountsOn
<1>4. GptEnd \in Nat /\ GptEnd < 2 * CounterRange /\ Timeout = GptEnd % CounterRange
  BY <1>1, <1>2 DEF GptTypeOK, GptEnd, Timeout
<1>5. Timeout = IF GptEnd < CounterRange THEN GptEnd ELSE GptEnd - CounterRange
  BY <1>4, WrapsOnce
<1> HIDE DEF x
<1>6. x < 2 * CounterRange => gptCount = IF x < CounterRange THEN x ELSE x - CounterRange
  BY <1>3, WrapsOnce
<1>7. /\ x < CounterRange => gptCount = x
      /\ (x >= CounterRange /\ x < 2 * CounterRange) => gptCount = x - CounterRange
  BY <1>1, <1>3, <1>6
<1>8. /\ gptInitCount + gptElapsed < CounterRange => gptCount = gptInitCount + gptElapsed
      /\ (gptInitCount + gptElapsed >= CounterRange /\ gptInitCount + gptElapsed < 2 * CounterRange)
           => gptCount = gptInitCount + gptElapsed - CounterRange
      /\ (gptAt = "reach" /\ GptEnd >= CounterRange) =>
           gptInitCount + gptElapsed >= CounterRange
  BY <1>1, <1>2, <1>3, <1>7 DEF x, GptTypeOK
<1> QED BY <1>5, <1>8

\* Every step keeps the invariant.
LEMMA GptNextInv == GptInv /\ [GptNext]_gptVars => GptInv'
<1> SUFFICES ASSUME GptInv, [GptNext]_gptVars PROVE GptInv'
  OBVIOUS
<1>1. CounterRange \in Nat \ {0} /\ MaxGap \in Nat
  BY GptAssumption DEF GptAssumption
<1>2. GptTypeOK /\ EndsInTime /\ DelayLongEnough
  BY DEF GptInv
<1>3. CASE TimerEarlyInit
  <2>1. GptTypeOK' /\ Timeout' = Timeout
    BY <1>1, <1>2, <1>3 DEF TimerEarlyInit, GptTypeOK, Timeout
  <2>2. EndsInTime' /\ DelayLongEnough'
    BY <1>2, <1>3, <2>1 DEF GptInv, TimerEarlyInit, EndsInTime, DelayLongEnough
  <2> QED
    BY <1>3, <2>1, <2>2 DEF GptInv, TimerEarlyInit
<1>4. CASE IdleTime
  <2>1. GPT_COUNT_VAL' \in 0..CounterRange - 1
    BY <1>1, <1>2, <1>4, DivRest DEF IdleTime, GptTypeOK
  <2>2. GptTypeOK' /\ Timeout' = Timeout /\ GptEnd' = GptEnd
    BY <1>2, <1>4, <2>1 DEF IdleTime, GptTypeOK, Timeout, GptEnd
  <2>3. EndsInTime' /\ DelayLongEnough'
    BY <1>2, <1>4, <2>2 DEF IdleTime, EndsInTime, DelayLongEnough
  <2> QED BY <1>4, <2>2, <2>3 DEF GptInv, IdleTime
<1>5. CASE MicroSecondDelay
  <2>1. PICK us \in Delays \cup {NanoSecondDelay(ns) : ns \in NanoDelays} :
          gptAsked' = us /\ gptTicks' = Ticks(us)
    BY <1>5 DEF MicroSecondDelay
  <2>2. us \in Nat
    BY GptAssumption DEF GptAssumption, NanoSecondDelay
  <2>3. Ticks(us) \in Nat /\ Ticks(us) + MaxGap < CounterRange
    BY <2>2, TicksEnough, DelayAssumption DEF DelayAssumption
  <2>4. /\ gptCount' = GPT_COUNT_VAL /\ gptInitCount' = GPT_COUNT_VAL
        /\ gptElapsed' = 0 /\ gptAt' = "wrap" /\ GPT_COUNT_VAL' = GPT_COUNT_VAL
    BY <1>5 DEF MicroSecondDelay
  <2>5. GptTypeOK'
    BY <1>1, <1>2, <2>1, <2>2, <2>3, <2>4 DEF GptTypeOK
  <2>6. gptCount' = (gptInitCount' + gptElapsed') % CounterRange
    BY <1>1, <1>2, <2>4, WrapsOnce DEF GptTypeOK
  <2>7. CountsOn' /\ EndsInTime' /\ DelayLongEnough'
    BY <1>1, <2>1, <2>3, <2>4, <2>6 DEF CountsOn, EndsInTime, DelayLongEnough
  <2> QED BY <2>1, <2>4, <2>5, <2>7 DEF GptInv
<1>6. CASE WaitsForWrap
  <2>1. gptAt = "wrap" /\ UNCHANGED <<gptInitCount, gptTicks, gptAsked>>
    BY <1>6 DEF WaitsForWrap
  <2>2. CASE BeforeWrap
    <3>1. ReadsAgain /\ UNCHANGED gptAt
      BY <1>6, <2>2 DEF WaitsForWrap
    <3>2. ASSUME Timeout + MaxGap < CounterRange
          PROVE  gptElapsed < gptTicks /\ ~(gptAt = "wrap" /\ GptEnd < CounterRange)
      <4>1. gptElapsed <= gptTicks + MaxGap /\ (GptEnd < CounterRange => gptElapsed = 0)
        BY <1>2, <2>1, <3>2 DEF EndsInTime
      <4>2. gptElapsed < CounterRange /\ gptTicks + MaxGap < CounterRange
        BY <1>1, <1>2, <2>1, <4>1 DEF GptTypeOK
      <4>3. /\ Timeout = IF GptEnd < CounterRange THEN GptEnd ELSE GptEnd - CounterRange
            /\ gptInitCount + gptElapsed < CounterRange => gptCount = gptInitCount + gptElapsed
            /\ (gptInitCount + gptElapsed >= CounterRange
              /\ gptInitCount + gptElapsed < 2 * CounterRange)
                 => gptCount = gptInitCount + gptElapsed - CounterRange
        <5>1. ~(gptElapsed > 2 * CounterRange)
          BY <1>1, <1>2, <4>2 DEF GptTypeOK
        <5> QED BY <2>1, <5>1, WhereItStands
      <4>4. Timeout < gptCount /\ gptInitCount <= gptCount
        BY <2>2 DEF BeforeWrap
      <4>5. ~(GptEnd < CounterRange)
        BY <1>1, <1>2, <4>1, <4>3, <4>4 DEF GptTypeOK, GptEnd
      <4>6. gptInitCount + gptElapsed < CounterRange
        BY <1>1, <1>2, <4>2, <4>3, <4>4 DEF GptTypeOK
      <4> QED BY <1>1, <1>2, <4>5, <4>6 DEF GptTypeOK, GptEnd
    <3> QED BY <2>1, <3>1, <3>2, ReadsOn
  <2>3. CASE ~BeforeWrap
    <3>1. gptAt' = "reach" /\ UNCHANGED <<GPT_COUNT_VAL, gptElapsed, gptCount>>
      BY <1>6, <2>3 DEF WaitsForWrap
    <3>2. GptTypeOK' /\ Timeout' = Timeout /\ GptEnd' = GptEnd
      BY <1>2, <2>1, <3>1 DEF GptTypeOK, Timeout, GptEnd
    <3>3. CASE gptElapsed > 2 * CounterRange
      <4>1. CountsOn'
        BY <3>1, <3>3 DEF CountsOn
      <4> QED
        BY <1>2, <2>1, <3>1, <3>2, <4>1 DEF GptInv, EndsInTime, DelayLongEnough
    <3>4. CASE ~(gptElapsed > 2 * CounterRange)
      <4>1. /\ Timeout = IF GptEnd < CounterRange THEN GptEnd ELSE GptEnd - CounterRange
            /\ gptInitCount + gptElapsed < CounterRange => gptCount = gptInitCount + gptElapsed
        BY <2>1, <3>4, WhereItStands
      <4>2. GptEnd >= CounterRange => gptInitCount + gptElapsed >= CounterRange
        BY <1>1, <1>2, <2>1, <2>3, <4>1 DEF BeforeWrap, GptTypeOK, GptEnd
      <4>3. CountsOn'
        BY <2>1, <3>1, <3>2, <3>4, <4>2 DEF CountsOn, GptInv
      <4> QED
        BY <1>2, <2>1, <3>1, <3>2, <4>3 DEF GptInv, EndsInTime, DelayLongEnough
    <3> QED BY <3>3, <3>4
  <2> QED BY <2>2, <2>3
<1>7. CASE WaitsForTimeout
  <2>1. gptAt = "reach" /\ UNCHANGED <<gptInitCount, gptTicks, gptAsked>>
    BY <1>7 DEF WaitsForTimeout
  <2>2. CASE BeforeEnd
    <3>1. ReadsAgain /\ UNCHANGED gptAt
      BY <1>7, <2>2 DEF WaitsForTimeout
    <3>2. ASSUME Timeout + MaxGap < CounterRange
          PROVE  gptElapsed < gptTicks /\ ~(gptAt = "wrap" /\ GptEnd < CounterRange)
      <4>1. gptElapsed <= gptTicks + MaxGap
        BY <1>2, <3>2 DEF EndsInTime
      <4>2. gptElapsed < CounterRange /\ gptTicks + MaxGap < CounterRange
        BY <1>1, <1>2, <2>1, <4>1 DEF GptTypeOK
      <4>3. /\ Timeout = IF GptEnd < CounterRange THEN GptEnd ELSE GptEnd - CounterRange
            /\ gptInitCount + gptElapsed < CounterRange => gptCount = gptInitCount + gptElapsed
            /\ (gptInitCount + gptElapsed >= CounterRange
              /\ gptInitCount + gptElapsed < 2 * CounterRange)
                 => gptCount = gptInitCount + gptElapsed - CounterRange
            /\ GptEnd >= CounterRange => gptInitCount + gptElapsed >= CounterRange
        <5>1. ~(gptElapsed > 2 * CounterRange)
          BY <1>1, <1>2, <4>2 DEF GptTypeOK
        <5> QED BY <2>1, <5>1, WhereItStands
      <4>4. gptCount < Timeout
        BY <1>1, <1>2, <2>2, <4>3 DEF BeforeEnd, GptTypeOK, GptEnd
      <4>5. CASE GptEnd < CounterRange
        <5>1. gptInitCount + gptElapsed < CounterRange
          BY <1>1, <1>2, <3>2, <4>1, <4>3, <4>5 DEF GptTypeOK, GptEnd
        <5> QED BY <1>1, <1>2, <2>1, <4>3, <4>4, <4>5, <5>1 DEF GptTypeOK, GptEnd
      <4>6. CASE GptEnd >= CounterRange
        BY <1>1, <1>2, <2>1, <4>2, <4>3, <4>4, <4>6 DEF GptTypeOK, GptEnd
      <4> QED BY <1>1, <1>2, <4>5, <4>6 DEF GptTypeOK, GptEnd
    <3> QED BY <2>1, <3>1, <3>2, ReadsOn
  <2>3. CASE ~BeforeEnd
    <3>1. gptAt' = "idle" /\ UNCHANGED <<GPT_COUNT_VAL, gptElapsed, gptCount>>
      BY <1>7, <2>3 DEF WaitsForTimeout
    <3>2. GptTypeOK' /\ Timeout' = Timeout /\ GptEnd' = GptEnd
      BY <1>2, <2>1, <3>1 DEF GptTypeOK, Timeout, GptEnd
    <3>3. gptElapsed >= gptTicks
      <4>1. CASE gptElapsed > 2 * CounterRange
        BY <1>1, <1>2, <2>1, <4>1 DEF GptTypeOK
      <4>2. CASE ~(gptElapsed > 2 * CounterRange)
        <5>1. /\ Timeout = IF GptEnd < CounterRange THEN GptEnd ELSE GptEnd - CounterRange
              /\ gptInitCount + gptElapsed < CounterRange => gptCount = gptInitCount + gptElapsed
              /\ (gptInitCount + gptElapsed >= CounterRange
                /\ gptInitCount + gptElapsed < 2 * CounterRange)
                   => gptCount = gptInitCount + gptElapsed - CounterRange
              /\ GptEnd >= CounterRange => gptInitCount + gptElapsed >= CounterRange
          BY <2>1, <4>2, WhereItStands
        <5>2. ~(gptCount < Timeout)
          BY <1>1, <1>2, <2>3, <5>1 DEF BeforeEnd, GptTypeOK, GptEnd
        <5> QED BY <1>1, <1>2, <2>1, <5>1, <5>2 DEF GptTypeOK, GptEnd
      <4> QED BY <4>1, <4>2
    <3>4. gptTicks = Ticks(gptAsked)
      BY <2>1 DEF GptInv
    <3>5. DelayLongEnough'
      <4>1. gptTicks * 1000 > (gptAsked - 1) * 33
        BY <1>2, <3>4, TicksEnough DEF GptTypeOK
      <4> QED BY <1>2, <2>1, <3>1, <3>3, <4>1 DEF DelayLongEnough, GptTypeOK
    <3>6. EndsInTime'
      BY <1>2, <2>1, <3>1, <3>2 DEF EndsInTime
    <3> QED BY <3>1, <3>2, <3>5, <3>6 DEF GptInv
  <2> QED BY <2>2, <2>3
<1>8. CASE UNCHANGED gptVars
  BY <1>8 DEF GptInv, gptVars, GptTypeOK, CountsOn, EndsInTime, DelayLongEnough, Timeout, GptEnd
<1> QED BY <1>3, <1>4, <1>5, <1>6, <1>7, <1>8 DEF GptNext

\* For every range of the counter, every delay that is shorter and every gap
\* between two reads: a delay takes the time asked for, and at most a gap more
\* unless its end is a gap away from the wrap; time is counted exactly.
THEOREM DelaysAreRight == GptSpec => []DelaysRight
<1>1. GptInit => GptInv
  <2> SUFFICES ASSUME GptInit PROVE GptInv
    OBVIOUS
  <2>1. CounterRange \in Nat \ {0} /\ MaxGap \in Nat
    BY GptAssumption DEF GptAssumption
  <2>2. GptTypeOK
    BY <2>1 DEF GptInit, GptTypeOK
  <2>3. EndsInTime /\ DelayLongEnough
    BY <2>1 DEF GptInit, EndsInTime, DelayLongEnough
  <2> QED BY <2>2, <2>3 DEF GptInit, GptInv
<1>2. GptInv => DelaysRight
  <2> SUFFICES ASSUME GptInv PROVE DelaysRight
    OBVIOUS
  <2>1. DelayLongEnough /\ DelayNotMuchLonger
    BY DEF GptInv, EndsInTime, DelayNotMuchLonger
  <2>2. gptElapsed \in Nat
    BY DEF GptInv, GptTypeOK
  <2>3. TimeIsExact
    BY <2>2 DEF TimeIsExact, GetTimeInNanoSecond
  <2> QED BY <2>1, <2>3 DEF DelaysRight
<1> QED BY <1>1, <1>2, GptNextInv, PTL DEF GptSpec

-----------------------------------------------------------------------------
(* InterruptDxe and TimerDxe.                                               *)

\* The writes of TimerInitialize, one after the other.
TimerProgram ==
  <<IrqWrite("stop", 0), IrqWrite("disable", TimerSource), IrqWrite("period", 0),
    IrqWrite("handler", TimerSource), IrqWrite("enable", TimerSource),
    IrqWrite("disable", TimerSource), IrqWrite("start", PcdTimerPeriod),
    IrqWrite("enable", TimerSource), IrqWrite("period", PcdTimerPeriod),
    IrqWrite("install", 0)>>

TickMoreTypeOK ==
  /\ vic \in [en : SUBSET IrqSources, pending : SUBSET IrqSources,
              master : BOOLEAN, active : BOOLEAN]
  /\ dgt \in [on : BOOLEAN, match : {0, MatchVal(PcdTimerPeriod)}]
  /\ tickTold \in {-1, PcdTimerPeriod}

Irq == <<"irq">> \in drivers
Timer == <<"timer">> \in drivers
IrqExit == <<"irqexit">> \in drivers
TimerExit == <<"timerexit">> \in drivers

(* Which call runs, how far it is and what it has done so far.              *)

InitRuns ==
  /\ Irq /\ ~Timer /\ ~IrqExit /\ ~TimerExit
  /\ \A s \in DeviceSources : <<"device", s>> \notin drivers
  /\ \/ irqTodo = <<IrqWrite("hook", 0), IrqWrite("init", 0)>>
     \/ irqTodo = <<IrqWrite("init", 0)>> /\ irqHooked

TimerRuns(k) ==
  /\ Irq /\ ~Timer /\ ~IrqExit /\ ~TimerExit
  /\ irqTodo = SubSeq(TimerProgram, k, 10)
  /\ k > 4 => TimerSource \in gRegisteredInterruptHandlers
  /\ k > 7 => dgt.match = MatchVal(PcdTimerPeriod)
  /\ k > 9 => mTimerPeriod = PcdTimerPeriod

RegisterRuns(s) ==
  /\ Irq /\ ~IrqExit /\ ~TimerExit
  /\ <<"device", s>> \in drivers
  /\ \/ irqTodo = <<IrqWrite("handler", s), IrqWrite("enable", s)>>
     \/ irqTodo = <<IrqWrite("enable", s)>> /\ s \in gRegisteredInterruptHandlers

DisableRuns(s) ==
  /\ Irq /\ ~IrqExit /\ ~TimerExit
  /\ irqTodo = <<IrqWrite("disable", s)>>

IrqExitRuns ==
  /\ Irq /\ IrqExit
  /\ \/ irqTodo = <<IrqWrite("maskall", 0), IrqWrite("deinit", 0)>>
     \/ irqTodo = <<IrqWrite("deinit", 0)>> /\ vic.en = {}

TimerExitRuns ==
  /\ Irq /\ Timer /\ TimerExit
  /\ \/ irqTodo = <<IrqWrite("stop", 0), IrqWrite("disable", TimerSource), IrqWrite("period", 0)>>
     \/ irqTodo = <<IrqWrite("disable", TimerSource), IrqWrite("period", 0)>> /\ ~dgt.on
     \/ irqTodo = <<IrqWrite("period", 0)>> /\ ~dgt.on /\ TimerSource \notin vic.en

SomeCallRuns ==
  \/ InitRuns
  \/ \E k \in 1..10 : TimerRuns(k)
  \/ \E s \in DeviceSources \ {TimerSource} : RegisterRuns(s) \/ DisableRuns(s)
  \/ IrqExitRuns
  \/ TimerExitRuns

(* What the drivers that have started rely on.                              *)

BeforeIrq == Irq \/ (drivers = {} /\ irqTodo = <<>>)

AfterIrq ==
  Irq => \/ InitRuns
         \/ /\ irqHooked
            /\ vic.en \subseteq gRegisteredInterruptHandlers \cup BareSources
            /\ vic.master \/ (vic.en = {} /\ IrqExit)

AfterTimer ==
  Timer => /\ TimerSource \in gRegisteredInterruptHandlers
           /\ dgt.match = MatchVal(PcdTimerPeriod)
           /\ mTimerPeriod = PcdTimerPeriod \/ (TimerSource \notin vic.en /\ TimerExit)

AfterDevice ==
  \A s \in DeviceSources \ {TimerSource} : <<"device", s>> \in drivers =>
    RegisterRuns(s) \/ s \in gRegisteredInterruptHandlers

AfterExits ==
  /\ IrqExit => Timer /\ (IrqExitRuns \/ (vic.en = {} /\ ~vic.master))
  /\ TimerExit => Timer /\ (TimerExitRuns \/ (~dgt.on /\ mTimerPeriod = 0))

Core ==
  /\ mTimerNotifyFunction => Timer
  /\ tickTold # -1 => Timer

TickInv ==
  /\ TickTypeOK /\ TickMoreTypeOK /\ TicksKept
  /\ ~vic.active
  /\ irqTodo = <<>> \/ SomeCallRuns
  /\ BeforeIrq /\ AfterIrq /\ AfterTimer /\ AfterDevice /\ AfterExits /\ Core

-----------------------------------------------------------------------------
IrqWrites ==
  [op : {"stop", "disable", "period", "handler", "enable", "start", "install"},
   source : DeviceSources \cup {0, PcdTimerPeriod}]

\* The program is a sequence of ten writes.
LEMMA TimerProgramType == TimerProgram \in Seq(IrqWrites) /\ Len(TimerProgram) = 10
BY TimerAssumption DEF TimerAssumption, TimerProgram, IrqWrites, IrqWrite

\* When one sequence is another with an element after it.
LEMMA JoinedOne ==
  ASSUME NEW S, NEW s \in Seq(S), NEW h \in S, NEW u \in Seq(S),
         Len(u) = Len(s) + 1,
         \A i \in 1..Len(s) : u[i] = s[i],
         u[Len(s) + 1] = h
  PROVE  s \o <<h>> = u
<1>1. /\ Append(s, h) \in Seq(S) /\ Len(Append(s, h)) = Len(s) + 1
      /\ \A i \in 1..Len(s) : Append(s, h)[i] = s[i]
      /\ Append(s, h)[Len(s) + 1] = h
  BY AppendProperties
<1> DEFINE v == Append(s, h)
<1> HIDE DEF v
<1>2. ASSUME NEW i \in 1..Len(v) PROVE v[i] = u[i]
  <2>1. Len(s) \in Nat /\ Len(v) = Len(s) + 1
    BY <1>1, LenProperties DEF v
  <2>2. i \in 1..Len(s) \/ i = Len(s) + 1
    BY <2>1
  <2> QED BY <1>1, <2>2 DEF v
<1>3. v \in Seq(S) /\ Len(v) = Len(u)
  BY <1>1 DEF v
<1>4. v = u
  BY <1>2, <1>3, SeqEqual
<1> QED BY <1>4, AppendIsConcat DEF v

\* When one sequence is another with a third after it.
LEMMA Joined ==
  ASSUME NEW S, NEW s \in Seq(S), NEW t \in Seq(S), NEW u \in Seq(S),
         Len(u) = Len(s) + Len(t),
         \A i \in 1..Len(s) : u[i] = s[i],
         \A i \in 1..Len(t) : u[Len(s) + i] = t[i]
  PROVE  s \o t = u
<1>1. /\ s \o t \in Seq(S) /\ Len(s \o t) = Len(s) + Len(t)
      /\ \A i \in 1..Len(s) + Len(t) : (s \o t)[i] = IF i <= Len(s) THEN s[i] ELSE t[i - Len(s)]
  BY ConcatProperties
<1> DEFINE v == s \o t
<1> HIDE DEF v
<1>2. ASSUME NEW i \in 1..Len(v) PROVE v[i] = u[i]
  <2>0. Len(s) \in Nat /\ Len(t) \in Nat
    BY LenProperties
  <2>1. CASE i <= Len(s)
    BY <1>1, <2>0, <2>1 DEF v
  <2>2. CASE i > Len(s)
    <3>1. i - Len(s) \in 1..Len(t) /\ i = Len(s) + (i - Len(s))
      BY <1>1, <2>0, <2>2 DEF v
    <3>2. v[i] = t[i - Len(s)]
      BY <1>1, <2>0, <2>2 DEF v
    <3> QED BY <3>1, <3>2
  <2> QED BY <2>0, <2>1, <2>2, <1>1 DEF v
<1>3. v \in Seq(S) /\ Len(v) = Len(u)
  BY <1>1 DEF v
<1> QED BY <1>2, <1>3, SeqEqual DEF v

\* One write after the other.
LEMMA JoinedThree ==
  ASSUME NEW a, NEW b, NEW c
  PROVE  <<a>> \o <<b>> \o <<c>> = <<a, b, c>>
<1> DEFINE S == {a, b, c}
<1>1. <<a>> \o <<b>> = <<a, b>>
  <2> DEFINE s == <<a>>
             u == <<a, b>>
  <2>1. s \in Seq(S) /\ b \in S /\ u \in Seq(S)
    OBVIOUS
  <2>2. Len(s) = 1 /\ Len(u) = 2 /\ u[1] = s[1] /\ u[2] = b
    OBVIOUS
  <2> HIDE DEF S, s, u
  <2>3. Len(u) = Len(s) + 1 /\ (\A i \in 1..Len(s) : u[i] = s[i]) /\ u[Len(s) + 1] = b
    BY <2>2
  <2>4. s \o <<b>> = u
    BY <2>1, <2>3, JoinedOne
  <2> QED BY <2>4 DEF s, u
<1>2. <<a, b>> \o <<c>> = <<a, b, c>>
  <2> DEFINE s == <<a, b>>
             u == <<a, b, c>>
  <2>1. s \in Seq(S) /\ c \in S /\ u \in Seq(S)
    OBVIOUS
  <2>2. Len(s) = 2 /\ Len(u) = 3 /\ (\A i \in 1..2 : u[i] = s[i]) /\ u[3] = c
    OBVIOUS
  <2> HIDE DEF S, s, u
  <2>3. Len(u) = Len(s) + 1 /\ (\A i \in 1..Len(s) : u[i] = s[i]) /\ u[Len(s) + 1] = c
    BY <2>2
  <2>4. s \o <<c>> = u
    BY <2>1, <2>3, JoinedOne
  <2> QED BY <2>4 DEF s, u
<1> QED BY <1>1, <1>2

\* And four of them.
LEMMA JoinedFour ==
  ASSUME NEW a, NEW b, NEW c, NEW d
  PROVE  <<a>> \o <<b>> \o <<c>> \o <<d>> = <<a, b, c, d>>
<1> DEFINE S == {a, b, c, d}
<1>1. <<a>> \o <<b>> = <<a, b>>
  <2> DEFINE s == <<a>>
             u == <<a, b>>
  <2>1. s \in Seq(S) /\ b \in S /\ u \in Seq(S)
    OBVIOUS
  <2>2. Len(s) = 1 /\ Len(u) = 2 /\ u[1] = s[1] /\ u[2] = b
    OBVIOUS
  <2> HIDE DEF S, s, u
  <2>3. Len(u) = Len(s) + 1 /\ (\A i \in 1..Len(s) : u[i] = s[i]) /\ u[Len(s) + 1] = b
    BY <2>2
  <2>4. s \o <<b>> = u
    BY <2>1, <2>3, JoinedOne
  <2> QED BY <2>4 DEF s, u
<1>2. <<a, b>> \o <<c>> = <<a, b, c>>
  <2> DEFINE s == <<a, b>>
             u == <<a, b, c>>
  <2>1. s \in Seq(S) /\ c \in S /\ u \in Seq(S)
    OBVIOUS
  <2>2. Len(s) = 2 /\ Len(u) = 3 /\ (\A i \in 1..2 : u[i] = s[i]) /\ u[3] = c
    OBVIOUS
  <2> HIDE DEF S, s, u
  <2>3. Len(u) = Len(s) + 1 /\ (\A i \in 1..Len(s) : u[i] = s[i]) /\ u[Len(s) + 1] = c
    BY <2>2
  <2>4. s \o <<c>> = u
    BY <2>1, <2>3, JoinedOne
  <2> QED BY <2>4 DEF s, u
<1>3. <<a, b, c>> \o <<d>> = <<a, b, c, d>>
  <2> DEFINE s == <<a, b, c>>
             u == <<a, b, c, d>>
  <2>1. s \in Seq(S) /\ d \in S /\ u \in Seq(S)
    OBVIOUS
  <2>2. Len(s) = 3 /\ Len(u) = 4 /\ (\A i \in 1..3 : u[i] = s[i]) /\ u[4] = d
    OBVIOUS
  <2> HIDE DEF S, s, u
  <2>3. Len(u) = Len(s) + 1 /\ (\A i \in 1..Len(s) : u[i] = s[i]) /\ u[Len(s) + 1] = d
    BY <2>2
  <2>4. s \o <<d>> = u
    BY <2>1, <2>3, JoinedOne
  <2> QED BY <2>4 DEF s, u
<1> QED BY <1>1, <1>2, <1>3

\* The calls that TimerInitialize is made of.
LEMMA JoinedCalls ==
  ASSUME NEW a, NEW b, NEW c, NEW d, NEW e, NEW f, NEW g, NEW h
  PROVE  <<a, b, c>> \o <<d, e>> \o <<b, f, e, g>> \o <<h>> = <<a, b, c, d, e, b, f, e, g, h>>
<1> DEFINE S == {a, b, c, d, e, f, g, h}
<1>1. <<a, b, c>> \o <<d, e>> = <<a, b, c, d, e>>
  <2> DEFINE s == <<a, b, c>>
             t == <<d, e>>
             u == <<a, b, c, d, e>>
  <2>1. s \in Seq(S) /\ t \in Seq(S) /\ u \in Seq(S)
    OBVIOUS
  <2>2. /\ Len(s) = 3 /\ Len(t) = 2 /\ Len(u) = 5
        /\ (\A i \in 1..3 : u[i] = s[i]) /\ (\A i \in 1..2 : u[3 + i] = t[i])
    OBVIOUS
  <2> HIDE DEF S, s, t, u
  <2>3. /\ Len(u) = Len(s) + Len(t)
        /\ (\A i \in 1..Len(s) : u[i] = s[i]) /\ (\A i \in 1..Len(t) : u[Len(s) + i] = t[i])
    BY <2>2
  <2>4. s \o t = u
    BY <2>1, <2>3, Joined
  <2> QED BY <2>4 DEF s, t, u
<1>2. <<a, b, c, d, e>> \o <<b, f, e, g>> = <<a, b, c, d, e, b, f, e, g>>
  <2> DEFINE s == <<a, b, c, d, e>>
             t == <<b, f, e, g>>
             u == <<a, b, c, d, e, b, f, e, g>>
  <2>1. s \in Seq(S) /\ t \in Seq(S) /\ u \in Seq(S)
    OBVIOUS
  <2>2. /\ Len(s) = 5 /\ Len(t) = 4 /\ Len(u) = 9
        /\ (\A i \in 1..5 : u[i] = s[i]) /\ (\A i \in 1..4 : u[5 + i] = t[i])
    OBVIOUS
  <2> HIDE DEF S, s, t, u
  <2>3. /\ Len(u) = Len(s) + Len(t)
        /\ (\A i \in 1..Len(s) : u[i] = s[i]) /\ (\A i \in 1..Len(t) : u[Len(s) + i] = t[i])
    BY <2>2
  <2>4. s \o t = u
    BY <2>1, <2>3, Joined
  <2> QED BY <2>4 DEF s, t, u
<1>3. <<a, b, c, d, e, b, f, e, g>> \o <<h>> = <<a, b, c, d, e, b, f, e, g, h>>
  <2> DEFINE s == <<a, b, c, d, e, b, f, e, g>>
             u == <<a, b, c, d, e, b, f, e, g, h>>
  <2>1. s \in Seq(S) /\ h \in S /\ u \in Seq(S)
    OBVIOUS
  <2>2. Len(s) = 9 /\ Len(u) = 10 /\ (\A i \in 1..9 : u[i] = s[i]) /\ u[10] = h
    OBVIOUS
  <2> HIDE DEF S, s, u
  <2>3. Len(u) = Len(s) + 1 /\ (\A i \in 1..Len(s) : u[i] = s[i]) /\ u[Len(s) + 1] = h
    BY <2>2
  <2>4. s \o <<h>> = u
    BY <2>1, <2>3, JoinedOne
  <2> QED BY <2>4 DEF s, u
<1> QED BY <1>1, <1>2, <1>3

\* The calls of TimerInitialize write TimerProgram.
LEMMA TimerInitializeIsProgram == TimerInitialize = TimerProgram
<1>1. TimerDriverSetTimerPeriod(0) =
        <<IrqWrite("stop", 0)>> \o <<IrqWrite("disable", TimerSource)>> \o <<IrqWrite("period", 0)>>
  BY DEF TimerDriverSetTimerPeriod, DisableInterruptSource
<1>2. TimerDriverSetTimerPeriod(PcdTimerPeriod) =
        <<IrqWrite("disable", TimerSource)>> \o <<IrqWrite("start", PcdTimerPeriod)>>
          \o <<IrqWrite("enable", TimerSource)>> \o <<IrqWrite("period", PcdTimerPeriod)>>
  BY TimerAssumption DEF TimerAssumption, TimerDriverSetTimerPeriod, DisableInterruptSource,
     EnableInterruptSource
<1>3. TimerDriverSetTimerPeriod(0) =
        <<IrqWrite("stop", 0), IrqWrite("disable", TimerSource), IrqWrite("period", 0)>>
  BY <1>1, JoinedThree, Zenon
<1>4. TimerDriverSetTimerPeriod(PcdTimerPeriod) =
        <<IrqWrite("disable", TimerSource), IrqWrite("start", PcdTimerPeriod),
          IrqWrite("enable", TimerSource), IrqWrite("period", PcdTimerPeriod)>>
  BY <1>2, JoinedFour, Zenon
<1>5. TimerInitialize =
        <<IrqWrite("stop", 0), IrqWrite("disable", TimerSource), IrqWrite("period", 0)>>
          \o <<IrqWrite("handler", TimerSource), IrqWrite("enable", TimerSource)>>
          \o <<IrqWrite("disable", TimerSource), IrqWrite("start", PcdTimerPeriod),
               IrqWrite("enable", TimerSource), IrqWrite("period", PcdTimerPeriod)>>
          \o <<IrqWrite("install", 0)>>
  BY <1>3, <1>4, Zenon DEF TimerInitialize, RegisterInterruptSource
<1>6. <<IrqWrite("stop", 0), IrqWrite("disable", TimerSource), IrqWrite("period", 0)>>
          \o <<IrqWrite("handler", TimerSource), IrqWrite("enable", TimerSource)>>
          \o <<IrqWrite("disable", TimerSource), IrqWrite("start", PcdTimerPeriod),
               IrqWrite("enable", TimerSource), IrqWrite("period", PcdTimerPeriod)>>
          \o <<IrqWrite("install", 0)>> = TimerProgram
  BY JoinedCalls, SMT DEF TimerProgram
<1> QED BY <1>5, <1>6, Zenon

\* What is left of TimerInitialize after k - 1 of its writes.
LEMMA TimerProgramStep ==
  ASSUME NEW k \in 1..10
  PROVE  /\ SubSeq(TimerProgram, k, 10) # <<>>
         /\ Head(SubSeq(TimerProgram, k, 10)) = TimerProgram[k]
         /\ Tail(SubSeq(TimerProgram, k, 10)) = SubSeq(TimerProgram, k + 1, 10)
<1> DEFINE t == TimerProgram
<1>1. t \in Seq(IrqWrites) /\ Len(t) = 10
  BY TimerProgramType
<1> HIDE DEF t
<1>2. Head(SubSeq(t, k, 10)) = t[k] /\ Tail(SubSeq(t, k, 10)) = SubSeq(t, k + 1, 10)
  BY <1>1, HeadTailOfSubSeq
<1>3. Len(SubSeq(t, k, 10)) = 10 - k + 1
  BY <1>1, SubSeqProperties, ElementOfSeq
<1>4. SubSeq(t, k, 10) # <<>>
  <2>1. Len(<<>>) = 0
    OBVIOUS
  <2>2. Len(SubSeq(t, k, 10)) # 0
    BY <1>3
  <2> QED BY <2>1, <2>2
<1> QED BY <1>2, <1>4 DEF t

-----------------------------------------------------------------------------
\* Whatever the boot loader has left behind.
LEMMA TickInitInv == TickInit => TickInv
<1> SUFFICES ASSUME TickInit PROVE TickInv
  OBVIOUS
<1>1. TickTypeOK /\ TickMoreTypeOK /\ ~vic.active
  <2>1. PICK en \in {{}, DeviceSources}, pending \in {{}, IrqSources}, master \in BOOLEAN :
          vic = [en |-> en, pending |-> pending, master |-> master, active |-> FALSE]
    BY DEF TickInit, IrqInit
  <2>2. PICK on \in BOOLEAN : dgt = [on |-> on, match |-> 0]
    BY DEF TickInit
  <2>3. en \subseteq IrqSources /\ pending \subseteq IrqSources
    BY DEF IrqSources
  <2>4. TickMoreTypeOK /\ ~vic.active
    BY <2>1, <2>2, <2>3 DEF TickInit, TickMoreTypeOK
  <2> QED
    <3>1. vic.en \subseteq IrqSources /\ vic.pending \subseteq IrqSources
          /\ vic.master \in BOOLEAN /\ vic.active \in BOOLEAN
      BY <2>1, <2>3
    <3>2. dgt.on \in BOOLEAN /\ dgt.match \in {0, MatchVal(PcdTimerPeriod)}
      BY <2>2
    <3>3. /\ gRegisteredInterruptHandlers = {} /\ irqHooked = FALSE
          /\ mTimerNotifyFunction = FALSE /\ mTimerPeriod = 0 /\ tickFrames = 0
      BY DEF TickInit, IrqInit
    <3>4. tickFrames \in 0..MaxFrames /\ mTimerPeriod \in {0, PcdTimerPeriod}
      BY <3>3, TimerAssumption DEF TimerAssumption
    <3>5. TickTypeOK
      BY <3>1, <3>2, <3>3, <3>4 DEF TickTypeOK
    <3> QED BY <2>4, <3>5
<1> QED
  BY <1>1 DEF TickInit, IrqInit, TickInv, TicksKept, BeforeIrq, AfterIrq, AfterTimer,
              AfterDevice, AfterExits, Core, Irq, Timer, IrqExit, TimerExit

\* What one write does.
Does(op, s) ==
  /\ irqTodo' = Tail(irqTodo)
  /\ vic' = CASE op = "enable"  -> [vic EXCEPT !.en = @ \cup {s}]
              [] op = "disable" -> [vic EXCEPT !.en = @ \ {s}]
              [] op = "maskall" -> [vic EXCEPT !.en = {}]
              [] op = "init"    -> [en |-> BareSources, pending |-> {},
                                    master |-> TRUE, active |-> vic.active]
              [] op = "deinit"  -> [en |-> {}, pending |-> {},
                                    master |-> FALSE, active |-> vic.active]
              [] OTHER -> vic
  /\ gRegisteredInterruptHandlers' =
       gRegisteredInterruptHandlers \cup (IF op = "handler" THEN {s} ELSE {})
  /\ irqHooked' = (irqHooked \/ op = "hook")
  /\ dgt' = CASE op = "stop"  -> [dgt EXCEPT !.on = FALSE]
              [] op = "start" -> [on |-> TRUE, match |-> MatchVal(s)]
              [] OTHER -> dgt
  /\ mTimerPeriod' = IF op = "period" THEN s ELSE mTimerPeriod
  /\ drivers' = IF op = "install" THEN drivers \cup {<<"timer">>} ELSE drivers
  /\ UNCHANGED <<mTimerNotifyFunction, tickFrames, tickOwed, tickTold>>

\* The next write, by its name and argument.
LEMMA WriteDoes ==
  ASSUME DriverWrites, NEW op, NEW s, Head(irqTodo) = IrqWrite(op, s)
  PROVE  Does(op, s)
<1>1. Head(irqTodo).op = op /\ Head(irqTodo).source = s
  BY DEF IrqWrite
<1> QED BY <1>1, Zenon DEF DriverWrites, IrqExecute, VicAfter, DgtAfter, Does

\* Every write of every call keeps the invariant.
LEMMA DriverWritesInv == TickInv /\ DriverWrites => TickInv'
<1> SUFFICES ASSUME TickInv, DriverWrites PROVE TickInv'
  OBVIOUS
<1> USE TimerAssumption DEF TimerAssumption
<1>0. SomeCallRuns
  BY DEF TickInv, DriverWrites
<1>1. CASE InitRuns
  <2>1. CASE irqTodo = <<IrqWrite("hook", 0), IrqWrite("init", 0)>>
    <3>1. Head(irqTodo) = IrqWrite("hook", 0) /\ Tail(irqTodo) = <<IrqWrite("init", 0)>>
      BY <2>1
    <3>2. /\ irqTodo' = <<IrqWrite("init", 0)>> /\ irqHooked' = TRUE
          /\ UNCHANGED <<vic, gRegisteredInterruptHandlers, dgt, mTimerPeriod, drivers,
                         mTimerNotifyFunction, tickFrames, tickOwed, tickTold>>
      <4>1. Does("hook", 0)
        BY <3>1, WriteDoes
      <4> QED BY <3>1, <4>1 DEF Does
    <3>3. InitRuns'
      BY <1>1, <3>2 DEF InitRuns, Irq, Timer, IrqExit, TimerExit
    <3> QED
      BY <1>1, <3>2, <3>3 DEF TickInv, TickTypeOK, TickMoreTypeOK, TicksKept, SomeCallRuns,
         InitRuns, BeforeIrq, AfterIrq, AfterTimer, AfterDevice, AfterExits, Core,
         Irq, Timer, IrqExit, TimerExit
  <2>2. CASE irqTodo = <<IrqWrite("init", 0)>> /\ irqHooked
    <3>1. Head(irqTodo) = IrqWrite("init", 0) /\ Tail(irqTodo) = <<>>
      BY <2>2
    <3>2. /\ irqTodo' = <<>> /\ irqHooked' = TRUE
          /\ vic' = [en |-> BareSources, pending |-> {}, master |-> TRUE, active |-> vic.active]
          /\ UNCHANGED <<gRegisteredInterruptHandlers, dgt, mTimerPeriod, drivers,
                         mTimerNotifyFunction, tickFrames, tickOwed, tickTold>>
      <4>1. Does("init", 0)
        BY <3>1, WriteDoes
      <4> QED BY <2>2, <3>1, <4>1 DEF Does
    <3> QED
      BY <1>1, <3>2 DEF TickInv, TickTypeOK, TickMoreTypeOK, TicksKept, SomeCallRuns,
         InitRuns, BeforeIrq, AfterIrq, AfterTimer, AfterDevice, AfterExits, Core,
         Irq, Timer, IrqExit, TimerExit, IrqSources
  <2> QED BY <1>1, <2>1, <2>2 DEF InitRuns
<1>2. ASSUME NEW k \in 1..10, TimerRuns(k) PROVE TickInv'
  <2>1. /\ Irq /\ ~Timer /\ ~IrqExit /\ ~TimerExit /\ ~mTimerNotifyFunction /\ tickTold = -1
        /\ irqTodo = SubSeq(TimerProgram, k, 10)
    BY <1>2 DEF TimerRuns, TickInv, Core
  <2>2. /\ irqTodo # <<>> /\ Head(irqTodo) = TimerProgram[k]
        /\ Tail(irqTodo) = SubSeq(TimerProgram, k + 1, 10)
    BY <2>1, TimerProgramStep
  <2>3. /\ TimerProgram[k].op \notin {"hook", "init"}
        /\ TimerProgram[k].op \in {"handler", "enable"} => TimerProgram[k].source = TimerSource
    BY DEF TimerProgram, IrqWrite
  <2>4. ~InitRuns /\ \A s \in DeviceSources \ {TimerSource} : ~RegisterRuns(s)
    <3>1. ~InitRuns
      BY <2>2, <2>3 DEF InitRuns, IrqWrite
    <3>2. ASSUME NEW s \in DeviceSources \ {TimerSource}, RegisterRuns(s) PROVE FALSE
      <4>1. Head(irqTodo).op \in {"handler", "enable"} /\ Head(irqTodo).source = s
        BY <3>2 DEF RegisterRuns, IrqWrite
      <4> QED BY <2>2, <2>3, <4>1
    <3> QED BY <3>1, <3>2
  <2>5. /\ irqHooked /\ vic.master
        /\ vic.en \subseteq gRegisteredInterruptHandlers \cup BareSources
        /\ \A s \in DeviceSources \ {TimerSource} :
             <<"device", s>> \in drivers => s \in gRegisteredInterruptHandlers
    BY <2>1, <2>4 DEF TickInv, AfterIrq, AfterDevice
  <2>6. TickTypeOK /\ TickMoreTypeOK /\ ~vic.active
    BY DEF TickInv
  <2>7. TimerSource \in IrqSources /\ PcdTimerPeriod # 0
    BY DEF IrqSources
  \* A write that leaves all of this as it is.
  <2>8. ASSUME NEW j \in 2..10, TimerRuns(j)', TickTypeOK', TickMoreTypeOK', ~vic'.active,
               irqHooked', vic'.master,
               vic'.en \subseteq gRegisteredInterruptHandlers' \cup BareSources,
               gRegisteredInterruptHandlers \subseteq gRegisteredInterruptHandlers',
               UNCHANGED <<drivers, mTimerNotifyFunction, tickTold>>
        PROVE  TickInv'
    <3>1. SomeCallRuns'
      BY <2>8 DEF SomeCallRuns
    <3>2. AfterIrq'
      BY <2>8 DEF AfterIrq
    <3>3. AfterDevice'
      BY <2>5, <2>8 DEF AfterDevice
    <3>4. ~Timer' /\ ~IrqExit' /\ ~TimerExit' /\ Irq' /\ ~mTimerNotifyFunction' /\ tickTold' = -1
      BY <2>1, <2>8 DEF Irq, Timer, IrqExit, TimerExit
    <3>5. BeforeIrq' /\ AfterTimer' /\ AfterExits' /\ Core' /\ TicksKept'
      BY <3>4 DEF BeforeIrq, AfterTimer, AfterExits, Core, TicksKept
    <3> QED BY <2>8, <3>1, <3>2, <3>3, <3>5 DEF TickInv
  <2>9. CASE k = 1
    <3>1. Does("stop", 0)
      BY <2>2, <2>9, WriteDoes DEF TimerProgram
    <3>2. irqTodo' = SubSeq(TimerProgram, 2, 10)
      <4>1. k + 1 = 2
        BY <2>9
      <4>2. irqTodo' = Tail(irqTodo)
        BY <3>1 DEF Does
      <4> QED BY <2>2, <4>1, <4>2
    <3>3. TimerRuns(2)'
      <4>1. drivers' = drivers
        BY <3>1 DEF Does
      <4> QED BY <2>1, <3>2, <4>1 DEF TimerRuns, Irq, Timer, IrqExit, TimerExit
    <3>4. TickTypeOK' /\ TickMoreTypeOK' /\ ~vic'.active /\ vic'.master /\ irqHooked'
      BY <2>5, <2>6, <2>7, <3>1 DEF Does, TickTypeOK, TickMoreTypeOK
    <3>5. /\ vic'.en \subseteq gRegisteredInterruptHandlers' \cup BareSources
          /\ gRegisteredInterruptHandlers \subseteq gRegisteredInterruptHandlers'
          /\ UNCHANGED <<drivers, mTimerNotifyFunction, tickTold>>
      BY <1>2, <2>5, <2>6, <2>9, <3>1 DEF Does, TickMoreTypeOK, TimerRuns
    <3> QED BY <2>8, <3>3, <3>4, <3>5
  <2>10. CASE k = 2
    <3>1. Does("disable", TimerSource)
      BY <2>2, <2>10, WriteDoes DEF TimerProgram
    <3>2. irqTodo' = SubSeq(TimerProgram, 3, 10)
      <4>1. k + 1 = 3
        BY <2>10
      <4>2. irqTodo' = Tail(irqTodo)
        BY <3>1 DEF Does
      <4> QED BY <2>2, <4>1, <4>2
    <3>3. TimerRuns(3)'
      BY SMTT(30), <1>2, <2>1, <2>6, <2>10, <3>1, <3>2 DEF TimerRuns, Does, Irq, Timer, IrqExit,
         TimerExit, TickMoreTypeOK
    <3>4. TickTypeOK' /\ TickMoreTypeOK' /\ ~vic'.active /\ vic'.master /\ irqHooked'
      BY <2>5, <2>6, <2>7, <3>1 DEF Does, TickTypeOK, TickMoreTypeOK
    <3>5. /\ vic'.en \subseteq gRegisteredInterruptHandlers' \cup BareSources
          /\ gRegisteredInterruptHandlers \subseteq gRegisteredInterruptHandlers'
          /\ UNCHANGED <<drivers, mTimerNotifyFunction, tickTold>>
      BY <1>2, <2>5, <2>6, <2>10, <3>1 DEF Does, TickMoreTypeOK, TimerRuns
    <3> QED BY <2>8, <3>3, <3>4, <3>5
  <2>11. CASE k = 3
    <3>1. Does("period", 0)
      BY <2>2, <2>11, WriteDoes DEF TimerProgram
    <3>2. irqTodo' = SubSeq(TimerProgram, 4, 10)
      <4>1. k + 1 = 4
        BY <2>11
      <4>2. irqTodo' = Tail(irqTodo)
        BY <3>1 DEF Does
      <4> QED BY <2>2, <4>1, <4>2
    <3>3. TimerRuns(4)'
      BY SMTT(30), <1>2, <2>1, <2>6, <2>11, <3>1, <3>2 DEF TimerRuns, Does, Irq, Timer, IrqExit,
         TimerExit, TickMoreTypeOK
    <3>4. TickTypeOK' /\ TickMoreTypeOK' /\ ~vic'.active /\ vic'.master /\ irqHooked'
      BY <2>5, <2>6, <2>7, <3>1 DEF Does, TickTypeOK, TickMoreTypeOK
    <3>5. /\ vic'.en \subseteq gRegisteredInterruptHandlers' \cup BareSources
          /\ gRegisteredInterruptHandlers \subseteq gRegisteredInterruptHandlers'
          /\ UNCHANGED <<drivers, mTimerNotifyFunction, tickTold>>
      BY <1>2, <2>5, <2>6, <2>11, <3>1 DEF Does, TickMoreTypeOK, TimerRuns
    <3> QED BY <2>8, <3>3, <3>4, <3>5
  <2>12. CASE k = 4
    <3>1. Does("handler", TimerSource)
      BY <2>2, <2>12, WriteDoes DEF TimerProgram
    <3>2. irqTodo' = SubSeq(TimerProgram, 5, 10)
      <4>1. k + 1 = 5
        BY <2>12
      <4>2. irqTodo' = Tail(irqTodo)
        BY <3>1 DEF Does
      <4> QED BY <2>2, <4>1, <4>2
    <3>3. TimerRuns(5)'
      BY SMTT(30), <1>2, <2>1, <2>6, <2>12, <3>1, <3>2 DEF TimerRuns, Does, Irq, Timer, IrqExit,
         TimerExit, TickMoreTypeOK
    <3>4. TickTypeOK' /\ TickMoreTypeOK' /\ ~vic'.active /\ vic'.master /\ irqHooked'
      BY <2>5, <2>6, <2>7, <3>1 DEF Does, TickTypeOK, TickMoreTypeOK
    <3>5. /\ vic'.en \subseteq gRegisteredInterruptHandlers' \cup BareSources
          /\ gRegisteredInterruptHandlers \subseteq gRegisteredInterruptHandlers'
          /\ UNCHANGED <<drivers, mTimerNotifyFunction, tickTold>>
      BY <1>2, <2>5, <2>6, <2>12, <3>1 DEF Does, TickMoreTypeOK, TimerRuns
    <3> QED BY <2>8, <3>3, <3>4, <3>5
  <2>13. CASE k = 5
    <3>1. Does("enable", TimerSource)
      BY <2>2, <2>13, WriteDoes DEF TimerProgram
    <3>2. irqTodo' = SubSeq(TimerProgram, 6, 10)
      <4>1. k + 1 = 6
        BY <2>13
      <4>2. irqTodo' = Tail(irqTodo)
        BY <3>1 DEF Does
      <4> QED BY <2>2, <4>1, <4>2
    <3>3. TimerRuns(6)'
      BY SMTT(30), <1>2, <2>1, <2>6, <2>13, <3>1, <3>2 DEF TimerRuns, Does, Irq, Timer, IrqExit,
         TimerExit, TickMoreTypeOK
    <3>4. TickTypeOK' /\ TickMoreTypeOK' /\ ~vic'.active /\ vic'.master /\ irqHooked'
      BY <2>5, <2>6, <2>7, <3>1 DEF Does, TickTypeOK, TickMoreTypeOK
    <3>5. /\ vic'.en \subseteq gRegisteredInterruptHandlers' \cup BareSources
          /\ gRegisteredInterruptHandlers \subseteq gRegisteredInterruptHandlers'
          /\ UNCHANGED <<drivers, mTimerNotifyFunction, tickTold>>
      BY <1>2, <2>5, <2>6, <2>13, <3>1 DEF Does, TickMoreTypeOK, TimerRuns
    <3> QED BY <2>8, <3>3, <3>4, <3>5
  <2>14. CASE k = 6
    <3>1. Does("disable", TimerSource)
      BY <2>2, <2>14, WriteDoes DEF TimerProgram
    <3>2. irqTodo' = SubSeq(TimerProgram, 7, 10)
      <4>1. k + 1 = 7
        BY <2>14
      <4>2. irqTodo' = Tail(irqTodo)
        BY <3>1 DEF Does
      <4> QED BY <2>2, <4>1, <4>2
    <3>3. TimerRuns(7)'
      BY SMTT(30), <1>2, <2>1, <2>6, <2>14, <3>1, <3>2 DEF TimerRuns, Does, Irq, Timer, IrqExit,
         TimerExit, TickMoreTypeOK
    <3>4. TickTypeOK' /\ TickMoreTypeOK' /\ ~vic'.active /\ vic'.master /\ irqHooked'
      BY <2>5, <2>6, <2>7, <3>1 DEF Does, TickTypeOK, TickMoreTypeOK
    <3>5. /\ vic'.en \subseteq gRegisteredInterruptHandlers' \cup BareSources
          /\ gRegisteredInterruptHandlers \subseteq gRegisteredInterruptHandlers'
          /\ UNCHANGED <<drivers, mTimerNotifyFunction, tickTold>>
      BY <1>2, <2>5, <2>6, <2>14, <3>1 DEF Does, TickMoreTypeOK, TimerRuns
    <3> QED BY <2>8, <3>3, <3>4, <3>5
  <2>15. CASE k = 7
    <3>1. Does("start", PcdTimerPeriod)
      BY <2>2, <2>15, WriteDoes DEF TimerProgram
    <3>2. irqTodo' = SubSeq(TimerProgram, 8, 10)
      <4>1. k + 1 = 8
        BY <2>15
      <4>2. irqTodo' = Tail(irqTodo)
        BY <3>1 DEF Does
      <4> QED BY <2>2, <4>1, <4>2
    <3>3. TimerRuns(8)'
      BY <1>2, <2>1, <2>6, <2>15, <3>1, <3>2 DEF TimerRuns, Does, Irq, Timer, IrqExit,
         TimerExit, TickMoreTypeOK
    <3>4. TickTypeOK' /\ TickMoreTypeOK' /\ ~vic'.active /\ vic'.master /\ irqHooked'
      BY <2>5, <2>6, <2>7, <3>1 DEF Does, TickTypeOK, TickMoreTypeOK
    <3>5. /\ vic'.en \subseteq gRegisteredInterruptHandlers' \cup BareSources
          /\ gRegisteredInterruptHandlers \subseteq gRegisteredInterruptHandlers'
          /\ UNCHANGED <<drivers, mTimerNotifyFunction, tickTold>>
      BY <1>2, <2>5, <2>6, <2>15, <3>1 DEF Does, TickMoreTypeOK, TimerRuns
    <3> QED BY <2>8, <3>3, <3>4, <3>5
  <2>16. CASE k = 8
    <3>1. Does("enable", TimerSource)
      BY <2>2, <2>16, WriteDoes DEF TimerProgram
    <3>2. irqTodo' = SubSeq(TimerProgram, 9, 10)
      <4>1. k + 1 = 9
        BY <2>16
      <4>2. irqTodo' = Tail(irqTodo)
        BY <3>1 DEF Does
      <4> QED BY <2>2, <4>1, <4>2
    <3>3. TimerRuns(9)'
      BY <1>2, <2>1, <2>6, <2>16, <3>1, <3>2 DEF TimerRuns, Does, Irq, Timer, IrqExit,
         TimerExit, TickMoreTypeOK
    <3>4. TickTypeOK' /\ TickMoreTypeOK' /\ ~vic'.active /\ vic'.master /\ irqHooked'
      BY <2>5, <2>6, <2>7, <3>1 DEF Does, TickTypeOK, TickMoreTypeOK
    <3>5. /\ vic'.en \subseteq gRegisteredInterruptHandlers' \cup BareSources
          /\ gRegisteredInterruptHandlers \subseteq gRegisteredInterruptHandlers'
          /\ UNCHANGED <<drivers, mTimerNotifyFunction, tickTold>>
      BY <1>2, <2>5, <2>6, <2>16, <3>1 DEF Does, TickMoreTypeOK, TimerRuns
    <3> QED BY <2>8, <3>3, <3>4, <3>5
  <2>17. CASE k = 9
    <3>1. Does("period", PcdTimerPeriod)
      BY <2>2, <2>17, WriteDoes DEF TimerProgram
    <3>2. irqTodo' = SubSeq(TimerProgram, 10, 10)
      <4>1. k + 1 = 10
        BY <2>17
      <4>2. irqTodo' = Tail(irqTodo)
        BY <3>1 DEF Does
      <4> QED BY <2>2, <4>1, <4>2
    <3>3. TimerRuns(10)'
      BY <1>2, <2>1, <2>6, <2>17, <3>1, <3>2 DEF TimerRuns, Does, Irq, Timer, IrqExit,
         TimerExit, TickMoreTypeOK
    <3>4. TickTypeOK' /\ TickMoreTypeOK' /\ ~vic'.active /\ vic'.master /\ irqHooked'
      BY <2>5, <2>6, <2>7, <3>1 DEF Does, TickTypeOK, TickMoreTypeOK
    <3>5. /\ vic'.en \subseteq gRegisteredInterruptHandlers' \cup BareSources
          /\ gRegisteredInterruptHandlers \subseteq gRegisteredInterruptHandlers'
          /\ UNCHANGED <<drivers, mTimerNotifyFunction, tickTold>>
      BY <1>2, <2>5, <2>6, <2>17, <3>1 DEF Does, TickMoreTypeOK, TimerRuns
    <3> QED BY <2>8, <3>3, <3>4, <3>5
  <2>18. CASE k = 10
    <3>1. Does("install", 0)
      BY <2>2, <2>18, WriteDoes DEF TimerProgram
    <3>2. /\ irqTodo' = <<>> /\ drivers' = drivers \cup {<<"timer">>}
          /\ UNCHANGED <<vic, gRegisteredInterruptHandlers, irqHooked, dgt, mTimerPeriod,
                         mTimerNotifyFunction, tickFrames, tickOwed, tickTold>>
      <4>1. SubSeq(TimerProgram, 11, 10) = <<>>
        BY SubSeqEmpty
      <4>2. k + 1 = 11
        BY <2>18
      <4>3. irqTodo' = Tail(irqTodo)
        BY <3>1 DEF Does
      <4>4. irqTodo' = <<>>
        BY <2>2, <4>1, <4>2, <4>3
      <4> QED BY <2>5, <3>1, <4>4 DEF Does
    <3>3. /\ TimerSource \in gRegisteredInterruptHandlers
          /\ dgt.match = MatchVal(PcdTimerPeriod) /\ mTimerPeriod = PcdTimerPeriod
      BY <1>2, <2>18 DEF TimerRuns
    <3>4. Irq' /\ ~IrqExit' /\ ~TimerExit' /\ \A s \in DeviceSources :
            <<"device", s>> \in drivers' => <<"device", s>> \in drivers
      BY <2>1, <3>2 DEF Irq, IrqExit, TimerExit
    <3>5. TickTypeOK' /\ TickMoreTypeOK' /\ ~vic'.active
      BY <2>6, <3>2 DEF TickTypeOK, TickMoreTypeOK
    <3>6. BeforeIrq' /\ AfterIrq' /\ AfterTimer' /\ AfterDevice' /\ AfterExits' /\ Core'
          /\ TicksKept'
      BY <2>1, <2>5, <3>2, <3>3, <3>4 DEF BeforeIrq, AfterIrq, AfterTimer, AfterDevice,
         AfterExits, Core, TicksKept
    <3> QED BY <3>2, <3>5, <3>6 DEF TickInv
  <2> QED BY <2>9, <2>10, <2>11, <2>12, <2>13, <2>14, <2>15, <2>16, <2>17, <2>18
<1>3. TickTypeOK /\ TickMoreTypeOK /\ ~vic.active
  BY DEF TickInv
<1>4. \A s \in DeviceSources : s \in IrqSources
  BY DEF IrqSources
<1>5. ASSUME NEW s \in DeviceSources \ {TimerSource}, RegisterRuns(s) PROVE TickInv'
  <2>1. ~InitRuns /\ Head(irqTodo).source = s
    BY <1>5 DEF RegisterRuns, InitRuns, IrqWrite
  <2>2. \A t \in DeviceSources \ {TimerSource} : RegisterRuns(t) => t = s
    BY <2>1 DEF RegisterRuns, IrqWrite
  <2>3. /\ Irq /\ ~IrqExit /\ ~TimerExit /\ <<"device", s>> \in drivers
        /\ irqHooked /\ vic.master
        /\ vic.en \subseteq gRegisteredInterruptHandlers \cup BareSources
        /\ \A t \in DeviceSources \ {TimerSource} :
             <<"device", t>> \in drivers => t = s \/ t \in gRegisteredInterruptHandlers
    BY <1>5, <2>1, <2>2 DEF TickInv, AfterIrq, AfterDevice, RegisterRuns
  <2>4. CASE irqTodo = <<IrqWrite("handler", s), IrqWrite("enable", s)>>
    <3>1. Head(irqTodo) = IrqWrite("handler", s) /\ Tail(irqTodo) = <<IrqWrite("enable", s)>>
      BY <2>4
    <3>2. Does("handler", s)
      BY <3>1, WriteDoes
    <3>3. /\ irqTodo' = <<IrqWrite("enable", s)>>
          /\ gRegisteredInterruptHandlers' = gRegisteredInterruptHandlers \cup {s}
          /\ UNCHANGED <<vic, irqHooked, dgt, mTimerPeriod, drivers,
                         mTimerNotifyFunction, tickFrames, tickOwed, tickTold>>
      BY <2>3, <3>1, <3>2 DEF Does
    <3>4. RegisterRuns(s)'
      BY <2>3, <3>3 DEF RegisterRuns, Irq, IrqExit, TimerExit
    <3>5. TickTypeOK' /\ TickMoreTypeOK' /\ ~vic'.active
      BY <1>3, <3>3 DEF TickTypeOK, TickMoreTypeOK
    <3>6. SomeCallRuns'
      BY <3>4 DEF SomeCallRuns
    <3>7. AfterIrq' /\ AfterDevice'
      BY <2>3, <3>3 DEF AfterIrq, AfterDevice
    <3>8. BeforeIrq' /\ AfterTimer' /\ AfterExits' /\ Core' /\ TicksKept'
      BY <2>3, <3>3 DEF TickInv, BeforeIrq, AfterTimer, AfterExits, Core, TicksKept,
         Irq, Timer, IrqExit, TimerExit
    <3> QED BY <3>5, <3>6, <3>7, <3>8 DEF TickInv
  <2>5. CASE irqTodo = <<IrqWrite("enable", s)>> /\ s \in gRegisteredInterruptHandlers
    <3>1. Head(irqTodo) = IrqWrite("enable", s) /\ Tail(irqTodo) = <<>>
      BY <2>5
    <3>2. Does("enable", s)
      BY <3>1, WriteDoes
    <3>3. /\ irqTodo' = <<>>
          /\ vic' = [vic EXCEPT !.en = @ \cup {s}]
          /\ UNCHANGED <<gRegisteredInterruptHandlers, irqHooked, dgt, mTimerPeriod, drivers,
                         mTimerNotifyFunction, tickFrames, tickOwed, tickTold>>
      BY <2>3, <3>1, <3>2 DEF Does
    <3>4. /\ vic'.en = vic.en \cup {s} /\ vic'.master = vic.master
          /\ vic'.pending = vic.pending /\ vic'.active = vic.active
          /\ vic' \in [en : SUBSET IrqSources, pending : SUBSET IrqSources,
                       master : BOOLEAN, active : BOOLEAN]
      BY <1>3, <1>4, <3>3 DEF TickMoreTypeOK
    <3>5. TickTypeOK' /\ TickMoreTypeOK' /\ ~vic'.active
      BY <1>3, <3>3, <3>4 DEF TickTypeOK, TickMoreTypeOK
    <3>6. AfterIrq' /\ AfterDevice'
      BY <2>3, <2>5, <3>3, <3>4 DEF AfterIrq, AfterDevice
    <3>7. BeforeIrq' /\ AfterTimer' /\ AfterExits' /\ Core' /\ TicksKept'
      BY <2>3, <3>3, <3>4 DEF TickInv, BeforeIrq, AfterTimer, AfterExits, Core, TicksKept,
         Irq, Timer, IrqExit, TimerExit
    <3> QED BY <3>3, <3>5, <3>6, <3>7 DEF TickInv
  <2> QED BY <1>5, <2>4, <2>5 DEF RegisterRuns
<1>6. ASSUME NEW s \in DeviceSources \ {TimerSource}, DisableRuns(s) PROVE TickInv'
  <2>1. Head(irqTodo) = IrqWrite("disable", s) /\ Tail(irqTodo) = <<>>
    BY <1>6 DEF DisableRuns
  <2>2. ~InitRuns /\ \A t \in DeviceSources \ {TimerSource} : ~RegisterRuns(t)
    BY <2>1 DEF RegisterRuns, InitRuns, IrqWrite
  <2>3. /\ Irq /\ ~IrqExit /\ ~TimerExit /\ irqHooked /\ vic.master
        /\ vic.en \subseteq gRegisteredInterruptHandlers \cup BareSources
    BY <1>6, <2>2 DEF TickInv, AfterIrq, DisableRuns
  <2>4. Does("disable", s)
    BY <2>1, WriteDoes
  <2>5. /\ irqTodo' = <<>>
        /\ vic' = [vic EXCEPT !.en = @ \ {s}]
        /\ UNCHANGED <<gRegisteredInterruptHandlers, irqHooked, dgt, mTimerPeriod, drivers,
                       mTimerNotifyFunction, tickFrames, tickOwed, tickTold>>
    BY <2>1, <2>3, <2>4 DEF Does
  <2>6. /\ vic'.en = vic.en \ {s} /\ vic'.master = vic.master
        /\ vic'.pending = vic.pending /\ vic'.active = vic.active
        /\ vic' \in [en : SUBSET IrqSources, pending : SUBSET IrqSources,
                     master : BOOLEAN, active : BOOLEAN]
    BY <1>3, <2>5 DEF TickMoreTypeOK
  <2>7. TickTypeOK' /\ TickMoreTypeOK' /\ ~vic'.active
    BY <1>3, <2>5, <2>6 DEF TickTypeOK, TickMoreTypeOK
  <2>8. AfterIrq' /\ AfterDevice'
    BY <2>2, <2>3, <2>5, <2>6 DEF TickInv, AfterIrq, AfterDevice
  <2>9. BeforeIrq' /\ AfterTimer' /\ AfterExits' /\ Core' /\ TicksKept'
    BY <2>3, <2>5, <2>6 DEF TickInv, BeforeIrq, AfterTimer, AfterExits, Core, TicksKept,
       Irq, Timer, IrqExit, TimerExit
  <2> QED BY <2>5, <2>7, <2>8, <2>9 DEF TickInv
<1>7. CASE IrqExitRuns
  <2>1. /\ Irq /\ IrqExit /\ Timer
        /\ ~InitRuns /\ ~TimerExitRuns /\ \A t \in DeviceSources \ {TimerSource} : ~RegisterRuns(t)
    BY <1>7 DEF IrqExitRuns, TickInv, AfterExits, InitRuns, RegisterRuns, TimerExitRuns, IrqWrite
  <2>2. CASE irqTodo = <<IrqWrite("maskall", 0), IrqWrite("deinit", 0)>>
    <3>1. Head(irqTodo) = IrqWrite("maskall", 0) /\ Tail(irqTodo) = <<IrqWrite("deinit", 0)>>
      BY <2>2
    <3>2. Does("maskall", 0)
      BY <3>1, WriteDoes
    <3>3. /\ irqTodo' = <<IrqWrite("deinit", 0)>>
          /\ vic' = [vic EXCEPT !.en = {}]
          /\ UNCHANGED <<gRegisteredInterruptHandlers, irqHooked, dgt, mTimerPeriod, drivers,
                         mTimerNotifyFunction, tickFrames, tickOwed, tickTold>>
      BY <1>3, <3>1, <3>2 DEF Does, TickTypeOK
    <3>4. /\ vic'.en = {} /\ vic'.master = vic.master
          /\ vic'.pending = vic.pending /\ vic'.active = vic.active
          /\ vic' \in [en : SUBSET IrqSources, pending : SUBSET IrqSources,
                       master : BOOLEAN, active : BOOLEAN]
      BY <1>3, <3>3 DEF TickMoreTypeOK
    <3>5. TickTypeOK' /\ TickMoreTypeOK' /\ ~vic'.active
      BY <1>3, <3>3, <3>4 DEF TickTypeOK, TickMoreTypeOK
    <3>6. IrqExitRuns' /\ Irq' /\ IrqExit' /\ Timer' /\ SomeCallRuns'
      BY <2>1, <3>3, <3>4 DEF IrqExitRuns, Irq, IrqExit, Timer, SomeCallRuns
    <3>7. TimerExit' => ~dgt'.on /\ mTimerPeriod' = 0
      BY <2>1, <3>3 DEF TickInv, AfterExits, TimerExit
    <3>8. AfterIrq' /\ AfterDevice'
      BY <2>1, <3>3, <3>4, <3>6 DEF TickInv, AfterIrq, AfterDevice
    <3>9. BeforeIrq' /\ AfterTimer' /\ AfterExits' /\ Core' /\ TicksKept'
      BY <2>1, <3>3, <3>4, <3>6, <3>7 DEF TickInv, BeforeIrq, AfterTimer, AfterExits, Core,
         TicksKept, Irq, Timer, IrqExit, TimerExit
    <3> QED BY <3>5, <3>6, <3>8, <3>9 DEF TickInv
  <2>3. CASE irqTodo = <<IrqWrite("deinit", 0)>> /\ vic.en = {}
    <3>1. Head(irqTodo) = IrqWrite("deinit", 0) /\ Tail(irqTodo) = <<>>
      BY <2>3
    <3>2. Does("deinit", 0)
      BY <3>1, WriteDoes
    <3>3. /\ irqTodo' = <<>>
          /\ vic' = [en |-> {}, pending |-> {}, master |-> FALSE, active |-> vic.active]
          /\ UNCHANGED <<gRegisteredInterruptHandlers, irqHooked, dgt, mTimerPeriod, drivers,
                         mTimerNotifyFunction, tickFrames, tickOwed, tickTold>>
      BY <1>3, <3>1, <3>2 DEF Does, TickTypeOK
    <3>5. TickTypeOK' /\ TickMoreTypeOK' /\ ~vic'.active
      BY <1>3, <3>3 DEF TickTypeOK, TickMoreTypeOK
    <3>6. Irq' /\ IrqExit' /\ Timer'
      BY <2>1, <3>3 DEF Irq, IrqExit, Timer
    <3>7. TimerExit' => ~dgt'.on /\ mTimerPeriod' = 0
      BY <2>1, <3>3 DEF TickInv, AfterExits, TimerExit
    <3>8. AfterIrq' /\ AfterDevice'
      BY <2>1, <3>3, <3>6 DEF TickInv, AfterIrq, AfterDevice
    <3>9. BeforeIrq' /\ AfterTimer' /\ AfterExits' /\ Core' /\ TicksKept'
      BY <2>1, <3>3, <3>6, <3>7 DEF TickInv, BeforeIrq, AfterTimer, AfterExits, Core,
         TicksKept, Irq, Timer, IrqExit, TimerExit
    <3> QED BY <3>3, <3>5, <3>8, <3>9 DEF TickInv
  <2> QED BY <1>7, <2>2, <2>3 DEF IrqExitRuns
<1>8. CASE TimerExitRuns
  <2>1. /\ Irq /\ Timer /\ TimerExit
        /\ ~InitRuns /\ ~IrqExitRuns /\ \A t \in DeviceSources \ {TimerSource} : ~RegisterRuns(t)
    BY <1>8 DEF TimerExitRuns, InitRuns, RegisterRuns, IrqExitRuns, IrqWrite
  <2>2. /\ irqHooked /\ vic.en \subseteq gRegisteredInterruptHandlers \cup BareSources
        /\ vic.master \/ (vic.en = {} /\ IrqExit)
        /\ IrqExit => vic.en = {} /\ ~vic.master
        /\ TimerSource \in gRegisteredInterruptHandlers
        /\ dgt.match = MatchVal(PcdTimerPeriod)
    BY <2>1 DEF TickInv, AfterIrq, AfterTimer, AfterExits
  <2>3. CASE irqTodo = <<IrqWrite("stop", 0), IrqWrite("disable", TimerSource),
        IrqWrite("period", 0)>>
    <3>1. /\ Head(irqTodo) = IrqWrite("stop", 0)
          /\ Tail(irqTodo) = <<IrqWrite("disable", TimerSource), IrqWrite("period", 0)>>
      BY <2>3
    <3>2. Does("stop", 0)
      BY <3>1, WriteDoes
    <3>3. /\ irqTodo' = <<IrqWrite("disable", TimerSource), IrqWrite("period", 0)>>
          /\ dgt' = [dgt EXCEPT !.on = FALSE]
          /\ UNCHANGED <<vic, gRegisteredInterruptHandlers, irqHooked, mTimerPeriod, drivers,
                         mTimerNotifyFunction, tickFrames, tickOwed, tickTold>>
      BY <2>2, <3>1, <3>2 DEF Does
    <3>4. /\ dgt' \in [on : BOOLEAN, match : {0, MatchVal(PcdTimerPeriod)}]
          /\ ~dgt'.on /\ dgt'.match = dgt.match
      BY <1>3, <3>3 DEF TickMoreTypeOK
    <3>5. TickTypeOK' /\ TickMoreTypeOK' /\ ~vic'.active
      BY <1>3, <3>3, <3>4 DEF TickTypeOK, TickMoreTypeOK
    <3>6. TimerExitRuns' /\ SomeCallRuns'
      BY <2>1, <3>3, <3>4 DEF TimerExitRuns, Irq, TimerExit, Timer, SomeCallRuns
    <3>7. AfterIrq' /\ AfterDevice' /\ AfterTimer' /\ AfterExits'
      BY <2>1, <2>2, <3>3, <3>4, <3>6 DEF TickInv, AfterIrq, AfterDevice, AfterTimer, AfterExits,
         Irq, Timer, IrqExit, TimerExit
    <3>8. BeforeIrq' /\ Core' /\ TicksKept'
      BY <2>1, <3>3 DEF TickInv, BeforeIrq, Core, TicksKept, Irq, Timer
    <3> QED BY <3>5, <3>6, <3>7, <3>8 DEF TickInv
  <2>4. CASE irqTodo = <<IrqWrite("disable", TimerSource), IrqWrite("period", 0)>> /\ ~dgt.on
    <3>1. /\ Head(irqTodo) = IrqWrite("disable", TimerSource)
          /\ Tail(irqTodo) = <<IrqWrite("period", 0)>>
      BY <2>4
    <3>2. Does("disable", TimerSource)
      BY <3>1, WriteDoes
    <3>3. /\ irqTodo' = <<IrqWrite("period", 0)>>
          /\ vic' = [vic EXCEPT !.en = @ \ {TimerSource}]
          /\ UNCHANGED <<dgt, gRegisteredInterruptHandlers, irqHooked, mTimerPeriod, drivers,
                         mTimerNotifyFunction, tickFrames, tickOwed, tickTold>>
      BY <2>2, <3>1, <3>2 DEF Does
    <3>4. /\ vic'.en = vic.en \ {TimerSource} /\ vic'.master = vic.master
          /\ vic'.pending = vic.pending /\ vic'.active = vic.active
          /\ vic' \in [en : SUBSET IrqSources, pending : SUBSET IrqSources,
                       master : BOOLEAN, active : BOOLEAN]
      BY <1>3, <3>3 DEF TickMoreTypeOK
    <3>5. TickTypeOK' /\ TickMoreTypeOK' /\ ~vic'.active
      BY <1>3, <3>3, <3>4 DEF TickTypeOK, TickMoreTypeOK
    <3>6. TimerExitRuns' /\ SomeCallRuns'
      BY <2>1, <2>4, <3>3, <3>4 DEF TimerExitRuns, Irq, TimerExit, Timer, SomeCallRuns
    <3>7. AfterIrq' /\ AfterDevice' /\ AfterTimer' /\ AfterExits'
      BY <2>1, <2>2, <3>3, <3>4, <3>6 DEF TickInv, AfterIrq, AfterDevice, AfterTimer, AfterExits,
         Irq, Timer, IrqExit, TimerExit
    <3>8. BeforeIrq' /\ Core' /\ TicksKept'
      BY <2>1, <3>3, <3>4 DEF TickInv, BeforeIrq, Core, TicksKept, Irq, Timer
    <3> QED BY <3>5, <3>6, <3>7, <3>8 DEF TickInv
  <2>5. CASE irqTodo = <<IrqWrite("period", 0)>> /\ ~dgt.on /\ TimerSource \notin vic.en
    <3>1. Head(irqTodo) = IrqWrite("period", 0) /\ Tail(irqTodo) = <<>>
      BY <2>5
    <3>2. Does("period", 0)
      BY <3>1, WriteDoes
    <3>3. /\ irqTodo' = <<>> /\ mTimerPeriod' = 0
          /\ UNCHANGED <<vic, dgt, gRegisteredInterruptHandlers, irqHooked, drivers,
                         mTimerNotifyFunction, tickFrames, tickOwed, tickTold>>
      BY <2>2, <3>1, <3>2 DEF Does
    <3>5. TickTypeOK' /\ TickMoreTypeOK' /\ ~vic'.active
      BY <1>3, <3>3 DEF TickTypeOK, TickMoreTypeOK
    <3>7. AfterIrq' /\ AfterDevice' /\ AfterTimer' /\ AfterExits'
      BY <2>1, <2>2, <2>5, <3>3 DEF TickInv, AfterIrq, AfterDevice, AfterTimer, AfterExits,
         Irq, Timer, IrqExit, TimerExit
    <3>8. BeforeIrq' /\ Core' /\ TicksKept'
      BY <2>1, <3>3 DEF TickInv, BeforeIrq, Core, TicksKept, Irq, Timer
    <3> QED BY <3>3, <3>5, <3>7, <3>8 DEF TickInv
  <2> QED BY <1>8, <2>3, <2>4, <2>5 DEF TimerExitRuns
<1> QED BY <1>0, <1>1, <1>2, <1>5, <1>6, <1>7, <1>8 DEF SomeCallRuns

\* A driver starts, with the first write of its call still to come.
LEMMA StartsDriverInv == TickInv /\ StartsDriver => TickInv'
<1> SUFFICES ASSUME TickInv, StartsDriver PROVE TickInv'
  OBVIOUS
<1>1. TickTypeOK /\ TickMoreTypeOK /\ ~vic.active /\ ~IrqExit /\ ~TimerExit
  BY DEF TickInv, StartsDriver, IrqExit, TimerExit
<1>2. CASE Calls(InterruptDxeInitialize, <<"irq">>)
  <2>1. /\ irqTodo = <<>> /\ ~Irq
        /\ irqTodo' = <<IrqWrite("hook", 0), IrqWrite("init", 0)>>
        /\ drivers' = drivers \cup {<<"irq">>}
        /\ UNCHANGED <<vic, gRegisteredInterruptHandlers, irqHooked, dgt, mTimerPeriod,
                       mTimerNotifyFunction, tickFrames, tickOwed, tickTold>>
    BY <1>2 DEF Calls, InterruptDxeInitialize, Irq
  <2>2. drivers = {} /\ drivers' = {<<"irq">>}
    BY <2>1 DEF TickInv, BeforeIrq
  <2>3. Irq' /\ ~Timer' /\ ~IrqExit' /\ ~TimerExit'
        /\ \A s \in DeviceSources : <<"device", s>> \notin drivers'
    BY <2>2 DEF Irq, Timer, IrqExit, TimerExit
  <2>4. InitRuns'
    BY <2>1, <2>3 DEF InitRuns
  <2>5. ~Timer /\ ~mTimerNotifyFunction /\ tickTold = -1
    BY <2>2 DEF TickInv, Core, Timer
  <2>6. TickTypeOK' /\ TickMoreTypeOK' /\ ~vic'.active
    BY <1>1, <2>1 DEF TickTypeOK, TickMoreTypeOK
  <2> QED
    BY <2>1, <2>3, <2>4, <2>5, <2>6 DEF TickInv, TicksKept, SomeCallRuns, BeforeIrq, AfterIrq,
       AfterTimer, AfterDevice, AfterExits, Core
<1>3. CASE <<"irq">> \in drivers /\ Calls(TimerInitialize, <<"timer">>)
  <2>1. /\ irqTodo = <<>> /\ Irq /\ ~Timer
        /\ irqTodo' = TimerProgram
        /\ drivers' = drivers
        /\ UNCHANGED <<vic, gRegisteredInterruptHandlers, irqHooked, dgt, mTimerPeriod,
                       mTimerNotifyFunction, tickFrames, tickOwed, tickTold>>
    BY <1>3, TimerInitializeIsProgram DEF Calls, Irq, Timer
  <2>2. TimerProgram = SubSeq(TimerProgram, 1, 10)
    <3> DEFINE t == TimerProgram
    <3>1. t \in Seq(IrqWrites) /\ Len(t) = 10
      BY TimerProgramType
    <3> HIDE DEF t
    <3>2. SubSeq(t, 1, Len(t)) = t
      BY <3>1, SubSeqFull
    <3>3. SubSeq(t, 1, 10) = t
      BY <3>1, <3>2
    <3> QED BY <3>3 DEF t
  <2>3. TimerRuns(1)' /\ SomeCallRuns'
    <3>1. TimerRuns(1)'
      BY <1>1, <2>1, <2>2 DEF TimerRuns, Irq, Timer, IrqExit, TimerExit
    <3> QED BY <3>1 DEF SomeCallRuns
  <2>4. ~InitRuns /\ \A s \in DeviceSources \ {TimerSource} : ~RegisterRuns(s)
    BY <2>1 DEF InitRuns, RegisterRuns
  <2>5. TickTypeOK' /\ TickMoreTypeOK' /\ ~vic'.active
    BY <1>1, <2>1 DEF TickTypeOK, TickMoreTypeOK
  <2> QED
    BY <1>1, <2>1, <2>3, <2>4, <2>5 DEF TickInv, TicksKept, BeforeIrq, AfterIrq,
       AfterTimer, AfterDevice, AfterExits, Core, Irq, Timer, IrqExit, TimerExit
<1>4. ASSUME NEW s \in DeviceSources, Claimable(s), <<"irq">> \in drivers,
             Calls(RegisterInterruptSource(s), <<"device", s>>)
      PROVE  TickInv'
  <2>1. /\ irqTodo = <<>> /\ Irq /\ s # TimerSource
        /\ irqTodo' = <<IrqWrite("handler", s), IrqWrite("enable", s)>>
        /\ drivers' = drivers \cup {<<"device", s>>}
        /\ UNCHANGED <<vic, gRegisteredInterruptHandlers, irqHooked, dgt, mTimerPeriod,
                       mTimerNotifyFunction, tickFrames, tickOwed, tickTold>>
    BY <1>4 DEF Calls, RegisterInterruptSource, Claimable, Irq
  <2>2. /\ Irq' /\ ~IrqExit' /\ ~TimerExit' /\ <<"device", s>> \in drivers'
        /\ Timer' = Timer
    BY <1>1, <2>1 DEF Irq, Timer, IrqExit, TimerExit
  <2>3. RegisterRuns(s)' /\ SomeCallRuns'
    <3>1. RegisterRuns(s)'
      BY <2>1, <2>2 DEF RegisterRuns
    <3> QED BY <2>1, <3>1 DEF SomeCallRuns
  <2>4. ~InitRuns /\ \A t \in DeviceSources \ {TimerSource} : ~RegisterRuns(t)
    BY <2>1 DEF InitRuns, RegisterRuns
  <2>5. TickTypeOK' /\ TickMoreTypeOK' /\ ~vic'.active
    BY <1>1, <2>1 DEF TickTypeOK, TickMoreTypeOK
  <2>6. AfterDevice'
    BY <2>1, <2>3, <2>4 DEF TickInv, AfterDevice
  <2> QED
    BY <1>1, <2>1, <2>2, <2>3, <2>4, <2>5, <2>6 DEF TickInv, TicksKept, BeforeIrq, AfterIrq,
       AfterTimer, AfterExits, Core
<1> QED BY <1>2, <1>3, <1>4 DEF StartsDriver

\* A device's driver masks or unmasks its source.
LEMMA TogglesInv == TickInv /\ Toggles => TickInv'
<1> SUFFICES ASSUME TickInv, Toggles PROVE TickInv'
  OBVIOUS
<1>1. PICK s \in DeviceSources :
        /\ Claimable(s) /\ <<"device", s>> \in drivers
        /\ drivers \cap {<<"irqexit">>, <<"timerexit">>} = {}
        /\ irqTodo = <<>>
        /\ irqTodo' = IF s \in vic.en THEN DisableInterruptSource(s)
                                      ELSE EnableInterruptSource(s)
        /\ UNCHANGED <<gRegisteredInterruptHandlers, vic, irqHooked, tickVars>>
  BY DEF Toggles
<1>2. /\ ~IrqExit /\ ~TimerExit /\ s # TimerSource /\ drivers # {}
      /\ TickTypeOK /\ TickMoreTypeOK /\ ~vic.active
  BY <1>1 DEF IrqExit, TimerExit, Claimable, TickInv
<1>3. UNCHANGED <<vic, gRegisteredInterruptHandlers, irqHooked, dgt, mTimerPeriod, drivers,
                  mTimerNotifyFunction, tickFrames, tickOwed, tickTold>>
  BY <1>1 DEF tickVars
<1>4. Irq /\ ~InitRuns /\ \A t \in DeviceSources \ {TimerSource} : ~RegisterRuns(t)
  BY <1>1, <1>2 DEF TickInv, BeforeIrq, InitRuns, RegisterRuns
<1>5. s \in gRegisteredInterruptHandlers
  BY <1>1, <1>2, <1>4 DEF TickInv, AfterDevice
<1>6. SomeCallRuns'
  <2>1. CASE s \in vic.en
    <3>1. DisableRuns(s)'
      BY <1>1, <1>2, <1>3, <1>4, <2>1 DEF DisableRuns, DisableInterruptSource, Irq, IrqExit,
         TimerExit
    <3> QED BY <1>2, <3>1 DEF SomeCallRuns
  <2>2. CASE s \notin vic.en
    <3>1. RegisterRuns(s)'
      BY <1>1, <1>2, <1>3, <1>4, <1>5, <2>2 DEF RegisterRuns, EnableInterruptSource, Irq, IrqExit,
         TimerExit
    <3> QED BY <1>2, <3>1 DEF SomeCallRuns
  <2> QED BY <2>1, <2>2
<1>7. TickTypeOK' /\ TickMoreTypeOK' /\ ~vic'.active
  BY <1>2, <1>3 DEF TickTypeOK, TickMoreTypeOK
<1> QED
  BY <1>2, <1>3, <1>4, <1>6, <1>7 DEF TickInv, TicksKept, BeforeIrq, AfterIrq,
     AfterTimer, AfterDevice, AfterExits, Core, Irq, Timer, IrqExit, TimerExit

\* Once the timer's driver has started, the controller is on while a source is.
LEMMA AfterTimerStarts ==
  ASSUME TickInv, Timer
  PROVE  Irq /\ ~InitRuns /\ irqHooked /\ (vic.master \/ vic.en = {})
<1>1. Irq
  BY DEF TickInv, BeforeIrq, Timer
<1>2. ~InitRuns
  BY DEF InitRuns
<1> QED BY <1>1, <1>2 DEF TickInv, AfterIrq

\* The core registers its tick.
LEMMA RegisterHandlerInv == TickInv /\ TimerDriverRegisterHandler => TickInv'
<1> SUFFICES ASSUME TickInv, TimerDriverRegisterHandler PROVE TickInv'
  OBVIOUS
<1>1. /\ Timer /\ mTimerNotifyFunction' = TRUE
      /\ tickOwed' = IF TimerSource \in vic.pending THEN 1 ELSE 0
      /\ UNCHANGED <<vic, gRegisteredInterruptHandlers, irqHooked, irqTodo, dgt, mTimerPeriod,
                     drivers, tickFrames, tickTold>>
  BY DEF TimerDriverRegisterHandler, irqVars, Timer
<1>2. TickTypeOK' /\ TickMoreTypeOK' /\ ~vic'.active
  BY <1>1 DEF TickInv, TickTypeOK, TickMoreTypeOK
<1>3. SomeCallRuns' = SomeCallRuns /\ (TicksKept' /\ Core')
  BY <1>1 DEF SomeCallRuns, InitRuns, TimerRuns, RegisterRuns, DisableRuns, IrqExitRuns,
     TimerExitRuns, Irq, Timer, IrqExit, TimerExit, TicksKept, Core
<1>4. BeforeIrq' /\ AfterIrq' /\ AfterTimer' /\ AfterDevice' /\ AfterExits'
  BY <1>1 DEF TickInv, BeforeIrq, AfterIrq, AfterTimer, AfterDevice, AfterExits, InitRuns,
     RegisterRuns, IrqExitRuns, TimerExitRuns, Irq, Timer, IrqExit, TimerExit
<1> QED BY <1>1, <1>2, <1>3, <1>4 DEF TickInv

\* An ExitBootServices event starts.
LEMMA ExitBootServicesInv == TickInv /\ ExitBootServices => TickInv'
<1> SUFFICES ASSUME TickInv, ExitBootServices PROVE TickInv'
  OBVIOUS
<1>1. Timer /\ TickTypeOK /\ TickMoreTypeOK /\ ~vic.active
  BY DEF ExitBootServices, TickInv, Core
<1>2. Irq /\ ~InitRuns /\ irqHooked
  BY <1>1, AfterTimerStarts
<1>3. CASE Calls(InterruptExitBootServices, <<"irqexit">>)
  <2>1. /\ irqTodo = <<>> /\ ~IrqExit
        /\ irqTodo' = <<IrqWrite("maskall", 0), IrqWrite("deinit", 0)>>
        /\ drivers' = drivers \cup {<<"irqexit">>}
        /\ UNCHANGED <<vic, gRegisteredInterruptHandlers, irqHooked, dgt, mTimerPeriod,
                       mTimerNotifyFunction, tickFrames, tickOwed, tickTold>>
    BY <1>3 DEF Calls, InterruptExitBootServices, IrqExit
  <2>2. /\ Irq' /\ IrqExit' /\ Timer' /\ TimerExit' = TimerExit
        /\ \A s \in DeviceSources : (<<"device", s>> \in drivers' <=> <<"device", s>> \in drivers)
    BY <1>1, <1>2, <2>1 DEF Irq, Timer, IrqExit, TimerExit
  <2>3. IrqExitRuns' /\ SomeCallRuns'
    BY <2>1, <2>2 DEF IrqExitRuns, SomeCallRuns
  <2>4. ~TimerExitRuns /\ \A t \in DeviceSources \ {TimerSource} : ~RegisterRuns(t)
    BY <2>1 DEF TimerExitRuns, RegisterRuns
  <2>5. TickTypeOK' /\ TickMoreTypeOK' /\ ~vic'.active
    BY <1>1, <2>1 DEF TickTypeOK, TickMoreTypeOK
  <2> QED
    BY <1>1, <1>2, <2>1, <2>2, <2>3, <2>4, <2>5 DEF TickInv, TicksKept, BeforeIrq, AfterIrq,
       AfterTimer, AfterDevice, AfterExits, Core
<1>4. CASE Calls(TimerExitBootServices, <<"timerexit">>)
  <2>1. /\ irqTodo = <<>> /\ ~TimerExit
        /\ irqTodo' = <<IrqWrite("stop", 0), IrqWrite("disable", TimerSource),
          IrqWrite("period", 0)>>
        /\ drivers' = drivers \cup {<<"timerexit">>}
        /\ UNCHANGED <<vic, gRegisteredInterruptHandlers, irqHooked, dgt, mTimerPeriod,
                       mTimerNotifyFunction, tickFrames, tickOwed, tickTold>>
    <3>1. TimerExitBootServices =
            <<IrqWrite("stop", 0)>> \o <<IrqWrite("disable", TimerSource)>>
              \o <<IrqWrite("period", 0)>>
      BY DEF TimerExitBootServices, TimerDriverSetTimerPeriod, DisableInterruptSource
    <3>2. TimerExitBootServices =
            <<IrqWrite("stop", 0), IrqWrite("disable", TimerSource), IrqWrite("period", 0)>>
      BY <3>1, JoinedThree, Zenon
    <3> QED BY <1>4, <3>2 DEF Calls, TimerExit
  <2>2. /\ Irq' /\ TimerExit' /\ Timer' /\ IrqExit' = IrqExit
        /\ \A s \in DeviceSources : (<<"device", s>> \in drivers' <=> <<"device", s>> \in drivers)
    BY <1>1, <1>2, <2>1 DEF Irq, Timer, IrqExit, TimerExit
  <2>3. TimerExitRuns' /\ SomeCallRuns'
    BY <2>1, <2>2 DEF TimerExitRuns, SomeCallRuns
  <2>4. ~IrqExitRuns /\ \A t \in DeviceSources \ {TimerSource} : ~RegisterRuns(t)
    BY <2>1 DEF IrqExitRuns, RegisterRuns
  <2>5. TickTypeOK' /\ TickMoreTypeOK' /\ ~vic'.active
    BY <1>1, <2>1 DEF TickTypeOK, TickMoreTypeOK
  <2> QED
    BY <1>1, <1>2, <2>1, <2>2, <2>3, <2>4, <2>5 DEF TickInv, TicksKept, BeforeIrq, AfterIrq,
       AfterTimer, AfterDevice, AfterExits, Core
<1> QED BY <1>3, <1>4 DEF ExitBootServices

\* What an interrupt does to the controller leaves alone what the calls rely on.
LEMMA InterruptFrame ==
  ASSUME TickInv, TickTypeOK', TickMoreTypeOK', TicksKept',
         UNCHANGED <<gRegisteredInterruptHandlers, irqHooked, irqTodo, dgt,
                     mTimerNotifyFunction, mTimerPeriod, drivers>>,
         vic'.en = vic.en, vic'.master = vic.master, ~vic'.active,
         tickTold' # -1 => tickTold # -1 \/ mTimerNotifyFunction
  PROVE  TickInv'
<1>1. /\ \A s : RegisterRuns(s)' = RegisterRuns(s)
      /\ InitRuns' = InitRuns /\ IrqExitRuns' = IrqExitRuns /\ TimerExitRuns' = TimerExitRuns
  BY DEF InitRuns, RegisterRuns, IrqExitRuns, TimerExitRuns, Irq, Timer, IrqExit, TimerExit
<1>2. /\ \A s : DisableRuns(s)' = DisableRuns(s)
      /\ \A k : TimerRuns(k)' = TimerRuns(k)
  BY DEF TimerRuns, DisableRuns, Irq, Timer, IrqExit, TimerExit
<1>3. irqTodo' = <<>> \/ SomeCallRuns'
  BY <1>1, <1>2 DEF TickInv, SomeCallRuns
<1>4. BeforeIrq' /\ AfterIrq' /\ AfterTimer' /\ AfterDevice' /\ AfterExits' /\ Core'
  BY <1>1 DEF TickInv, BeforeIrq, AfterIrq, AfterTimer, AfterDevice, AfterExits, Core,
     Irq, Timer, IrqExit, TimerExit
<1> QED BY <1>3, <1>4 DEF TickInv

\* The timer counts to its match value.
LEMMA TickStepInv == TickInv /\ Tick => TickInv'
<1> SUFFICES ASSUME TickInv, Tick PROVE TickInv'
  OBVIOUS
<1> USE TimerAssumption DEF TimerAssumption
<1>1. TickTypeOK /\ TickMoreTypeOK /\ ~vic.active /\ TicksKept
  BY DEF TickInv
<1>2. /\ vic' = [vic EXCEPT !.pending = @ \cup {TimerSource}]
      /\ tickOwed' = IF mTimerNotifyFunction /\ TimerSource \in vic.en
                     THEN tickOwed + 1 ELSE tickOwed
      /\ UNCHANGED <<gRegisteredInterruptHandlers, irqHooked, irqTodo, dgt,
                     mTimerNotifyFunction, mTimerPeriod, tickFrames, drivers, tickTold>>
  BY DEF Tick, Raise
<1>3. /\ vic'.en = vic.en /\ vic'.master = vic.master /\ ~vic'.active
      /\ vic'.pending = vic.pending \cup {TimerSource}
      /\ vic' \in [en : SUBSET IrqSources, pending : SUBSET IrqSources,
                   master : BOOLEAN, active : BOOLEAN]
  BY <1>1, <1>2 DEF TickMoreTypeOK, IrqSources
<1>4. TickTypeOK' /\ TickMoreTypeOK'
  BY <1>1, <1>2, <1>3 DEF TickTypeOK, TickMoreTypeOK
<1>5. TicksKept'
  <2> SUFFICES ASSUME mTimerNotifyFunction', TimerSource \in vic'.en
               PROVE  tickOwed' = IF TimerSource \in vic'.pending THEN 1 ELSE 0
    BY DEF TicksKept
  <2>1. mTimerNotifyFunction /\ TimerSource \in vic.en /\ Timer
    BY <1>2, <1>3 DEF TickInv, Core
  <2>2. irqHooked /\ vic.master
    BY <2>1, AfterTimerStarts
  <2>3. TimerSource \notin vic.pending
    BY <1>1, <2>1, <2>2 DEF Tick, CanInterrupt
  <2>4. tickOwed = 0
    BY <1>1, <2>1, <2>3 DEF TicksKept
  <2> QED BY <1>2, <1>3, <2>1, <2>4
<1> QED BY <1>2, <1>3, <1>4, <1>5, InterruptFrame

\* Another device raises its line.
LEMMA DeviceRaisesInv == TickInv /\ DeviceRaises => TickInv'
<1> SUFFICES ASSUME TickInv, DeviceRaises PROVE TickInv'
  OBVIOUS
<1>1. TickTypeOK /\ TickMoreTypeOK /\ ~vic.active /\ TicksKept
  BY DEF TickInv
<1>2. PICK s \in IrqSources \ {TimerSource} : vic' = [vic EXCEPT !.pending = @ \cup {s}]
  BY DEF DeviceRaises, Raise
<1>3. UNCHANGED <<gRegisteredInterruptHandlers, irqHooked, irqTodo, dgt, mTimerNotifyFunction,
                  mTimerPeriod, tickFrames, drivers, tickTold, tickOwed>>
  BY DEF DeviceRaises, tickVars
<1>4. /\ vic'.en = vic.en /\ vic'.master = vic.master /\ ~vic'.active
      /\ vic'.pending = vic.pending \cup {s}
      /\ vic' \in [en : SUBSET IrqSources, pending : SUBSET IrqSources,
                   master : BOOLEAN, active : BOOLEAN]
  BY <1>1, <1>2 DEF TickMoreTypeOK
<1>5. TickTypeOK' /\ TickMoreTypeOK' /\ TicksKept'
  BY <1>1, <1>3, <1>4 DEF TickTypeOK, TickMoreTypeOK, TicksKept
<1> QED BY <1>3, <1>4, <1>5, InterruptFrame

\* An interrupt that is taken and ended is no longer latched.
LEMMA EndedAtOnce ==
  ASSUME TickMoreTypeOK, NEW s, vic' = EndOfInterrupt(Acknowledged(s))
  PROVE  /\ vic'.en = vic.en /\ vic'.master = vic.master /\ ~vic'.active
         /\ vic'.pending = vic.pending \ {s}
         /\ vic' \in [en : SUBSET IrqSources, pending : SUBSET IrqSources,
                      master : BOOLEAN, active : BOOLEAN]
<1> DEFINE taken == [vic EXCEPT !.active = TRUE, !.pending = @ \ {s}]
<1>1. /\ taken.en = vic.en /\ taken.master = vic.master
      /\ taken.pending = vic.pending \ {s}
      /\ taken \in [en : SUBSET IrqSources, pending : SUBSET IrqSources,
                    master : BOOLEAN, active : BOOLEAN]
  BY DEF TickMoreTypeOK
<1>2. vic' = [taken EXCEPT !.active = FALSE]
  BY DEF EndOfInterrupt, Acknowledged
<1> HIDE DEF taken
<1> QED BY <1>1, <1>2

\* The tick's handler, up to RestoreTPL.
LEMMA TimerInterruptHandlerInv == TickInv /\ TimerInterruptHandler => TickInv'
<1> SUFFICES ASSUME TickInv, TimerInterruptHandler PROVE TickInv'
  OBVIOUS
<1> USE TimerAssumption DEF TimerAssumption
<1>1. TickTypeOK /\ TickMoreTypeOK /\ ~vic.active /\ TicksKept
  BY DEF TickInv
<1>2. /\ vic' = EndOfInterrupt(Acknowledged(TimerSource))
      /\ tickFrames < MaxFrames /\ tickFrames' = tickFrames + 1
      /\ TimerSource \in vic.en \cap vic.pending
      /\ UNCHANGED <<gRegisteredInterruptHandlers, irqHooked, irqTodo, dgt,
                     mTimerNotifyFunction, mTimerPeriod, drivers>>
  BY DEF TimerInterruptHandler, EndedBeforeRestoreTPL, CanInterrupt
<1>3. /\ vic'.en = vic.en /\ vic'.master = vic.master /\ ~vic'.active
      /\ vic'.pending = vic.pending \ {TimerSource}
      /\ vic' \in [en : SUBSET IrqSources, pending : SUBSET IrqSources,
                   master : BOOLEAN, active : BOOLEAN]
  BY <1>1, <1>2, EndedAtOnce
<1>4. tickFrames' \in 0..MaxFrames
  BY <1>1, <1>2 DEF TickTypeOK
<1>5. CASE mTimerNotifyFunction
  <2>1. tickTold' = mTimerPeriod /\ tickOwed' = tickOwed - 1
    BY <1>5 DEF TimerInterruptHandler
  <2>2. Timer
    BY <1>5 DEF TickInv, Core
  <2>3. mTimerPeriod = PcdTimerPeriod
    BY <1>2, <2>2 DEF TickInv, AfterTimer
  <2>4. tickOwed = 1
    BY <1>1, <1>2, <1>5 DEF TicksKept
  <2>5. TickTypeOK' /\ TickMoreTypeOK'
    BY <1>1, <1>2, <1>3, <1>4, <2>1, <2>3 DEF TickTypeOK, TickMoreTypeOK
  <2>6. TicksKept'
    BY <1>2, <1>3, <2>1, <2>4 DEF TicksKept
  <2> QED BY <1>2, <1>3, <1>5, <2>5, <2>6, InterruptFrame
<1>6. CASE ~mTimerNotifyFunction
  <2>1. UNCHANGED <<tickTold, tickOwed>>
    BY <1>6 DEF TimerInterruptHandler
  <2>2. TickTypeOK' /\ TickMoreTypeOK'
    BY <1>1, <1>2, <1>3, <1>4, <2>1 DEF TickTypeOK, TickMoreTypeOK
  <2>3. TicksKept'
    BY <1>2, <1>6 DEF TicksKept
  <2> QED BY <1>2, <1>3, <2>1, <2>2, <2>3, InterruptFrame
<1> QED BY <1>5, <1>6

\* ... and its return.
LEMMA TimerInterruptReturnsInv == TickInv /\ TimerInterruptReturns => TickInv'
<1> SUFFICES ASSUME TickInv, TimerInterruptReturns PROVE TickInv'
  OBVIOUS
<1> USE TimerAssumption DEF TimerAssumption
<1>1. TickTypeOK /\ TickMoreTypeOK /\ ~vic.active /\ TicksKept
  BY DEF TickInv
<1>2. /\ vic' = [vic EXCEPT !.active = FALSE]
      /\ tickFrames > 0 /\ tickFrames' = tickFrames - 1
      /\ UNCHANGED <<gRegisteredInterruptHandlers, irqHooked, irqTodo, dgt,
                     mTimerNotifyFunction, mTimerPeriod, drivers, tickOwed, tickTold>>
  BY DEF TimerInterruptReturns, EndOfInterrupt
<1>3. /\ vic'.en = vic.en /\ vic'.master = vic.master /\ ~vic'.active
      /\ vic'.pending = vic.pending
      /\ vic' \in [en : SUBSET IrqSources, pending : SUBSET IrqSources,
                   master : BOOLEAN, active : BOOLEAN]
  BY <1>1, <1>2 DEF TickMoreTypeOK
<1>4. TickTypeOK' /\ TickMoreTypeOK' /\ TicksKept'
  BY <1>1, <1>2, <1>3 DEF TickTypeOK, TickMoreTypeOK, TicksKept
<1> QED BY <1>2, <1>3, <1>4, InterruptFrame

\* Any other interrupt.
LEMMA OtherInterruptInv == TickInv /\ OtherInterrupt => TickInv'
<1> SUFFICES ASSUME TickInv, OtherInterrupt PROVE TickInv'
  OBVIOUS
<1>1. TickTypeOK /\ TickMoreTypeOK /\ ~vic.active /\ TicksKept
  BY DEF TickInv
<1>2. PICK s \in IrqSources :
        /\ s = TimerSource => s \notin gRegisteredInterruptHandlers
        /\ IrqInterruptHandler(s)
  BY DEF OtherInterrupt
<1>3. /\ vic' = EndOfInterrupt(Acknowledged(s))
      /\ UNCHANGED <<gRegisteredInterruptHandlers, irqHooked, irqTodo, dgt,
                     mTimerNotifyFunction, mTimerPeriod, tickFrames, drivers, tickTold, tickOwed>>
  BY <1>2 DEF IrqInterruptHandler, HandledAtOnce, OtherInterrupt, tickVars
<1>4. /\ vic'.en = vic.en /\ vic'.master = vic.master /\ ~vic'.active
      /\ vic'.pending = vic.pending \ {s}
      /\ vic' \in [en : SUBSET IrqSources, pending : SUBSET IrqSources,
                   master : BOOLEAN, active : BOOLEAN]
  BY <1>1, <1>3, EndedAtOnce
<1>5. TickTypeOK' /\ TickMoreTypeOK'
  BY <1>1, <1>3, <1>4 DEF TickTypeOK, TickMoreTypeOK
<1>6. mTimerNotifyFunction => s # TimerSource
  BY <1>2 DEF TickInv, Core, AfterTimer
<1>7. TicksKept'
  BY <1>1, <1>3, <1>4, <1>6 DEF TicksKept
<1> QED BY <1>3, <1>4, <1>5, <1>7, InterruptFrame

\* Every step keeps the invariant.
LEMMA TickNextInv == TickInv /\ [TickNext]_<<irqVars, tickVars>> => TickInv'
<1> SUFFICES ASSUME TickInv, [TickNext]_<<irqVars, tickVars>> PROVE TickInv'
  OBVIOUS
<1>1. CASE TickNext
  BY <1>1, DriverWritesInv, StartsDriverInv, TogglesInv, RegisterHandlerInv, ExitBootServicesInv,
     TickStepInv, DeviceRaisesInv, TimerInterruptHandlerInv, TimerInterruptReturnsInv,
     OtherInterruptInv DEF TickNext
<1>2. CASE UNCHANGED <<irqVars, tickVars>>
  <2>1. UNCHANGED <<vic, gRegisteredInterruptHandlers, irqHooked, irqTodo, dgt,
                    mTimerNotifyFunction, mTimerPeriod, tickFrames, drivers, tickTold, tickOwed>>
    BY <1>2 DEF irqVars, tickVars
  <2>2. TickTypeOK' /\ TickMoreTypeOK' /\ TicksKept' /\ ~vic'.active
    BY <2>1 DEF TickInv, TickTypeOK, TickMoreTypeOK, TicksKept
  <2> QED BY <2>1, <2>2, InterruptFrame
<1> QED BY <1>1, <1>2

\* Interrupts and ticks are neither lost nor unasked for, for every set of
\* sources, period and depth of handlers: what the invariant says of the call
\* that runs and of the drivers that have started is TicksRight.
THEOREM TicksAreRight == TickSpec => []TicksRight
<1>1. TickInv => TicksRight
  <2> SUFFICES ASSUME TickInv PROVE TicksRight
    OBVIOUS
  <2>1. EnabledIsHandled
    <3>1. InitRuns => irqTodo # <<>> /\ Head(irqTodo).op \in {"hook", "init"}
      BY DEF InitRuns, IrqWrite
    <3> QED BY <3>1 DEF TickInv, AfterIrq, EnabledIsHandled, Irq
  <2>2. TickCarriesPeriod
    BY TimerAssumption DEF TimerAssumption, TickInv, TickMoreTypeOK, Core, AfterTimer,
       TickCarriesPeriod
  <2>3. ExitIsQuiet
    <3>1. irqTodo = <<>> => ~IrqExitRuns /\ ~TimerExitRuns
      BY DEF IrqExitRuns, TimerExitRuns
    <3> QED BY <3>1 DEF TickInv, AfterExits, ExitIsQuiet, IrqExit, TimerExit
  <2> QED BY <2>1, <2>2, <2>3 DEF TickInv, TicksRight
<1> QED BY <1>1, TickInitInv, TickNextInv, PTL DEF TickSpec
-----------------------------------------------------------------------------
(* AcpuClock.  What a function still does, read from its first write on.    *)
(* A speed that the PLL gives ends with the switch to it; the way down to   *)
(* the standby clock ends with the PLL powered down.                        *)

ClockWrites ==
  {<<"wait">>, <<"toggle">>, <<"spin">>, <<"config", MODEM_PLL>>}
  \cup {<<"mode", m>> : m \in {"standby", "powerdown", "normal"}}
  \cup {<<w, n>> : w \in {"freq", "l", "src", "speed"}, n \in 0..33}

Starts(todo, write) == todo # <<>> /\ Head(todo) = write

Ends(todo, i, cur) ==
  \/ todo = <<>> /\ cur = i
  \/ Starts(todo, <<"speed", i>>) /\ Tail(todo) = <<>> /\ cur >= 0

AtSrc(todo, i, cur) == Starts(todo, <<"src", SRC_SCPLL>>) /\ Ends(Tail(todo), i, cur)
AtLastWait(todo, i, cur) == Starts(todo, <<"wait">>) /\ AtSrc(Tail(todo), i, cur)
AtLastMode(todo, i, cur) == Starts(todo, <<"mode", "normal">>) /\ AtLastWait(Tail(todo), i, cur)
AtLastL(todo, i, cur) == Starts(todo, <<"l", 9 + i>>) /\ AtLastMode(Tail(todo), i, cur)
AtFirstWait(todo, i, cur) == Starts(todo, <<"wait">>) /\ AtLastL(Tail(todo), i, cur)
AtFirstMode(todo, i, cur) == Starts(todo, <<"mode", "normal">>) /\ AtFirstWait(Tail(todo), i, cur)
AtFirstL(todo, i, cur) == Starts(todo, <<"l", 10>>) /\ AtFirstMode(Tail(todo), i, cur)
AtStandby(todo, i, cur) == Starts(todo, <<"mode", "standby">>) /\ AtFirstL(Tail(todo), i, cur)
AtFreq(todo, i, cur) == Starts(todo, <<"freq", 9 + i>>) /\ AtSrc(Tail(todo), i, cur)
AtSetFreq(todo, i, cur) == Starts(todo, <<"wait">>) /\ AtFreq(Tail(todo), i, cur)

\* acpuclk_init powers the PLL down first.
AtOff(todo, i, cur) == Starts(todo, <<"mode", "powerdown">>) /\ AtSetFreq(Tail(todo), i, cur)
AtOffStandby(todo, i, cur) == Starts(todo, <<"mode", "standby">>) /\ AtOff(Tail(todo), i, cur)
AtOffWait(todo, i, cur) == Starts(todo, <<"wait">>) /\ AtOffStandby(Tail(todo), i, cur)

\* The way to the standby clock, which configures and selects it twice.
DownOff(todo, cur) == Starts(todo, <<"mode", "powerdown">>) /\ Ends(Tail(todo), 0, cur)
DownStandby(todo, cur) == Starts(todo, <<"mode", "standby">>) /\ DownOff(Tail(todo), cur)
DownWait(todo, cur) == Starts(todo, <<"wait">>) /\ DownStandby(Tail(todo), cur)
DownSrc(todo, cur) == Starts(todo, <<"src", SRC_RAW>>) /\ DownWait(Tail(todo), cur)
DownToggle(todo, cur) == Starts(todo, <<"toggle">>) /\ DownSrc(Tail(todo), cur)
DownConfig(todo, cur) == Starts(todo, <<"config", MODEM_PLL>>) /\ DownToggle(Tail(todo), cur)

\* Stepping aside from the PLL.
Aside(todo, cur) ==
  DownConfig(todo, cur) \/ \E i \in 1..17 : AtSetFreq(todo, i, cur) \/ AtOffWait(todo, i, cur)
AsideSrc(todo, cur) == Starts(todo, <<"src", SRC_RAW>>) /\ Aside(Tail(todo), cur)
AsideToggle(todo, cur) == Starts(todo, <<"toggle">>) /\ AsideSrc(Tail(todo), cur)
AsideConfig(todo, cur) == Starts(todo, <<"config", MODEM_PLL>>) /\ AsideToggle(Tail(todo), cur)

-----------------------------------------------------------------------------
(* Where the processor runs from at each of these places.                   *)

OnRaw == clkSel.src = SRC_RAW /\ clkCntl[clkSel.half] = MODEM_PLL
Steady == scpll.mode = "normal" /\ ~scpll.busy

Unstarted ==
  /\ current_speed = -1
  /\ acpuTodo = <<>> \/ Starts(acpuTodo, <<"spin">>)
  /\ RunsFromSteadyPll

Settled ==
  \/ \E i \in 1..17 : /\ Ends(acpuTodo, i, current_speed)
                      /\ clkSel.src = SRC_SCPLL /\ Steady /\ scpll.l = 9 + i
  \/ Ends(acpuTodo, 0, current_speed) /\ OnRaw /\ scpll.mode = "powerdown"

Rising(i) ==
  \/ AtSrc(acpuTodo, i, current_speed) /\ Steady /\ scpll.l = 9 + i
  \/ AtLastWait(acpuTodo, i, current_speed) /\ scpll.mode = "normal" /\ scpll.l = 9 + i
  \/ AtLastMode(acpuTodo, i, current_speed) /\ scpll.l = 9 + i
  \/ AtLastL(acpuTodo, i, current_speed)
  \/ AtFirstWait(acpuTodo, i, current_speed)
  \/ AtFirstMode(acpuTodo, i, current_speed)
  \/ AtFirstL(acpuTodo, i, current_speed)
  \/ AtStandby(acpuTodo, i, current_speed)
  \/ AtFreq(acpuTodo, i, current_speed)
  \/ AtSetFreq(acpuTodo, i, current_speed)
  \/ AtOff(acpuTodo, i, current_speed)
  \/ AtOffStandby(acpuTodo, i, current_speed)
  \/ AtOffWait(acpuTodo, i, current_speed)

GoingUp == current_speed >= 0 /\ OnRaw /\ \E i \in 1..17 : Rising(i)

GoingDown ==
  /\ current_speed >= 0 /\ OnRaw
  /\ \/ DownOff(acpuTodo, current_speed) \/ DownStandby(acpuTodo, current_speed)
     \/ DownWait(acpuTodo, current_speed) \/ DownSrc(acpuTodo, current_speed)
     \/ DownConfig(acpuTodo, current_speed)
     \/ DownToggle(acpuTodo, current_speed) /\ clkCntl[OtherHalf] = MODEM_PLL

SteppingAside ==
  /\ current_speed >= 0 /\ clkSel.src \in 1..2 /\ RunsFromSteadyPll
  /\ \/ AsideConfig(acpuTodo, current_speed)
     \/ AsideToggle(acpuTodo, current_speed) /\ clkCntl[OtherHalf] = MODEM_PLL
     \/ AsideSrc(acpuTodo, current_speed) /\ clkCntl[clkSel.half] = MODEM_PLL

AcpuInv ==
  /\ AcpuTypeOK /\ acpuTodo \in Seq(ClockWrites)
  /\ Unstarted \/ Settled \/ GoingUp \/ GoingDown \/ SteppingAside

-----------------------------------------------------------------------------
\* A sequence that is put before another is read first.
LEMMA JoinStarts ==
  ASSUME NEW S, NEW s \in Seq(S), NEW t \in Seq(S), s # <<>>
  PROVE  /\ s \o t # <<>> /\ s \o t \in Seq(S)
         /\ Head(s \o t) = Head(s) /\ Tail(s \o t) = Tail(s) \o t
<1>1. /\ s \o t \in Seq(S) /\ Len(s \o t) = Len(s) + Len(t)
      /\ \A i \in 1..Len(s) + Len(t) : (s \o t)[i] = IF i <= Len(s) THEN s[i] ELSE t[i - Len(s)]
  BY ConcatProperties
<1>2. Len(s) \in Nat /\ Len(t) \in Nat /\ Len(s) > 0
  BY LenProperties, EmptySeq
<1> DEFINE u == s \o t
<1> HIDE DEF u
<1>3. u \in Seq(S) /\ Len(u) = Len(s) + Len(t) /\ u # <<>>
  BY <1>1, <1>2, EmptySeq DEF u
<1>4. Head(u) = u[1] /\ Head(s) = s[1]
  BY SMTT(30)
<1>5. u[1] = s[1]
  BY <1>1, <1>2 DEF u
<1> DEFINE a == Tail(u)
           b == Tail(s)
           c == b \o t
<1>6. a \in Seq(S) /\ Len(a) = Len(u) - 1 /\ (\A i \in 1..Len(a) : a[i] = u[i + 1])
  BY <1>3, HeadTailProperties
<1>7. b \in Seq(S) /\ Len(b) = Len(s) - 1 /\ (\A i \in 1..Len(b) : b[i] = s[i + 1])
  BY HeadTailProperties
<1> HIDE DEF a, b
<1>8. /\ c \in Seq(S) /\ Len(c) = Len(b) + Len(t)
      /\ \A i \in 1..Len(b) + Len(t) : c[i] = IF i <= Len(b) THEN b[i] ELSE t[i - Len(b)]
  BY <1>7, ConcatProperties
<1> HIDE DEF c
<1>9. ASSUME NEW i \in 1..Len(a) PROVE a[i] = c[i]
  <2>1. i \in Nat /\ i >= 1 /\ i + 1 \in 1..Len(s) + Len(t) /\ i \in 1..Len(b) + Len(t)
    BY <1>2, <1>3, <1>6, <1>7
  <2>2. a[i] = IF i + 1 <= Len(s) THEN s[i + 1] ELSE t[i + 1 - Len(s)]
    BY <1>1, <1>6, <2>1 DEF u
  <2>3. c[i] = IF i <= Len(b) THEN b[i] ELSE t[i - Len(b)]
    BY <1>8, <2>1
  <2>4. CASE i <= Len(b)
    BY <1>2, <1>7, <2>1, <2>2, <2>3, <2>4
  <2>5. CASE i > Len(b)
    <3>1. ~(i + 1 <= Len(s)) /\ ~(i <= Len(b)) /\ i + 1 - Len(s) = i - Len(b)
      BY <1>2, <1>7, <2>1, <2>5
    <3> QED BY <2>2, <2>3, <3>1
  <2> QED BY <1>2, <1>7, <2>1, <2>4, <2>5
<1>10. a = c
  <2>1. Len(a) = Len(c)
    BY <1>2, <1>3, <1>6, <1>7, <1>8
  <2> QED BY <1>6, <1>8, <1>9, <2>1, SeqEqual
<1> QED BY <1>3, <1>4, <1>5, <1>10 DEF u, a, b, c

\* ClockWrites are put together in any order.
LEMMA Regroup ==
  ASSUME NEW s \in Seq(ClockWrites), NEW t \in Seq(ClockWrites), NEW u \in Seq(ClockWrites)
  PROVE  (s \o t) \o u = s \o (t \o u) /\ s \o t \in Seq(ClockWrites)
BY ConcatAssociative, ConcatProperties

\* One write, then the rest.
LEMMA OneThen ==
  ASSUME NEW a \in ClockWrites, NEW t \in Seq(ClockWrites)
  PROVE  /\ <<a>> \o t \in Seq(ClockWrites)
         /\ Starts(<<a>> \o t, a) /\ Tail(<<a>> \o t) = t
<1> DEFINE s == <<a>>
<1>1. s \in Seq(ClockWrites) /\ s # <<>> /\ Head(s) = a /\ Tail(s) = <<>>
  OBVIOUS
<1> HIDE DEF s
<1>2. /\ s \o t # <<>> /\ s \o t \in Seq(ClockWrites)
      /\ Head(s \o t) = Head(s) /\ Tail(s \o t) = Tail(s) \o t
  BY <1>1, JoinStarts
<1>3. <<>> \o t = t
  BY ConcatEmptySeq
<1> QED BY <1>1, <1>2, <1>3 DEF Starts, s

\* Two writes, then the rest.
LEMMA TwoThen ==
  ASSUME NEW a \in ClockWrites, NEW b \in ClockWrites, NEW t \in Seq(ClockWrites)
  PROVE  /\ <<a, b>> \o t \in Seq(ClockWrites)
         /\ Starts(<<a, b>> \o t, a)
         /\ Starts(Tail(<<a, b>> \o t), b) /\ Tail(Tail(<<a, b>> \o t)) = t
<1> DEFINE s == <<a, b>>
<1>1. s \in Seq(ClockWrites) /\ s # <<>> /\ Head(s) = a /\ Tail(s) = <<b>>
  OBVIOUS
<1> HIDE DEF s
<1>2. /\ s \o t # <<>> /\ s \o t \in Seq(ClockWrites)
      /\ Head(s \o t) = Head(s) /\ Tail(s \o t) = Tail(s) \o t
  BY <1>1, JoinStarts
<1>3. Starts(<<b>> \o t, b) /\ Tail(<<b>> \o t) = t
  BY OneThen
<1> QED BY <1>1, <1>2, <1>3 DEF Starts, s

\* Three writes, then the rest.
LEMMA ThreeThen ==
  ASSUME NEW a \in ClockWrites, NEW b \in ClockWrites, NEW c \in ClockWrites,
         NEW t \in Seq(ClockWrites)
  PROVE  /\ <<a, b, c>> \o t \in Seq(ClockWrites)
         /\ Starts(<<a, b, c>> \o t, a)
         /\ Starts(Tail(<<a, b, c>> \o t), b)
         /\ Starts(Tail(Tail(<<a, b, c>> \o t)), c)
         /\ Tail(Tail(Tail(<<a, b, c>> \o t))) = t
<1> DEFINE s == <<a, b, c>>
<1>1. s \in Seq(ClockWrites) /\ s # <<>> /\ Head(s) = a /\ Tail(s) = <<b, c>>
  OBVIOUS
<1> HIDE DEF s
<1>2. /\ s \o t # <<>> /\ s \o t \in Seq(ClockWrites)
      /\ Head(s \o t) = Head(s) /\ Tail(s \o t) = Tail(s) \o t
  BY <1>1, JoinStarts
<1>3. /\ Starts(<<b, c>> \o t, b)
      /\ Starts(Tail(<<b, c>> \o t), c) /\ Tail(Tail(<<b, c>> \o t)) = t
  BY TwoThen
<1> QED BY <1>1, <1>2, <1>3 DEF Starts, s

\* A sequence that starts with four writes.
FourFirst(todo, a, b, c, d, t) ==
  /\ Starts(todo, a) /\ Starts(Tail(todo), b) /\ Starts(Tail(Tail(todo)), c)
  /\ Starts(Tail(Tail(Tail(todo))), d) /\ Tail(Tail(Tail(Tail(todo)))) = t

\* The same for four writes.
LEMMA FourThen ==
  ASSUME NEW a \in ClockWrites, NEW b \in ClockWrites, NEW c \in ClockWrites, NEW d \in ClockWrites,
         NEW t \in Seq(ClockWrites)
  PROVE  /\ <<a, b, c, d>> \o t \in Seq(ClockWrites)
         /\ FourFirst(<<a, b, c, d>> \o t, a, b, c, d, t)
<1> DEFINE s == <<a, b, c, d>>
<1>1. s \in Seq(ClockWrites) /\ s # <<>> /\ Head(s) = a /\ Tail(s) = <<b, c, d>>
  OBVIOUS
<1> HIDE DEF s
<1>2. /\ s \o t # <<>> /\ s \o t \in Seq(ClockWrites)
      /\ Head(s \o t) = Head(s) /\ Tail(s \o t) = Tail(s) \o t
  BY <1>1, JoinStarts
<1>3. /\ Starts(<<b, c, d>> \o t, b)
      /\ Starts(Tail(<<b, c, d>> \o t), c)
      /\ Starts(Tail(Tail(<<b, c, d>> \o t)), d)
      /\ Tail(Tail(Tail(<<b, c, d>> \o t))) = t
  BY ZenonT(30), ThreeThen
<1> QED BY <1>1, <1>2, <1>3 DEF FourFirst, Starts, s

-----------------------------------------------------------------------------
\* The writes of the functions.
LEMMA WritesAre ==
  /\ <<"wait">> \in ClockWrites /\ <<"toggle">> \in ClockWrites /\ <<"spin">> \in ClockWrites
  /\ <<"config", MODEM_PLL>> \in ClockWrites
  /\ <<"mode", "standby">> \in ClockWrites /\ <<"mode", "powerdown">> \in ClockWrites
  /\ <<"mode", "normal">> \in ClockWrites
  /\ <<"src", SRC_RAW>> \in ClockWrites /\ <<"src", SRC_SCPLL>> \in ClockWrites
  /\ <<"l", 10>> \in ClockWrites
  /\ \A i \in 0..17 : /\ <<"freq", 9 + i>> \in ClockWrites /\ <<"l", 9 + i>> \in ClockWrites
                      /\ <<"speed", i>> \in ClockWrites
<1>1. \A n \in 0..33 : /\ <<"freq", n>> \in ClockWrites /\ <<"l", n>> \in ClockWrites
                       /\ <<"src", n>> \in ClockWrites /\ <<"speed", n>> \in ClockWrites
  BY DEF ClockWrites
<1>2. 0 \in 0..33 /\ 1 \in 0..33 /\ 10 \in 0..33
      /\ (\A i \in 0..17 : i \in 0..33 /\ 9 + i \in 0..33)
  OBVIOUS
<1>3. /\ <<"wait">> \in ClockWrites /\ <<"toggle">> \in ClockWrites /\ <<"spin">> \in ClockWrites
      /\ <<"config", MODEM_PLL>> \in ClockWrites
      /\ <<"mode", "standby">> \in ClockWrites /\ <<"mode", "powerdown">> \in ClockWrites
      /\ <<"mode", "normal">> \in ClockWrites
  BY DEF ClockWrites
<1> QED BY <1>1, <1>2, <1>3 DEF SRC_RAW, SRC_SCPLL

\* The table's speeds.
LEMMA Speeds ==
  /\ acpu_freq_tbl[0].khz = 245000 /\ acpu_freq_tbl[0].cfg = MODEM_PLL
  /\ acpu_freq_tbl[0].sel = SRC_RAW
  /\ \A i \in 1..17 : /\ acpu_freq_tbl[i].khz = 38400 * (9 + i)
                      /\ acpu_freq_tbl[i].sel = SRC_SCPLL
                      /\ acpu_freq_tbl[i].l = 9 + i
<1>1. 0 \in 0..17 /\ \A i \in 1..17 : i \in 0..17 /\ i # 0
  OBVIOUS
<1> QED BY <1>1 DEF acpu_freq_tbl

\* Stepping aside, then the rest.
LEMMA StandByThen ==
  ASSUME NEW t \in Seq(ClockWrites)
  PROVE  /\ StandBy \o t \in Seq(ClockWrites) /\ StandBy \in Seq(ClockWrites)
         /\ Starts(StandBy \o t, <<"config", MODEM_PLL>>)
         /\ Starts(Tail(StandBy \o t), <<"toggle">>)
         /\ Starts(Tail(Tail(StandBy \o t)), <<"src", SRC_RAW>>)
         /\ Tail(Tail(Tail(StandBy \o t))) = t
<1> DEFINE a == <<"config", MODEM_PLL>>
           b == <<"toggle">>
           c == <<"src", SRC_RAW>>
<1>1. a \in ClockWrites /\ b \in ClockWrites /\ c \in ClockWrites
  BY WritesAre
<1>2. StandBy = <<a, b>> \o <<c>>
  BY Speeds DEF StandBy, select_clock, acpu_stby, SRC_RAW
<1> HIDE DEF a, b, c
<1>3. <<a, b>> \in Seq(ClockWrites) /\ <<c>> \in Seq(ClockWrites)
  BY <1>1
<1>4. StandBy \o t = <<a, b>> \o (<<c>> \o t)
  <2> DEFINE p == <<a, b>>
             q == <<c>>
  <2>1. p \in Seq(ClockWrites) /\ q \in Seq(ClockWrites) /\ StandBy = p \o q
    BY <1>2, <1>3
  <2> HIDE DEF p, q
  <2>2. (p \o q) \o t = p \o (q \o t)
    BY SMTT(30), <2>1, ConcatAssociative
  <2> QED BY <2>1, <2>2 DEF p, q
<1> DEFINE r == <<c>> \o t
<1>5. r \in Seq(ClockWrites) /\ Starts(r, c) /\ Tail(r) = t
  BY <1>1, OneThen
<1> HIDE DEF r
<1>6. /\ <<a, b>> \o r \in Seq(ClockWrites)
      /\ Starts(<<a, b>> \o r, a)
      /\ Starts(Tail(<<a, b>> \o r), b) /\ Tail(Tail(<<a, b>> \o r)) = r
  BY <1>1, <1>5, TwoThen
<1>7. StandBy \in Seq(ClockWrites)
  BY <1>1, <1>2, <1>3, TwoThen
<1> QED BY <1>4, <1>5, <1>6, <1>7 DEF r, a, b, c

\* Switching to the PLL, then the rest.
LEMMA SrcThen ==
  ASSUME NEW t \in Seq(ClockWrites)
  PROVE  /\ select_clock(SRC_SCPLL, 0) \in Seq(ClockWrites)
         /\ select_clock(SRC_SCPLL, 0) \o t \in Seq(ClockWrites)
         /\ Starts(select_clock(SRC_SCPLL, 0) \o t, <<"src", SRC_SCPLL>>)
         /\ Tail(select_clock(SRC_SCPLL, 0) \o t) = t
<1> DEFINE a == <<"src", SRC_SCPLL>>
           s == <<a>>
<1>1. a \in ClockWrites
  BY WritesAre
<1>2. s \in Seq(ClockWrites)
  <2> HIDE DEF a
  <2> QED BY <1>1
<1>3. <<>> \o s = s
  <2> HIDE DEF s
  <2> QED BY <1>2, ConcatEmptySeq
<1>4. select_clock(SRC_SCPLL, 0) = s
  <2>1. select_clock(SRC_SCPLL, 0) = <<>> \o s
    BY DEF select_clock, SRC_SCPLL, SRC_RAW
  <2> QED BY <1>3, <2>1
<1> HIDE DEF a
<1> QED BY <1>1, <1>2, <1>4, OneThen DEF a

\* Powering the PLL down, then the rest.
LEMMA PowerDownThen ==
  ASSUME NEW t \in Seq(ClockWrites)
  PROVE  /\ scpll_power_down \in Seq(ClockWrites) /\ scpll_power_down \o t \in Seq(ClockWrites)
         /\ Starts(scpll_power_down \o t, <<"wait">>)
         /\ Starts(Tail(scpll_power_down \o t), <<"mode", "standby">>)
         /\ Starts(Tail(Tail(scpll_power_down \o t)), <<"mode", "powerdown">>)
         /\ Tail(Tail(Tail(scpll_power_down \o t))) = t
<1> DEFINE a == <<"wait">>
           b == <<"mode", "standby">>
           c == <<"mode", "powerdown">>
<1>1. a \in ClockWrites /\ b \in ClockWrites /\ c \in ClockWrites
  BY WritesAre
<1>2. scpll_power_down = <<a, b, c>>
  BY DEF scpll_power_down
<1> HIDE DEF a, b, c
<1>3. <<a, b, c>> \in Seq(ClockWrites)
  BY <1>1
<1> QED BY <1>1, <1>2, <1>3, ThreeThen DEF a, b, c

\* The start of setting the PLL's frequency, then the rest.
LEMMA SetFreqThen ==
  ASSUME NEW i \in 1..17, NEW t \in Seq(ClockWrites)
  PROVE  /\ scpll_set_freq(9 + i) \in Seq(ClockWrites) /\ scpll_set_freq(9 + i)
            \o t \in Seq(ClockWrites)
         /\ Starts(scpll_set_freq(9 + i) \o t, <<"wait">>)
         /\ Starts(Tail(scpll_set_freq(9 + i) \o t), <<"freq", 9 + i>>)
         /\ Tail(Tail(scpll_set_freq(9 + i) \o t)) = t
<1> DEFINE a == <<"wait">>
           b == <<"freq", 9 + i>>
<1>1. a \in ClockWrites /\ b \in ClockWrites
  <2>1. i \in 0..17
    OBVIOUS
  <2> QED BY <2>1, WritesAre
<1>2. scpll_set_freq(9 + i) = <<a, b>>
  BY DEF scpll_set_freq
<1> HIDE DEF a, b
<1>3. <<a, b>> \in Seq(ClockWrites)
  BY <1>1
<1>4. /\ <<a, b>> \o t \in Seq(ClockWrites)
      /\ Starts(<<a, b>> \o t, a)
      /\ Starts(Tail(<<a, b>> \o t), b) /\ Tail(Tail(<<a, b>> \o t)) = t
  BY <1>1, TwoThen
<1> QED BY <1>2, <1>3, <1>4 DEF a, b

\* The rest of setting the frequency, and then the switch to the PLL.
LEMMA SetsFreqThen ==
  ASSUME NEW i \in 1..17, NEW cur, NEW t \in Seq(ClockWrites), AtSrc(t, i, cur)
  PROVE  /\ SetsFreq(9 + i) \o t \in Seq(ClockWrites)
         /\ IF scpll.mode = "normal" THEN AtLastL(SetsFreq(9 + i) \o t, i, cur)
            ELSE AtStandby(SetsFreq(9 + i) \o t, i, cur)
<1> DEFINE a == <<"mode", "standby">>
           b == <<"l", 10>>
           c == <<"mode", "normal">>
           w == <<"wait">>
           l == <<"l", 9 + i>>
           p == <<a, b, c, w>>
           q == <<l, c, w>>
<1>1. a \in ClockWrites /\ b \in ClockWrites /\ c \in ClockWrites /\ w \in ClockWrites
      /\ l \in ClockWrites
  <2>1. i \in 0..17
    OBVIOUS
  <2> QED BY <2>1, WritesAre
<1>2. SetsFreq(9 + i) = (IF scpll.mode = "normal" THEN <<>> ELSE p) \o q
  BY DEF SetsFreq
<1>3. p \in Seq(ClockWrites) /\ q \in Seq(ClockWrites)
  <2> HIDE DEF a, b, c, w, l
  <2> QED BY <1>1
<1>4. /\ q \o t \in Seq(ClockWrites) /\ Starts(q \o t, l) /\ Starts(Tail(q \o t), c)
      /\ Starts(Tail(Tail(q \o t)), w) /\ Tail(Tail(Tail(q \o t))) = t
  <2> HIDE DEF a, b, c, w, l
  <2> QED BY ZenonT(30), <1>1, ThreeThen
<1> DEFINE r == q \o t
<1>5. r \in Seq(ClockWrites) /\ AtLastL(r, i, cur)
  BY <1>4 DEF AtLastL, AtLastMode, AtLastWait
<1> HIDE DEF r
<1>6. CASE scpll.mode = "normal"
  <2>1. SetsFreq(9 + i) = <<>> \o q
    BY <1>2, <1>6
  <2> HIDE DEF q
  <2>2. <<>> \o q = q
    BY <1>3, ConcatEmptySeq
  <2> QED BY <1>5, <1>6, <2>1, <2>2 DEF r
<1>7. CASE scpll.mode # "normal"
  <2>1. SetsFreq(9 + i) = p \o q
    BY <1>2, <1>7
  <2>2. (p \o q) \o t = p \o r
    <3> HIDE DEF p, q
    <3> QED BY SMTT(30), <1>3, ConcatAssociative DEF r
  <2>3. p \o r \in Seq(ClockWrites) /\ FourFirst(p \o r, a, b, c, w, r)
    <3> HIDE DEF a, b, c, w
    <3>1. r \in Seq(ClockWrites)
      BY <1>5
    <3> QED BY <1>1, <3>1, FourThen
  <2>4. AtStandby(p \o r, i, cur)
    BY <1>5, <2>3 DEF FourFirst, AtStandby, AtFirstL, AtFirstMode, AtFirstWait
  <2> QED BY <1>7, <2>1, <2>2, <2>3, <2>4
<1> QED BY <1>6, <1>7

-----------------------------------------------------------------------------
(* What each write does.                                                    *)

\* The write that is done is taken off.
LEMMA OneLess ==
  ASSUME NEW write, acpuTodo \in Seq(ClockWrites), Starts(acpuTodo, write)
  PROVE  Tail(acpuTodo) \in Seq(ClockWrites) /\ Head(acpuTodo) = write /\ acpuTodo # <<>>
BY HeadTailProperties DEF Starts

\* Waiting for the PLL.
LEMMA WaitStep ==
  ASSUME AcpuTypeOK, acpuTodo \in Seq(ClockWrites), AcpuStep, Starts(acpuTodo, <<"wait">>)
  PROVE  /\ AcpuTypeOK' /\ acpuTodo' \in Seq(ClockWrites)
         /\ ~scpll.busy /\ acpuTodo' = Tail(acpuTodo)
         /\ UNCHANGED <<clkSel, clkCntl, scpll, current_speed>>
<1>1. Tail(acpuTodo) \in Seq(ClockWrites) /\ Head(acpuTodo) = <<"wait">>
  BY OneLess
<1>2. /\ ~scpll.busy /\ acpuTodo' = Tail(acpuTodo)
      /\ UNCHANGED <<clkSel, clkCntl, scpll, current_speed>>
  BY <1>1 DEF AcpuStep
<1> QED BY <1>1, <1>2 DEF AcpuTypeOK

\* The frequency is set.
LEMMA FreqStep ==
  ASSUME AcpuTypeOK, acpuTodo \in Seq(ClockWrites), AcpuStep,
         NEW n, Starts(acpuTodo, <<"freq", n>>)
  PROVE  /\ AcpuTypeOK' /\ acpuTodo' = SetsFreq(n) \o Tail(acpuTodo)
         /\ UNCHANGED <<clkSel, clkCntl, scpll, current_speed>>
<1>1. Tail(acpuTodo) \in Seq(ClockWrites) /\ Head(acpuTodo) = <<"freq", n>>
  BY OneLess
<1> DEFINE op == Head(acpuTodo)
<1>2. op[1] = "freq" /\ op[2] = n
  BY <1>1
<1>3. /\ acpuTodo' = SetsFreq(n) \o Tail(acpuTodo)
      /\ UNCHANGED <<clkSel, clkCntl, scpll, current_speed>>
  BY <1>2 DEF AcpuStep
<1> QED BY <1>3 DEF AcpuTypeOK

\* A source is configured in the other half.
LEMMA ConfigStep ==
  ASSUME AcpuTypeOK, acpuTodo \in Seq(ClockWrites), AcpuStep,
         Starts(acpuTodo, <<"config", MODEM_PLL>>)
  PROVE  /\ AcpuTypeOK' /\ acpuTodo' \in Seq(ClockWrites) /\ acpuTodo' = Tail(acpuTodo)
         /\ OtherHalf \in 0..1 /\ clkCntl' = [clkCntl EXCEPT ![OtherHalf] = MODEM_PLL]
         /\ clkCntl'[OtherHalf] = MODEM_PLL
         /\ UNCHANGED <<clkSel, scpll, current_speed>>
<1>1. Tail(acpuTodo) \in Seq(ClockWrites) /\ Head(acpuTodo) = <<"config", MODEM_PLL>>
  BY OneLess
<1>2. /\ acpuTodo' = Tail(acpuTodo) /\ clkCntl' = [clkCntl EXCEPT ![OtherHalf] = MODEM_PLL]
      /\ UNCHANGED <<clkSel, scpll, current_speed>>
  <2> DEFINE op == Head(acpuTodo)
  <2>1. op[1] = "config" /\ op[2] = MODEM_PLL
    BY <1>1
  <2>2. acpuTodo' = Tail(acpuTodo)
    BY <2>1 DEF AcpuStep
  <2>3. clkCntl' = [clkCntl EXCEPT ![OtherHalf] = MODEM_PLL]
    BY <2>1 DEF AcpuStep
  <2>4. UNCHANGED <<clkSel, scpll, current_speed>>
    BY <2>1 DEF AcpuStep
  <2> QED BY <2>2, <2>3, <2>4
<1>3. OtherHalf \in 0..1
  BY DEF OtherHalf, AcpuTypeOK
<1> QED BY <1>1, <1>2, <1>3 DEF AcpuTypeOK

\* The halves change places.
LEMMA ToggleStep ==
  ASSUME AcpuTypeOK, acpuTodo \in Seq(ClockWrites), AcpuStep, Starts(acpuTodo, <<"toggle">>)
  PROVE  /\ AcpuTypeOK' /\ acpuTodo' \in Seq(ClockWrites) /\ acpuTodo' = Tail(acpuTodo)
         /\ clkSel'.half = OtherHalf /\ clkSel'.src = clkSel.src
         /\ UNCHANGED <<clkCntl, scpll, current_speed>>
<1>1. Tail(acpuTodo) \in Seq(ClockWrites) /\ Head(acpuTodo) = <<"toggle">>
  BY OneLess
<1>2. /\ acpuTodo' = Tail(acpuTodo) /\ clkSel' = [clkSel EXCEPT !.half = OtherHalf]
      /\ UNCHANGED <<clkCntl, scpll, current_speed>>
  BY <1>1 DEF AcpuStep
<1>3. OtherHalf \in 0..1
  BY DEF OtherHalf, AcpuTypeOK
<1> QED BY <1>1, <1>2, <1>3 DEF AcpuTypeOK

\* The processor's source is chosen.
LEMMA SrcStep ==
  ASSUME AcpuTypeOK, acpuTodo \in Seq(ClockWrites), AcpuStep,
         NEW n \in 0..1, Starts(acpuTodo, <<"src", n>>)
  PROVE  /\ AcpuTypeOK' /\ acpuTodo' \in Seq(ClockWrites) /\ acpuTodo' = Tail(acpuTodo)
         /\ clkSel'.half = clkSel.half /\ clkSel'.src = n
         /\ UNCHANGED <<clkCntl, scpll, current_speed>>
<1>1. Tail(acpuTodo) \in Seq(ClockWrites) /\ Head(acpuTodo) = <<"src", n>>
  BY OneLess
<1>2. /\ acpuTodo' = Tail(acpuTodo) /\ clkSel' = [clkSel EXCEPT !.src = n]
      /\ UNCHANGED <<clkCntl, scpll, current_speed>>
  BY <1>1 DEF AcpuStep
<1> QED BY <1>1, <1>2 DEF AcpuTypeOK

\* The PLL's mode is set; it is busy on its way to normal.
LEMMA ModeStep ==
  ASSUME AcpuTypeOK, acpuTodo \in Seq(ClockWrites), AcpuStep,
         NEW m \in {"normal", "standby", "powerdown"}, Starts(acpuTodo, <<"mode", m>>)
  PROVE  /\ AcpuTypeOK' /\ acpuTodo' \in Seq(ClockWrites) /\ acpuTodo' = Tail(acpuTodo)
         /\ scpll'.mode = m /\ scpll'.l = scpll.l
         /\ UNCHANGED <<clkSel, clkCntl, current_speed>>
<1>1. Tail(acpuTodo) \in Seq(ClockWrites) /\ Head(acpuTodo) = <<"mode", m>>
  BY OneLess
<1> DEFINE first == [scpll EXCEPT !.mode = m]
<1>2. /\ acpuTodo' = Tail(acpuTodo) /\ scpll' = [first EXCEPT !.busy = m = "normal"]
      /\ UNCHANGED <<clkSel, clkCntl, current_speed>>
  <2> DEFINE op == Head(acpuTodo)
             last == [scpll EXCEPT !.mode = op[2], !.busy = op[2] = "normal"]
  <2>1. op[1] = "mode" /\ op[2] = m
    BY <1>1
  <2>2. acpuTodo' = Tail(acpuTodo)
    BY <2>1 DEF AcpuStep
  <2>3. UNCHANGED <<clkSel, clkCntl, current_speed>>
    BY <2>1 DEF AcpuStep
  <2>4. scpll' = last
    <3> HIDE DEF last
    <3> QED BY <2>1 DEF AcpuStep, last
  <2>5. last = [first EXCEPT !.busy = m = "normal"]
    BY <2>1
  <2> QED BY <2>2, <2>3, <2>4, <2>5
<1>3. /\ first \in [mode : {"normal", "standby", "powerdown"}, l : 10..33, busy : BOOLEAN]
      /\ first.mode = m /\ first.l = scpll.l
  BY DEF AcpuTypeOK
<1> HIDE DEF first
<1>4. /\ scpll' \in [mode : {"normal", "standby", "powerdown"}, l : 10..33, busy : BOOLEAN]
      /\ scpll'.mode = m /\ scpll'.l = scpll.l
  BY <1>2, <1>3
<1> QED BY <1>1, <1>2, <1>4 DEF AcpuTypeOK

\* The PLL's multiplier is set.
LEMMA LStep ==
  ASSUME AcpuTypeOK, acpuTodo \in Seq(ClockWrites), AcpuStep,
         NEW n \in 10..33, Starts(acpuTodo, <<"l", n>>)
  PROVE  /\ AcpuTypeOK' /\ acpuTodo' \in Seq(ClockWrites) /\ acpuTodo' = Tail(acpuTodo)
         /\ scpll'.mode = scpll.mode /\ scpll'.l = n
         /\ UNCHANGED <<clkSel, clkCntl, current_speed>>
<1>1. Tail(acpuTodo) \in Seq(ClockWrites) /\ Head(acpuTodo) = <<"l", n>>
  BY OneLess
<1>2. /\ acpuTodo' = Tail(acpuTodo) /\ scpll' = [scpll EXCEPT !.l = n]
      /\ UNCHANGED <<clkSel, clkCntl, current_speed>>
  BY <1>1 DEF AcpuStep
<1> QED BY <1>1, <1>2 DEF AcpuTypeOK

\* The speed is remembered.
LEMMA SpeedStep ==
  ASSUME AcpuTypeOK, acpuTodo \in Seq(ClockWrites), AcpuStep,
         NEW n \in 0..17, Starts(acpuTodo, <<"speed", n>>)
  PROVE  /\ AcpuTypeOK' /\ acpuTodo' \in Seq(ClockWrites) /\ acpuTodo' = Tail(acpuTodo)
         /\ current_speed' = n /\ UNCHANGED <<clkSel, clkCntl, scpll>>
<1>1. Tail(acpuTodo) \in Seq(ClockWrites) /\ Head(acpuTodo) = <<"speed", n>>
  BY OneLess
<1>2. /\ acpuTodo' = Tail(acpuTodo) /\ current_speed' = n
      /\ UNCHANGED <<clkSel, clkCntl, scpll>>
  BY <1>1 DEF AcpuStep
<1> QED BY <1>1, <1>2 DEF AcpuTypeOK

-----------------------------------------------------------------------------
(* The invariant.                                                           *)

\* A write on the way up to a speed of the PLL.
LEMMA UpStep ==
  ASSUME AcpuInv, AcpuStep, current_speed >= 0, OnRaw, NEW i \in 1..17, Rising(i)
  PROVE  AcpuInv'
<1>1. AcpuTypeOK /\ acpuTodo \in Seq(ClockWrites) /\ 9 + i \in 10..33
  BY DEF AcpuInv
<1>2. ASSUME AcpuTypeOK', acpuTodo' \in Seq(ClockWrites), Rising(i)',
             UNCHANGED <<clkSel, clkCntl, current_speed>>
      PROVE  AcpuInv'
  <2>1. OnRaw'
    BY <1>2 DEF OnRaw
  <2>2. GoingUp'
    BY <1>2, <2>1 DEF GoingUp
  <2> QED BY <1>2, <2>2 DEF AcpuInv
<1>3. CASE AtLastWait(acpuTodo, i, current_speed) /\ scpll.mode = "normal" /\ scpll.l = 9 + i
  <2>1. Starts(acpuTodo, <<"wait">>)
    BY <1>3 DEF AtLastWait
  <2>2. AcpuTypeOK' /\ acpuTodo' \in Seq(ClockWrites) /\ acpuTodo' = Tail(acpuTodo)
    BY <1>1, <2>1, WaitStep
  <2>3. UNCHANGED <<clkSel, clkCntl, current_speed>> /\ ~scpll.busy /\ scpll' = scpll
    BY <1>1, <2>1, WaitStep
  <2>4. AtSrc(acpuTodo', i, current_speed')
    BY <1>3, <2>2, <2>3 DEF AtLastWait
  <2>5. Rising(i)'
    BY <1>3, <2>3, <2>4 DEF Rising, Steady
  <2> QED BY <1>2, <2>2, <2>3, <2>5
<1>4. CASE AtLastMode(acpuTodo, i, current_speed) /\ scpll.l = 9 + i
  <2>1. Starts(acpuTodo, <<"mode", "normal">>)
    BY <1>4 DEF AtLastMode
  <2>2. AcpuTypeOK' /\ acpuTodo' \in Seq(ClockWrites) /\ acpuTodo' = Tail(acpuTodo)
    BY <1>1, <2>1, ModeStep
  <2>3. UNCHANGED <<clkSel, clkCntl, current_speed>> /\ scpll'.mode = "normal" /\ scpll'.l = scpll.l
    BY <1>1, <2>1, ModeStep
  <2>4. AtLastWait(acpuTodo', i, current_speed')
    BY <1>4, <2>2, <2>3 DEF AtLastMode
  <2>5. Rising(i)'
    BY <1>4, <2>3, <2>4 DEF Rising
  <2> QED BY <1>2, <2>2, <2>3, <2>5
<1>5. CASE AtLastL(acpuTodo, i, current_speed)
  <2>1. Starts(acpuTodo, <<"l", 9 + i>>)
    BY <1>5 DEF AtLastL
  <2>2. AcpuTypeOK' /\ acpuTodo' \in Seq(ClockWrites) /\ acpuTodo' = Tail(acpuTodo)
    BY <1>1, <2>1, LStep
  <2>3. UNCHANGED <<clkSel, clkCntl, current_speed>> /\ scpll'.l = 9 + i
    BY <1>1, <2>1, LStep
  <2>4. AtLastMode(acpuTodo', i, current_speed')
    BY <1>5, <2>2, <2>3 DEF AtLastL
  <2>5. Rising(i)'
    BY <1>5, <2>3, <2>4 DEF Rising
  <2> QED BY <1>2, <2>2, <2>3, <2>5
<1>6. CASE AtFirstWait(acpuTodo, i, current_speed)
  <2>1. Starts(acpuTodo, <<"wait">>)
    BY <1>6 DEF AtFirstWait
  <2>2. AcpuTypeOK' /\ acpuTodo' \in Seq(ClockWrites) /\ acpuTodo' = Tail(acpuTodo)
    BY <1>1, <2>1, WaitStep
  <2>3. UNCHANGED <<clkSel, clkCntl, current_speed>>
    BY <1>1, <2>1, WaitStep
  <2>4. AtLastL(acpuTodo', i, current_speed')
    BY <1>6, <2>2, <2>3 DEF AtFirstWait
  <2>5. Rising(i)'
    BY <1>6, <2>3, <2>4 DEF Rising
  <2> QED BY <1>2, <2>2, <2>3, <2>5
<1>7. CASE AtFirstMode(acpuTodo, i, current_speed)
  <2>1. Starts(acpuTodo, <<"mode", "normal">>)
    BY <1>7 DEF AtFirstMode
  <2>2. AcpuTypeOK' /\ acpuTodo' \in Seq(ClockWrites) /\ acpuTodo' = Tail(acpuTodo)
    BY <1>1, <2>1, ModeStep
  <2>3. UNCHANGED <<clkSel, clkCntl, current_speed>>
    BY <1>1, <2>1, ModeStep
  <2>4. AtFirstWait(acpuTodo', i, current_speed')
    BY <1>7, <2>2, <2>3 DEF AtFirstMode
  <2>5. Rising(i)'
    BY <1>7, <2>3, <2>4 DEF Rising
  <2> QED BY <1>2, <2>2, <2>3, <2>5
<1>8. CASE AtFirstL(acpuTodo, i, current_speed)
  <2>1. Starts(acpuTodo, <<"l", 10>>)
    BY <1>8 DEF AtFirstL
  <2>2. AcpuTypeOK' /\ acpuTodo' \in Seq(ClockWrites) /\ acpuTodo' = Tail(acpuTodo)
    BY <1>1, <2>1, LStep
  <2>3. UNCHANGED <<clkSel, clkCntl, current_speed>>
    BY <1>1, <2>1, LStep
  <2>4. AtFirstMode(acpuTodo', i, current_speed')
    BY <1>8, <2>2, <2>3 DEF AtFirstL
  <2>5. Rising(i)'
    BY <1>8, <2>3, <2>4 DEF Rising
  <2> QED BY <1>2, <2>2, <2>3, <2>5
<1>9. CASE AtStandby(acpuTodo, i, current_speed)
  <2>1. Starts(acpuTodo, <<"mode", "standby">>)
    BY <1>9 DEF AtStandby
  <2>2. AcpuTypeOK' /\ acpuTodo' \in Seq(ClockWrites) /\ acpuTodo' = Tail(acpuTodo)
    BY <1>1, <2>1, ModeStep
  <2>3. UNCHANGED <<clkSel, clkCntl, current_speed>>
    BY <1>1, <2>1, ModeStep
  <2>4. AtFirstL(acpuTodo', i, current_speed')
    BY <1>9, <2>2, <2>3 DEF AtStandby
  <2>5. Rising(i)'
    BY <1>9, <2>3, <2>4 DEF Rising
  <2> QED BY <1>2, <2>2, <2>3, <2>5
<1>10. CASE AtSetFreq(acpuTodo, i, current_speed)
  <2>1. Starts(acpuTodo, <<"wait">>)
    BY <1>10 DEF AtSetFreq
  <2>2. AcpuTypeOK' /\ acpuTodo' \in Seq(ClockWrites) /\ acpuTodo' = Tail(acpuTodo)
    BY <1>1, <2>1, WaitStep
  <2>3. UNCHANGED <<clkSel, clkCntl, current_speed>>
    BY <1>1, <2>1, WaitStep
  <2>4. AtFreq(acpuTodo', i, current_speed')
    BY <1>10, <2>2, <2>3 DEF AtSetFreq
  <2>5. Rising(i)'
    BY <1>10, <2>3, <2>4 DEF Rising
  <2> QED BY <1>2, <2>2, <2>3, <2>5
<1>11. CASE AtOff(acpuTodo, i, current_speed)
  <2>1. Starts(acpuTodo, <<"mode", "powerdown">>)
    BY <1>11 DEF AtOff
  <2>2. AcpuTypeOK' /\ acpuTodo' \in Seq(ClockWrites) /\ acpuTodo' = Tail(acpuTodo)
    BY <1>1, <2>1, ModeStep
  <2>3. UNCHANGED <<clkSel, clkCntl, current_speed>>
    BY <1>1, <2>1, ModeStep
  <2>4. AtSetFreq(acpuTodo', i, current_speed')
    BY <1>11, <2>2, <2>3 DEF AtOff
  <2>5. Rising(i)'
    BY <1>11, <2>3, <2>4 DEF Rising
  <2> QED BY <1>2, <2>2, <2>3, <2>5
<1>12. CASE AtOffStandby(acpuTodo, i, current_speed)
  <2>1. Starts(acpuTodo, <<"mode", "standby">>)
    BY <1>12 DEF AtOffStandby
  <2>2. AcpuTypeOK' /\ acpuTodo' \in Seq(ClockWrites) /\ acpuTodo' = Tail(acpuTodo)
    BY <1>1, <2>1, ModeStep
  <2>3. UNCHANGED <<clkSel, clkCntl, current_speed>>
    BY <1>1, <2>1, ModeStep
  <2>4. AtOff(acpuTodo', i, current_speed')
    BY <1>12, <2>2, <2>3 DEF AtOffStandby
  <2>5. Rising(i)'
    BY <1>12, <2>3, <2>4 DEF Rising
  <2> QED BY <1>2, <2>2, <2>3, <2>5
<1>13. CASE AtOffWait(acpuTodo, i, current_speed)
  <2>1. Starts(acpuTodo, <<"wait">>)
    BY <1>13 DEF AtOffWait
  <2>2. AcpuTypeOK' /\ acpuTodo' \in Seq(ClockWrites) /\ acpuTodo' = Tail(acpuTodo)
    BY <1>1, <2>1, WaitStep
  <2>3. UNCHANGED <<clkSel, clkCntl, current_speed>>
    BY <1>1, <2>1, WaitStep
  <2>4. AtOffStandby(acpuTodo', i, current_speed')
    BY <1>13, <2>2, <2>3 DEF AtOffWait
  <2>5. Rising(i)'
    BY <1>13, <2>3, <2>4 DEF Rising
  <2> QED BY <1>2, <2>2, <2>3, <2>5
<1>14. CASE AtFreq(acpuTodo, i, current_speed)
  <2>1. Starts(acpuTodo, <<"freq", 9 + i>>) /\ AtSrc(Tail(acpuTodo), i, current_speed)
    BY <1>14 DEF AtFreq
  <2>2. /\ AcpuTypeOK' /\ acpuTodo' = SetsFreq(9 + i) \o Tail(acpuTodo)
        /\ UNCHANGED <<clkSel, clkCntl, current_speed>>
    BY <1>1, <2>1, FreqStep
  <2>3. Tail(acpuTodo) \in Seq(ClockWrites)
    BY <1>1, <2>1, OneLess
  <2>4. /\ acpuTodo' \in Seq(ClockWrites)
        /\ AtLastL(acpuTodo', i, current_speed') \/ AtStandby(acpuTodo', i, current_speed')
    BY <2>1, <2>2, <2>3, SetsFreqThen
  <2>5. Rising(i)'
    BY <2>4 DEF Rising
  <2> QED BY <1>2, <2>2, <2>4, <2>5
<1>15. CASE AtSrc(acpuTodo, i, current_speed) /\ Steady /\ scpll.l = 9 + i
  <2> DEFINE one == SRC_SCPLL
  <2>1. one \in 0..1 /\ Starts(acpuTodo, <<"src", one>>) /\ Ends(Tail(acpuTodo), i, current_speed)
    BY <1>15 DEF AtSrc, SRC_SCPLL
  <2> HIDE DEF one
  <2>2. /\ AcpuTypeOK' /\ acpuTodo' \in Seq(ClockWrites) /\ acpuTodo' = Tail(acpuTodo)
        /\ clkSel'.src = one /\ UNCHANGED <<clkCntl, scpll, current_speed>>
    BY <1>1, <2>1, SrcStep
  <2>3. Ends(acpuTodo', i, current_speed')
    BY <2>1, <2>2
  <2>4. Settled'
    BY <1>15, <2>2, <2>3 DEF Settled, Steady, one
  <2> QED BY <2>2, <2>4 DEF AcpuInv
<1> QED
  BY <1>3, <1>4, <1>5, <1>6, <1>7, <1>8, <1>9, <1>10, <1>11, <1>12, <1>13, <1>14, <1>15 DEF Rising

\* A write on the way down to the standby clock.
LEMMA DownStep ==
  ASSUME AcpuInv, AcpuStep, GoingDown
  PROVE  AcpuInv'
<1>1. AcpuTypeOK /\ acpuTodo \in Seq(ClockWrites) /\ current_speed >= 0 /\ OnRaw
  BY DEF AcpuInv, GoingDown
<1>2. ASSUME AcpuTypeOK', acpuTodo' \in Seq(ClockWrites), GoingDown' PROVE AcpuInv'
  BY <1>2 DEF AcpuInv
<1>3. CASE DownOff(acpuTodo, current_speed)
  <2>1. Starts(acpuTodo, <<"mode", "powerdown">>) /\ Ends(Tail(acpuTodo), 0, current_speed)
    BY <1>3 DEF DownOff
  <2>2. /\ AcpuTypeOK' /\ acpuTodo' \in Seq(ClockWrites) /\ acpuTodo' = Tail(acpuTodo)
        /\ scpll'.mode = "powerdown" /\ UNCHANGED <<clkSel, clkCntl, current_speed>>
    BY <1>1, <2>1, ModeStep
  <2>3. OnRaw' /\ Ends(acpuTodo', 0, current_speed')
    BY <1>1, <2>1, <2>2 DEF OnRaw
  <2>4. Settled'
    BY <2>2, <2>3 DEF Settled
  <2> QED BY <2>2, <2>4 DEF AcpuInv
<1>4. CASE DownStandby(acpuTodo, current_speed)
  <2>1. Starts(acpuTodo, <<"mode", "standby">>)
    BY <1>4 DEF DownStandby
  <2>2. /\ AcpuTypeOK' /\ acpuTodo' \in Seq(ClockWrites) /\ acpuTodo' = Tail(acpuTodo)
        /\ UNCHANGED <<clkSel, clkCntl, current_speed>>
    BY <1>1, <2>1, ModeStep
  <2>3. OnRaw' /\ DownOff(acpuTodo', current_speed')
    BY <1>1, <1>4, <2>2 DEF OnRaw, DownStandby
  <2> QED BY <1>1, <1>2, <2>2, <2>3 DEF GoingDown
<1>5. CASE DownWait(acpuTodo, current_speed)
  <2>1. Starts(acpuTodo, <<"wait">>)
    BY <1>5 DEF DownWait
  <2>2. /\ AcpuTypeOK' /\ acpuTodo' \in Seq(ClockWrites) /\ acpuTodo' = Tail(acpuTodo)
        /\ UNCHANGED <<clkSel, clkCntl, current_speed>>
    BY <1>1, <2>1, WaitStep
  <2>3. OnRaw' /\ DownStandby(acpuTodo', current_speed')
    BY <1>1, <1>5, <2>2 DEF OnRaw, DownWait
  <2> QED BY <1>1, <1>2, <2>2, <2>3 DEF GoingDown
<1>6. CASE DownSrc(acpuTodo, current_speed)
  <2> DEFINE zero == SRC_RAW
  <2>1. zero \in 0..1 /\ Starts(acpuTodo, <<"src", zero>>)
    BY <1>6 DEF DownSrc, SRC_RAW
  <2> HIDE DEF zero
  <2>2. /\ AcpuTypeOK' /\ acpuTodo' \in Seq(ClockWrites) /\ acpuTodo' = Tail(acpuTodo)
        /\ clkSel'.half = clkSel.half /\ clkSel'.src = zero
        /\ UNCHANGED <<clkCntl, current_speed>>
    BY <1>1, <2>1, SrcStep
  <2>3. OnRaw' /\ DownWait(acpuTodo', current_speed')
    BY <1>1, <1>6, <2>2 DEF OnRaw, DownSrc, zero
  <2> QED BY <1>1, <1>2, <2>2, <2>3 DEF GoingDown
<1>7. CASE DownConfig(acpuTodo, current_speed)
  <2>1. Starts(acpuTodo, <<"config", MODEM_PLL>>)
    BY <1>7 DEF DownConfig
  <2>2. /\ AcpuTypeOK' /\ acpuTodo' \in Seq(ClockWrites) /\ acpuTodo' = Tail(acpuTodo)
        /\ clkCntl' = [clkCntl EXCEPT ![OtherHalf] = MODEM_PLL]
        /\ clkCntl'[OtherHalf] = MODEM_PLL
        /\ UNCHANGED <<clkSel, current_speed>>
    BY <1>1, <2>1, ConfigStep
  <2>3. OnRaw' /\ DownToggle(acpuTodo', current_speed')
    BY <1>1, <1>7, <2>2 DEF OnRaw, DownConfig, AcpuTypeOK
  <2>4. clkCntl'[OtherHalf'] = MODEM_PLL
    BY <2>2 DEF OtherHalf
  <2> QED BY <1>1, <1>2, <2>2, <2>3, <2>4 DEF GoingDown
<1>8. CASE DownToggle(acpuTodo, current_speed) /\ clkCntl[OtherHalf] = MODEM_PLL
  <2>1. Starts(acpuTodo, <<"toggle">>)
    BY <1>8 DEF DownToggle
  <2>2. /\ AcpuTypeOK' /\ acpuTodo' \in Seq(ClockWrites) /\ acpuTodo' = Tail(acpuTodo)
        /\ clkSel'.half = OtherHalf /\ clkSel'.src = clkSel.src
        /\ UNCHANGED <<clkCntl, current_speed>>
    BY <1>1, <2>1, ToggleStep
  <2>3. OnRaw' /\ DownSrc(acpuTodo', current_speed')
    BY <1>1, <1>8, <2>2 DEF OnRaw, DownToggle
  <2> QED BY <1>1, <1>2, <2>2, <2>3 DEF GoingDown
<1> QED BY <1>3, <1>4, <1>5, <1>6, <1>7, <1>8 DEF GoingDown

\* A write on the way off the PLL.
LEMMA AsideStep ==
  ASSUME AcpuInv, AcpuStep, SteppingAside
  PROVE  AcpuInv'
<1>1. /\ AcpuTypeOK /\ acpuTodo \in Seq(ClockWrites) /\ current_speed >= 0
      /\ clkSel.src \in 1..2 /\ RunsFromSteadyPll
  BY DEF AcpuInv, SteppingAside
<1>2. CASE AsideConfig(acpuTodo, current_speed)
  <2>1. Starts(acpuTodo, <<"config", MODEM_PLL>>)
    BY <1>2 DEF AsideConfig
  <2>2. /\ AcpuTypeOK' /\ acpuTodo' \in Seq(ClockWrites) /\ acpuTodo' = Tail(acpuTodo)
        /\ clkCntl'[OtherHalf] = MODEM_PLL
        /\ UNCHANGED <<clkSel, scpll, current_speed>>
    BY <1>1, <2>1, ConfigStep
  <2>3. AsideToggle(acpuTodo', current_speed') /\ RunsFromSteadyPll'
    BY <1>1, <1>2, <2>2 DEF AsideConfig, RunsFromSteadyPll
  <2>4. clkCntl'[OtherHalf'] = MODEM_PLL
    BY <2>2 DEF OtherHalf
  <2>5. SteppingAside'
    BY <1>1, <2>2, <2>3, <2>4 DEF SteppingAside
  <2> QED BY <2>2, <2>5 DEF AcpuInv
<1>3. CASE AsideToggle(acpuTodo, current_speed) /\ clkCntl[OtherHalf] = MODEM_PLL
  <2>1. Starts(acpuTodo, <<"toggle">>)
    BY <1>3 DEF AsideToggle
  <2>2. /\ AcpuTypeOK' /\ acpuTodo' \in Seq(ClockWrites) /\ acpuTodo' = Tail(acpuTodo)
        /\ clkSel'.half = OtherHalf /\ clkSel'.src = clkSel.src
        /\ UNCHANGED <<clkCntl, scpll, current_speed>>
    BY <1>1, <2>1, ToggleStep
  <2>3. AsideSrc(acpuTodo', current_speed') /\ RunsFromSteadyPll'
    BY <1>1, <1>3, <2>2 DEF AsideToggle, RunsFromSteadyPll
  <2>4. SteppingAside'
    BY <1>1, <1>3, <2>2, <2>3 DEF SteppingAside
  <2> QED BY <2>2, <2>4 DEF AcpuInv
<1>4. CASE AsideSrc(acpuTodo, current_speed) /\ clkCntl[clkSel.half] = MODEM_PLL
  <2> DEFINE zero == SRC_RAW
  <2>1. zero \in 0..1 /\ Starts(acpuTodo, <<"src", zero>>)
    BY <1>4 DEF AsideSrc, SRC_RAW
  <2> HIDE DEF zero
  <2>2. /\ AcpuTypeOK' /\ acpuTodo' \in Seq(ClockWrites) /\ acpuTodo' = Tail(acpuTodo)
        /\ clkSel'.half = clkSel.half /\ clkSel'.src = zero
        /\ UNCHANGED <<clkCntl, current_speed>>
    BY <1>1, <2>1, SrcStep
  <2>3. OnRaw' /\ Aside(acpuTodo', current_speed')
    BY <1>1, <1>4, <2>2 DEF OnRaw, AsideSrc, zero
  <2>4. GoingUp' \/ GoingDown'
    BY <1>1, <2>2, <2>3 DEF Aside, GoingUp, GoingDown, Rising
  <2> QED BY <2>2, <2>4 DEF AcpuInv
<1> QED BY <1>2, <1>3, <1>4 DEF SteppingAside

\* Every write keeps the invariant.
LEMMA WriteKeeps ==
  ASSUME AcpuInv, AcpuStep
  PROVE  AcpuInv'
<1>1. AcpuTypeOK /\ acpuTodo \in Seq(ClockWrites) /\ acpuTodo # <<>>
  BY DEF AcpuInv, AcpuStep
<1>2. CASE Unstarted
  <2>1. Starts(acpuTodo, <<"spin">>)
    BY <1>1, <1>2 DEF Unstarted
  <2>2. Head(acpuTodo)[1] = "spin"
    BY <2>1 DEF Starts
  <2> QED BY <2>2 DEF AcpuStep
<1>3. CASE Settled
  <2>1. PICK i \in 0..17 :
          /\ Ends(acpuTodo, i, current_speed)
          /\ i >= 1 => clkSel.src = SRC_SCPLL /\ Steady /\ scpll.l = 9 + i
          /\ i = 0 => OnRaw /\ scpll.mode = "powerdown"
    BY <1>3 DEF Settled
  <2>2. Starts(acpuTodo, <<"speed", i>>) /\ Tail(acpuTodo) = <<>>
    BY <1>1, <2>1 DEF Ends
  <2>3. /\ AcpuTypeOK' /\ acpuTodo' \in Seq(ClockWrites) /\ acpuTodo' = Tail(acpuTodo)
        /\ current_speed' = i /\ UNCHANGED <<clkSel, clkCntl, scpll>>
    BY <1>1, <2>2, SpeedStep
  <2>4. Ends(acpuTodo', i, current_speed')
    BY <2>2, <2>3 DEF Ends
  <2>5. Settled'
    <3>1. CASE i >= 1
      <4>1. i \in 1..17
        BY <3>1
      <4>2. clkSel'.src = SRC_SCPLL /\ Steady' /\ scpll'.l = 9 + i
        BY <2>1, <2>3, <3>1 DEF Steady
      <4> QED BY <2>4, <4>1, <4>2 DEF Settled
    <3>2. CASE i = 0
      BY <2>1, <2>3, <2>4, <3>2 DEF Settled, OnRaw
    <3> QED BY <3>1, <3>2
  <2> QED BY <2>3, <2>5 DEF AcpuInv
<1>4. CASE GoingUp
  BY <1>4, UpStep DEF GoingUp
<1> QED BY <1>2, <1>3, <1>4, DownStep, AsideStep DEF AcpuInv

\* The PLL settles: the processor never runs from it when it is busy.
LEMMA SettlingKeeps ==
  ASSUME AcpuInv, PllSettles
  PROVE  AcpuInv'
<1>1. /\ AcpuTypeOK' /\ acpuTodo' \in Seq(ClockWrites)
      /\ scpll.busy /\ ~scpll'.busy /\ scpll'.mode = scpll.mode /\ scpll'.l = scpll.l
      /\ UNCHANGED <<clkSel, clkCntl, current_speed, acpuTodo>>
  BY DEF AcpuInv, AcpuTypeOK, PllSettles
<1>2. OnRaw' = OnRaw /\ OtherHalf' = OtherHalf /\ (RunsFromSteadyPll => RunsFromSteadyPll')
  BY <1>1 DEF OnRaw, OtherHalf, RunsFromSteadyPll
<1>3. Unstarted => Unstarted'
  BY <1>1, <1>2 DEF Unstarted
<1>4. Settled => Settled'
  BY <1>1, <1>2 DEF Settled, Steady
<1>5. ASSUME NEW i \in 1..17, Rising(i) PROVE Rising(i)'
  BY <1>1, <1>5 DEF Rising, Steady
<1>6. GoingUp => GoingUp'
  BY <1>1, <1>2, <1>5 DEF GoingUp
<1>7. GoingDown => GoingDown'
  BY <1>1, <1>2 DEF GoingDown
<1>8. SteppingAside => SteppingAside'
  BY <1>1, <1>2 DEF SteppingAside
<1> QED BY <1>1, <1>3, <1>4, <1>6, <1>7, <1>8 DEF AcpuInv

\* What acpuclk_set_rate sets off for another speed of the table.
LEMMA StepsThen ==
  ASSUME NEW cur \in 0..17, NEW next \in 0..17, next # cur
  PROVE  LET todo == Steps(cur, next) \o <<<<"speed", next>>>>
         IN  /\ todo \in Seq(ClockWrites)
             /\ cur = 0 => AtSetFreq(todo, next, cur)
             /\ cur >= 1 => AsideConfig(todo, cur)
<1> DEFINE a == <<"speed", next>>
           e == <<a>>
<1>1. a \in ClockWrites
  BY WritesAre
<1>2. e \in Seq(ClockWrites) /\ e # <<>> /\ Head(e) = a /\ Tail(e) = <<>>
  <2> HIDE DEF a
  <2> QED BY <1>1
<1>3. Ends(e, next, cur)
  BY <1>2 DEF Ends, Starts
<1> HIDE DEF a, e
<1> DEFINE s == select_clock(SRC_SCPLL, 0)
           f == scpll_set_freq(9 + next)
           p == scpll_power_down
           b == StandBy
<1>4. s \in Seq(ClockWrites) /\ p \in Seq(ClockWrites) /\ b \in Seq(ClockWrites)
  BY <1>2, SrcThen, PowerDownThen, StandByThen
<1> DEFINE todo == Steps(cur, next) \o e
<1> SUFFICES /\ todo \in Seq(ClockWrites)
             /\ cur = 0 => AtSetFreq(todo, next, cur)
             /\ cur >= 1 => AsideConfig(todo, cur)
  BY DEF e, a
<1> HIDE DEF todo
<1>5. CASE next >= 1
  <2>1. next \in 1..17 /\ f \in Seq(ClockWrites)
    <3>1. next \in 1..17
      BY <1>5
    <3> QED BY <1>2, <3>1, SetFreqThen
  <2> DEFINE x == s \o e
             y == f \o x
  <2>2. x \in Seq(ClockWrites) /\ AtSrc(x, next, cur)
    BY <1>2, <1>3, SrcThen DEF AtSrc
  <2> HIDE DEF x
  <2>3. y \in Seq(ClockWrites) /\ AtSetFreq(y, next, cur)
    BY <2>1, <2>2, SetFreqThen DEF AtSetFreq, AtFreq
  <2> HIDE DEF y
  <2>4. Steps(cur, next) = ((IF cur = 0 THEN <<>> ELSE b) \o f) \o s
    <3>1. acpu_freq_tbl[next].sel = SRC_SCPLL /\ acpu_freq_tbl[next].l = 9 + next
      <4>1. next \in 1..17
        BY <2>1
      <4> QED BY <4>1, Speeds
    <3> QED BY <3>1 DEF Steps, acpu_stby
  <2> HIDE DEF f, s, b
  <2>5. CASE cur = 0
    <3>1. <<>> \o f = f
      BY <2>1, ConcatEmptySeq
    <3>2. (f \o s) \o e = y
      <4>1. (f \o s) \o e = f \o x
        <5>1. f \in Seq(ClockWrites) /\ s \in Seq(ClockWrites) /\ e \in Seq(ClockWrites)
          BY <1>2, <1>4, <2>1
        <5> QED BY <5>1, Regroup DEF x
      <4> QED BY <4>1 DEF y
    <3>3. todo = y
      BY <2>4, <2>5, <3>1, <3>2 DEF todo
    <3> QED BY <2>3, <2>5, <3>3
  <2>6. CASE cur >= 1
    <3>1. Steps(cur, next) = (b \o f) \o s
      <4>1. cur # 0
        BY <2>6
      <4> QED BY <2>4, <4>1
    <3>2. b \o f \in Seq(ClockWrites)
      BY <1>4, <2>1, Regroup
    <3>3. ((b \o f) \o s) \o e = (b \o f) \o x
      BY <1>2, <1>4, <3>2, Regroup DEF x
    <3>4. (b \o f) \o x = b \o y
      BY <1>4, <2>1, <2>2, Regroup DEF y
    <3>5. b \o y \in Seq(ClockWrites) /\ AsideConfig(b \o y, cur)
      BY <2>1, <2>3, StandByThen DEF b, AsideConfig, AsideToggle, AsideSrc, Aside
    <3> QED BY <2>6, <3>1, <3>3, <3>4, <3>5 DEF todo
  <2> QED BY <2>5, <2>6
<1>6. CASE next = 0
  <2>1. cur \in 1..17
    BY <1>6
  <2> DEFINE x == p \o e
             y == b \o x
  <2>2. x \in Seq(ClockWrites) /\ DownWait(x, cur)
    BY <1>2, <1>3, <1>6, PowerDownThen DEF DownWait, DownStandby, DownOff
  <2> HIDE DEF x
  <2>3. y \in Seq(ClockWrites) /\ DownConfig(y, cur)
    BY <2>2, StandByThen DEF DownConfig, DownToggle, DownSrc
  <2> HIDE DEF y
  <2>4. Steps(cur, next) = (b \o b) \o p
    <3>1. acpu_freq_tbl[next].sel # SRC_SCPLL /\ acpu_freq_tbl[cur].sel = SRC_SCPLL
      BY <1>6, <2>1, Speeds DEF SRC_RAW, SRC_SCPLL
    <3> QED BY <1>6, <3>1 DEF Steps, StandBy, acpu_stby
  <2> HIDE DEF b, p
  <2>5. b \o b \in Seq(ClockWrites)
    BY <1>4, Regroup
  <2>6. ((b \o b) \o p) \o e = (b \o b) \o x
    BY <1>2, <1>4, <2>5, Regroup DEF x
  <2>7. (b \o b) \o x = b \o y
    BY <1>4, <2>2, Regroup DEF y
  <2>8. b \o y \in Seq(ClockWrites) /\ AsideConfig(b \o y, cur)
    BY <2>3, StandByThen DEF b, AsideConfig, AsideToggle, AsideSrc, Aside
  <2> QED BY <2>1, <2>4, <2>6, <2>7, <2>8 DEF todo
<1> QED BY <1>5, <1>6

\* A speed that is asked for.
LEMMA SetRateKeeps ==
  ASSUME AcpuInv, NEW khz, acpuclk_set_rate(khz)
  PROVE  AcpuInv'
<1>1. /\ AcpuTypeOK' /\ acpuTodo = <<>> /\ current_speed \in 0..17
      /\ UNCHANGED <<clkSel, clkCntl, scpll, current_speed>>
  <2>1. UNCHANGED current_speed
    BY DEF acpuclk_set_rate
  <2>2. /\ acpuTodo = <<>> /\ current_speed >= 0
        /\ UNCHANGED <<clkSel, clkCntl, scpll>>
    BY DEF acpuclk_set_rate
  <2> QED BY <2>1, <2>2 DEF AcpuTypeOK, AcpuInv
<1>2. CASE UNCHANGED acpuTodo
  BY <1>1, <1>2 DEF AcpuInv, Unstarted, Settled, GoingUp, GoingDown, SteppingAside, Rising,
                    Steady, OnRaw, OtherHalf, RunsFromSteadyPll
<1>3. CASE \E next \in 0..17 : /\ next # current_speed
                               /\ acpuTodo' = Steps(current_speed, next) \o <<<<"speed", next>>>>
  <2>1. PICK next \in 0..17 : /\ next # current_speed
                              /\ acpuTodo' = Steps(current_speed, next) \o <<<<"speed", next>>>>
    BY <1>3
  <2>2. /\ acpuTodo' \in Seq(ClockWrites)
        /\ current_speed = 0 => AtSetFreq(acpuTodo', next, current_speed)
        /\ current_speed >= 1 => AsideConfig(acpuTodo', current_speed)
    BY <1>1, <2>1, StepsThen
  <2>3. Settled
    BY <1>1 DEF AcpuInv, Unstarted, Settled, GoingUp, GoingDown, SteppingAside, Rising, Starts,
      AtSrc, AtLastWait, AtLastMode, AtLastL, AtFirstWait, AtFirstMode, AtFirstL, AtStandby,
      AtFreq, AtSetFreq, AtOff, AtOffStandby, AtOffWait, DownOff, DownStandby, DownWait,
      DownSrc, DownToggle, DownConfig, AsideSrc, AsideToggle, AsideConfig
  <2>4. CASE current_speed = 0
    <3>1. OnRaw
      BY <1>1, <2>3, <2>4 DEF Settled, Ends, Starts
    <3>2. OnRaw'
      BY <1>1, <3>1 DEF OnRaw
    <3>3. next \in 1..17 /\ AtSetFreq(acpuTodo', next, current_speed')
      BY <1>1, <2>1, <2>2, <2>4
    <3>4. Rising(next)'
      BY <3>3 DEF Rising
    <3>5. current_speed' >= 0
      BY <1>1
    <3>6. GoingUp'
      BY <3>2, <3>3, <3>4, <3>5 DEF GoingUp
    <3> QED BY <1>1, <2>2, <3>6 DEF AcpuInv
  <2>5. CASE current_speed >= 1
    <3>1. clkSel.src = SRC_SCPLL /\ Steady
      BY <1>1, <2>3, <2>5 DEF Settled, Ends, Starts
    <3>2. clkSel'.src \in 1..2 /\ RunsFromSteadyPll'
      BY <1>1, <3>1 DEF RunsFromSteadyPll, Steady, SRC_SCPLL
    <3>3. AsideConfig(acpuTodo', current_speed')
      BY <1>1, <2>2, <2>5
    <3>4. SteppingAside'
      BY <1>1, <3>2, <3>3 DEF SteppingAside
    <3> QED BY <1>1, <2>2, <3>4 DEF AcpuInv
  <2> QED BY <1>1, <2>4, <2>5
<1>4. UNCHANGED acpuTodo
      \/ \E next \in 0..17 : /\ next # current_speed
                             /\ acpuTodo' = Steps(current_speed, next) \o <<<<"speed", next>>>>
  BY <1>1 DEF acpuclk_set_rate
<1> QED BY <1>2, <1>3, <1>4

\* The first speed is asked for.
LEMMA FirstRateKeeps ==
  ASSUME AcpuInv, acpuclk_init
  PROVE  AcpuInv'
<1>1. /\ AcpuTypeOK /\ acpuTodo = <<>> /\ current_speed = -1
      /\ UNCHANGED <<clkSel, clkCntl, scpll>>
  BY DEF acpuclk_init, AcpuTypeOK, AcpuInv
<1>2. RunsFromSteadyPll
  BY <1>1 DEF AcpuInv, Unstarted, Settled, GoingUp, GoingDown, SteppingAside, Ends, Starts,
    AtSrc, AtLastWait, AtLastMode, AtLastL, AtFirstWait, AtFirstMode, AtFirstL, AtStandby,
    AtFreq, AtSetFreq, AtOff, AtOffStandby, AtOffWait, DownOff, DownStandby, DownWait,
    DownSrc, DownToggle, DownConfig, AsideSrc, AsideToggle, AsideConfig
<1> DEFINE i == FirstSpeed
           b == StandBy
           p == scpll_power_down
           f == scpll_set_freq(9 + i)
           s == select_clock(SRC_SCPLL, 0)
           none == <<>>
<1>3. i \in 1..17
  BY AcpuAssumption
<1>4. none \in Seq(ClockWrites)
  OBVIOUS
<1>5. b \in Seq(ClockWrites) /\ p \in Seq(ClockWrites) /\ f \in Seq(ClockWrites)
      /\ s \in Seq(ClockWrites)
  BY <1>3, <1>4, StandByThen, PowerDownThen, SetFreqThen, SrcThen
<1>6. CASE acpuTodo' = <<<<"spin">>>>
  <2>1. current_speed' = current_speed
    BY <1>6 DEF acpuclk_init
  <2>2. <<"spin">> \in ClockWrites
    BY WritesAre
  <2> DEFINE w == <<"spin">>
  <2>3. acpuTodo' \in Seq(ClockWrites) /\ acpuTodo' # <<>> /\ Head(acpuTodo') = w
    <3> HIDE DEF w
    <3>1. w \in ClockWrites /\ acpuTodo' = <<w>>
      BY <1>6, <2>2 DEF w
    <3> QED BY <3>1
  <2>4. Unstarted' /\ AcpuTypeOK'
    BY <1>1, <1>2, <2>1, <2>3 DEF Unstarted, Starts, RunsFromSteadyPll, AcpuTypeOK
  <2> QED BY <2>3, <2>4 DEF AcpuInv
<1>7. CASE acpuTodo' # <<<<"spin">>>>
  <2>1. clkSel.src \in 1..2 /\ current_speed' = i
    BY <1>7 DEF acpuclk_init
  <2>2. acpuTodo' = ((b \o p) \o f) \o s
    <3>1. acpu_freq_tbl[FirstSpeed].l = 9 + FirstSpeed
      BY <1>3, Speeds
    <3> QED BY <1>7, <3>1 DEF acpuclk_init
  <2> DEFINE y == f \o s
             z == p \o y
  <2>3. s \o none = s
    <3> HIDE DEF s
    <3> QED BY <1>5, ConcatEmptySeq
  <2>4. AtSrc(s, i, i)
    <3>1. Starts(s \o none, <<"src", SRC_SCPLL>>) /\ Tail(s \o none) = none
      <4> HIDE DEF none
      <4> QED BY <1>4, SrcThen
    <3> QED BY <2>3, <3>1 DEF AtSrc, Ends
  <2>5. y \in Seq(ClockWrites) /\ AtSetFreq(y, i, i)
    <3> HIDE DEF s
    <3> QED BY <1>3, <1>5, <2>4, SetFreqThen DEF AtSetFreq, AtFreq
  <2> HIDE DEF y
  <2>6. z \in Seq(ClockWrites) /\ AtOffWait(z, i, i)
    BY <2>5, PowerDownThen DEF AtOffWait, AtOffStandby, AtOff
  <2> HIDE DEF z
  <2>7. b \o z \in Seq(ClockWrites) /\ AsideConfig(b \o z, i)
    BY <1>3, <2>6, StandByThen DEF AsideConfig, AsideToggle, AsideSrc, Aside
  <2> HIDE DEF b, p, f, s
  <2>8. b \o p \in Seq(ClockWrites) /\ (b \o p) \o f \in Seq(ClockWrites)
    BY <1>5, Regroup
  <2>9. ((b \o p) \o f) \o s = (b \o p) \o y
    <3>1. b \o p \in Seq(ClockWrites) /\ f \in Seq(ClockWrites) /\ s \in Seq(ClockWrites)
      BY <1>5, <2>8
    <3> QED BY SMTT(30), <3>1, Regroup DEF y
  <2>10. (b \o p) \o y = b \o z
    <3>1. b \in Seq(ClockWrites) /\ p \in Seq(ClockWrites) /\ y \in Seq(ClockWrites)
      BY <1>5, <2>5
    <3> QED BY <3>1, Regroup DEF z
  <2>11. acpuTodo' \in Seq(ClockWrites) /\ AsideConfig(acpuTodo', current_speed')
    BY <2>1, <2>2, <2>7, <2>9, <2>10
  <2>12. SteppingAside' /\ AcpuTypeOK'
    BY <1>1, <1>2, <1>3, <2>1, <2>11 DEF SteppingAside, RunsFromSteadyPll, AcpuTypeOK
  <2> QED BY <2>11, <2>12 DEF AcpuInv
<1> QED BY <1>6, <1>7

\* The invariant says that the processor always runs from a clock that is there.
LEMMA AcpuInvSuffices ==
  ASSUME AcpuInv
  PROVE  SpeedSwitchedSafely
<1>1. AcpuTypeOK
  BY DEF AcpuInv
<1>2. CASE acpuTodo = <<>> /\ current_speed >= 0
  <2>1. Settled
    BY <1>2 DEF AcpuInv, Unstarted, Settled, GoingUp, GoingDown, SteppingAside, Rising, Starts,
      AtSrc, AtLastWait, AtLastMode, AtLastL, AtFirstWait, AtFirstMode, AtFirstL, AtStandby,
      AtFreq, AtSetFreq, AtOff, AtOffStandby, AtOffWait, DownOff, DownStandby, DownWait,
      DownSrc, DownToggle, DownConfig, AsideSrc, AsideToggle, AsideConfig
  <2>2. SpeedIsCurrent
    <3>1. CASE \E i \in 1..17 : /\ Ends(acpuTodo, i, current_speed)
                                /\ clkSel.src = SRC_SCPLL /\ Steady /\ scpll.l = 9 + i
      <4>1. current_speed \in 1..17 /\ clkSel.src = SRC_SCPLL /\ scpll.l = 9 + current_speed
        BY <1>2, <3>1 DEF Ends, Starts
      <4>2. acpu_freq_tbl[current_speed].sel = SRC_SCPLL
            /\ acpu_freq_tbl[current_speed].l = 9 + current_speed
        BY <4>1, Speeds
      <4> QED BY <4>1, <4>2 DEF SpeedIsCurrent, SRC_RAW, SRC_SCPLL
    <3>2. CASE Ends(acpuTodo, 0, current_speed) /\ OnRaw /\ scpll.mode = "powerdown"
      <4>1. current_speed = 0
        BY <1>2, <3>2 DEF Ends, Starts
      <4> QED BY <3>2, <4>1, Speeds DEF SpeedIsCurrent, OnRaw, SRC_RAW, SRC_SCPLL
    <3> QED BY <2>1, <3>1, <3>2 DEF Settled
  <2>3. RunsFromSteadyPll /\ RawIsConfigured
    BY <2>1 DEF Settled, OnRaw, Steady, RunsFromSteadyPll, RawIsConfigured, SRC_RAW, SRC_SCPLL
  <2> QED BY <1>1, <2>2, <2>3 DEF SpeedSwitchedSafely
<1>3. CASE ~(acpuTodo = <<>> /\ current_speed >= 0)
  <2>1. SpeedIsCurrent
    BY <1>3 DEF SpeedIsCurrent
  <2>2. RunsFromSteadyPll /\ RawIsConfigured
    BY DEF AcpuInv, Unstarted, Settled, GoingUp, GoingDown, SteppingAside, OnRaw, Steady,
           RunsFromSteadyPll, RawIsConfigured, SRC_RAW, SRC_SCPLL
  <2> QED BY <1>1, <2>1, <2>2 DEF SpeedSwitchedSafely
<1> QED BY <1>2, <1>3

\* Nothing is asked for and the PLL is steady if the processor runs from it.
LEMMA AcpuStarts ==
  ASSUME AcpuInit
  PROVE  AcpuInv
<1>1. /\ AcpuTypeOK /\ acpuTodo = <<>> /\ current_speed = -1
      /\ clkSel.src = SRC_SCPLL => scpll.mode = "normal" /\ ~scpll.busy
  BY DEF AcpuInit, AcpuTypeOK
<1>2. acpuTodo \in Seq(ClockWrites)
  BY <1>1
<1> QED BY <1>1, <1>2 DEF AcpuInv, Unstarted, RunsFromSteadyPll

(* For every first speed and all the rates that are asked for: the processor *)
(* runs from the PLL only while it is steady, from a raw source only where it *)
(* is configured, and ends at the speed that is remembered (acpuclock.c).    *)
THEOREM SpeedIsSafe == AcpuSpec => []SpeedSwitchedSafely
<1>1. AcpuInit => AcpuInv
  BY AcpuStarts
<1>2. AcpuInv /\ [AcpuNext]_acpuVars => AcpuInv'
  <2> SUFFICES ASSUME AcpuInv, [AcpuNext]_acpuVars PROVE AcpuInv'
    OBVIOUS
  <2>1. CASE UNCHANGED acpuVars
    BY <2>1 DEF acpuVars, AcpuInv, AcpuTypeOK, Unstarted, Settled, GoingUp, GoingDown,
                SteppingAside, Rising, Steady, OnRaw, OtherHalf, RunsFromSteadyPll
  <2> QED BY <2>1, SetRateKeeps, FirstRateKeeps, WriteKeeps, SettlingKeeps DEF AcpuNext
<1>3. AcpuInv => SpeedSwitchedSafely
  BY AcpuInvSuffices
<1> QED BY <1>1, <1>2, <1>3, PTL DEF AcpuSpec

-----------------------------------------------------------------------------
(* The calls of the mailbox.  As long as no call has been cut into, at most  *)
(* one stands, and where it stands says what the mailbox holds and what the  *)
(* modem does.                                                               *)

Commands ==
  {"enable", "disable", "rate", "speed", "enabled", "rpc rate", "set rate", "mpp",
   "phy reset", "end", "level", "switch", "gpio", "power down", "reset"}

\* Arguments that are not written over the table.
Seconds == Nat \cup Rates \cup UNION {CotullaSpeeds(id, r) : id \in UsedClocks, r \in Rates}

Fields(todos) ==
  [cmd : Commands \cup {"none"}, d1 : Nat, d2 : Seconds,
   cell : {""} \cup DOMAIN FillClocksLookup, retry : BOOLEAN,
   at : {"end", "ready", "data", "ring", "done", "reply", "leave", "check"},
   ok : BOOLEAN, dirty : BOOLEAN, todo : todos]

Waiting ==
  {r \in Fields({<<>>}) : /\ r.cmd \in Commands /\ r.at = "ready" /\ ~r.dirty /\ r.cell = ""
                          /\ r.cmd = "switch" => r.retry /\ r.d1 = 1}

Standing ==
  {c \in Fields(Seq(Waiting)) : /\ c.cmd \in Commands /\ c.at # "end"
                                /\ c.cmd = "switch" => c.retry}

MailTypes ==
  /\ mbox \in [command : Commands \cup {PCOM_CMD_IDLE, PCOM_CMD_DONE}, data1 : Nat,
               data2 : Seconds, status : {"none", "success"} \cup PcomFailures,
               of : {<<>>} \cup ((Commands \cup {PCOM_CMD_IDLE, PCOM_CMD_DONE}) \X Nat)]
  /\ modem \in [rung : BOOLEAN, busy : BOOLEAN, fails : 0..MaxFails]
  /\ ClocksLookup \in [DOMAIN FillClocksLookup -> Nat]
  /\ ANDRBOOT \in {"no", "marked", "asked", "off"}
  /\ chip \in [reset : BOOLEAN, supply : Nat]
  /\ pcomDirty \in BOOLEAN

PcomTypes == MailTypes /\ pcomCall \in [PcomLevels -> Standing \cup {NoPcomCall}]

Quiet == ~modem.rung /\ ~modem.busy
Idle == mbox.command = PCOM_CMD_IDLE /\ Quiet

Answered(c) ==
  /\ mbox.command = PCOM_CMD_DONE /\ Quiet
  /\ mbox.of = <<c.cmd, c.d1>> /\ mbox.data1 = c.d1

Supplied(c) == (c.cmd = "switch" /\ mbox.status = "success") => chip.supply = 1

Right(c) ==
  /\ c.cell # "" => FillClocksLookup[c.cell] = c.d1
  /\ c.cmd = "switch" => c.d1 = 1
  /\ c.at = "ready" => Idle
  /\ c.at = "data" => mbox.command = c.cmd /\ Quiet
  /\ c.at = "ring" => mbox.command = c.cmd /\ mbox.data1 = c.d1 /\ Quiet
  /\ c.at = "done" => \/ /\ mbox.command = c.cmd /\ mbox.data1 = c.d1
                         /\ modem.rung = ~modem.busy
                      \/ Answered(c) /\ Supplied(c)
  /\ c.at \in {"reply", "leave"} => Answered(c) /\ Supplied(c)
  /\ c.at = "check" => Idle /\ Supplied(c)

Alone ==
  \A k, l \in PcomLevels : pcomCall[k] # NoPcomCall /\ pcomCall[l] # NoPcomCall => k = l

OneCall ==
  /\ Alone
  /\ (\A l \in PcomLevels : pcomCall[l] = NoPcomCall) => Idle
  /\ \A l \in PcomLevels : pcomCall[l] # NoPcomCall => Right(pcomCall[l])
  /\ ClocksLookup = FillClocksLookup

PcomInv == PcomTypes /\ (Undisturbed => OneCall)

-----------------------------------------------------------------------------
(* The requests.                                                            *)

\* What a request is before it is made.
Asks(r, cmd, d1) ==
  /\ r \in Fields({<<>>}) /\ r.cmd = cmd /\ r.d1 = d1 /\ r.cell = ""
  /\ ~r.retry /\ r.at = "ready" /\ ~r.dirty

\* A request has the fields that it is given.
LEMMA RequestIs ==
  ASSUME NEW cmd \in Commands, NEW d1 \in Nat, NEW d2 \in Seconds
  PROVE  Asks(Request(cmd, d1, d2), cmd, d1)
<1> DEFINE n == NoPcomCall
           a == [n EXCEPT !.cmd = cmd]
           b == [a EXCEPT !.d1 = d1]
           c == [b EXCEPT !.d2 = d2]
           r == [c EXCEPT !.at = "ready"]
<1>1. n \in Fields({<<>>}) /\ n.cell = "" /\ ~n.retry /\ ~n.dirty
  BY DEF NoPcomCall, Fields, Seconds
<1> HIDE DEF n, Commands
<1>2. a \in Fields({<<>>}) /\ a.cmd = cmd /\ a.cell = "" /\ ~a.retry /\ ~a.dirty
  BY <1>1 DEF Fields
<1> HIDE DEF a
<1>3. b \in Fields({<<>>}) /\ b.cmd = cmd /\ b.d1 = d1 /\ b.cell = "" /\ ~b.retry /\ ~b.dirty
  BY <1>2 DEF Fields
<1> HIDE DEF b
<1>4. c \in Fields({<<>>}) /\ c.cmd = cmd /\ c.d1 = d1 /\ c.cell = "" /\ ~c.retry /\ ~c.dirty
  BY <1>3 DEF Fields
<1> HIDE DEF c
<1>5. /\ r \in Fields({<<>>}) /\ r.cmd = cmd /\ r.d1 = d1 /\ r.cell = ""
      /\ ~r.retry /\ r.at = "ready" /\ ~r.dirty
  BY <1>4 DEF Fields
<1>6. Request(cmd, d1, d2) = r
  BY DEF Request, r, c, b, a, n
<1> HIDE DEF r
<1> QED BY <1>5, <1>6 DEF Asks

\* A request that is made once is one that can wait for its turn.
LEMMA RequestWaits ==
  ASSUME NEW cmd \in Commands, NEW d1 \in Nat, NEW d2 \in Seconds, cmd # "switch"
  PROVE  Request(cmd, d1, d2) \in Waiting
<1> DEFINE r == Request(cmd, d1, d2)
<1>1. Asks(r, cmd, d1)
  BY RequestIs
<1> HIDE DEF r, Commands, Fields
<1>2. r \in Waiting
  BY <1>1 DEF Asks, Waiting
<1> QED BY <1>2 DEF r

\* A request that is repeated until it works.
LEMMA RetriedWaits ==
  ASSUME NEW cmd \in Commands, NEW d1 \in Nat, NEW d2 \in Seconds, cmd = "switch" => d1 = 1
  PROVE  [Request(cmd, d1, d2) EXCEPT !.retry = TRUE] \in Waiting
<1> DEFINE r == Request(cmd, d1, d2)
<1>1. Asks(r, cmd, d1)
  BY RequestIs
<1> HIDE DEF r, Commands
<1>2. [r EXCEPT !.retry = TRUE] \in Waiting
  BY <1>1 DEF Asks, Fields, Waiting
<1> QED BY <1>2 DEF r

\* A call that is about to be made, with the table's entry as its argument.
Begins(c) ==
  /\ c \in Standing /\ c.at = "ready" /\ ~c.dirty
  /\ c.cell # "" => ClocksLookup[c.cell] = c.d1
  /\ c.cmd = "switch" => c.d1 = 1

\* The first of several calls begins, and the others wait.
LEMMA TurnBegins ==
  ASSUME NEW p \in Seq(Waiting), p # <<>>
  PROVE  Begins(InTurn(p))
<1> DEFINE r == p[1]
           t == Tail(p)
<1>1. r \in Waiting /\ t \in Seq(Waiting)
  <2>1. 1 \in 1..Len(p)
    BY EmptySeq, LenProperties
  <2> QED BY <2>1, ElementOfSeq, HeadTailProperties
<1>2. InTurn(p) = [r EXCEPT !.todo = t]
  BY DEF InTurn
<1> HIDE DEF r, t
<1> DEFINE c == [r EXCEPT !.todo = t]
<1>3. /\ c \in Fields(Seq(Waiting)) /\ c.cmd = r.cmd /\ c.at = r.at /\ c.dirty = r.dirty
      /\ c.cell = r.cell /\ c.retry = r.retry /\ c.d1 = r.d1
  BY <1>1 DEF Waiting, Fields
<1> HIDE DEF c
<1>4. Begins(c)
  BY <1>1, <1>3 DEF Waiting, Standing, Begins
<1> QED BY <1>2, <1>4 DEF c

\* One call.
LEMMA OneBegins ==
  ASSUME NEW r \in Waiting
  PROVE  Begins(InTurn(<<r>>))
<1> DEFINE p == <<r>>
<1>1. p \in Seq(Waiting) /\ p # <<>>
  OBVIOUS
<1> HIDE DEF p
<1>2. Begins(InTurn(p))
  BY <1>1, TurnBegins
<1> QED BY <1>2 DEF p

\* A call whose argument is a table's entry.
LEMMA CellBegins ==
  ASSUME PcomTypes, NEW id \in UsedClocks, NEW cmd \in Commands, cmd # "switch",
         NEW d2 \in Seconds
  PROVE  Begins(InTurn(<<[Request(cmd, ClocksLookup[id], d2) EXCEPT !.cell = id]>>))
<1> DEFINE d1 == ClocksLookup[id]
           r == Request(cmd, d1, d2)
           c == [r EXCEPT !.cell = id]
           none == <<>>
           s == [c EXCEPT !.todo = none]
<1>1. id \in DOMAIN FillClocksLookup /\ d1 \in Nat
  BY ClockAssumption DEF PcomTypes, MailTypes
<1> HIDE DEF d1
<1>2. Asks(r, cmd, d1)
  BY <1>1, RequestIs
<1> HIDE DEF r
<1>3. /\ c \in Fields({<<>>}) /\ c.cmd = cmd /\ c.d1 = d1 /\ c.cell = id
      /\ c.at = "ready" /\ ~c.dirty
  BY <1>1, <1>2 DEF Asks, Fields
<1>4. none \in Seq(Waiting)
  OBVIOUS
<1> HIDE DEF c, none
<1>5. /\ s \in Fields(Seq(Waiting)) /\ s.cmd = cmd /\ s.d1 = d1 /\ s.cell = id
      /\ s.at = "ready" /\ ~s.dirty
  BY <1>3, <1>4 DEF Fields
<1>6. InTurn(<<c>>) = s
  BY DEF InTurn, none
<1> HIDE DEF s
<1>7. Begins(s)
  BY <1>5 DEF Begins, Standing, d1
<1> QED BY <1>6, <1>7 DEF c, r, d1

\* A slot's pins, one call after the other.
LEMMA PinsWait ==
  ASSUME NEW i \in Instances
  PROVE  pcom_sdcard_gpio_config(i) \in Seq(Waiting) /\ pcom_sdcard_gpio_config(i) # <<>>
<1> DEFINE pins == SlotPins[i]
           n == IF i = 3 THEN 10 ELSE 6
           p == pcom_sdcard_gpio_config(i)
<1>1. i \in 1..4
  BY ClockAssumption
<1>2. DOMAIN pins = 1..n /\ \A j \in 1..n : pins[j] \in Nat
  <2>1. CASE i = 1
    BY <2>1 DEF SlotPins
  <2>2. CASE i = 2
    BY <2>2 DEF SlotPins
  <2>3. CASE i = 3
    BY <2>3 DEF SlotPins
  <2>4. CASE i = 4
    BY <2>4 DEF SlotPins
  <2> QED BY <1>1, <2>1, <2>2, <2>3, <2>4
<1>3. p = [j \in 1..n |-> pcom_gpio_tlmm_config(pins[j])]
  BY <1>2 DEF pcom_sdcard_gpio_config
<1> HIDE DEF pins
<1>4. \A j \in 1..n : pcom_gpio_tlmm_config(pins[j]) \in Waiting
  <2>1. "gpio" \in Commands /\ 0 \in Seconds /\ "gpio" # "switch"
    BY DEF Commands, Seconds
  <2> QED BY <1>2, <2>1, RequestWaits DEF pcom_gpio_tlmm_config
<1>5. n \in Nat /\ n > 0
  OBVIOUS
<1> HIDE DEF p, n
<1>6. p \in [1..n -> Waiting]
  BY <1>3, <1>4
<1>7. p \in Seq(Waiting) /\ Len(p) = n
  BY <1>5, <1>6, SeqDef, LenProperties
<1> QED BY <1>5, <1>7, EmptySeq DEF p

\* The supply's level, and then the supply.
LEMMA SupplyBegins ==
  /\ Begins(InTurn(pcom_sdcard_power(1)))
  /\ Begins(InTurn(pcom_vreg_control(2900, 1)))
<1> DEFINE level == 2900
           on == 1
           r == PowerSwitch(on)
           v == [Request("level", 0, level) EXCEPT !.retry = TRUE]
<1>1. r \in Waiting
  <2>1. "switch" \in Commands /\ 0 \in Seconds /\ on \in Nat /\ on = 1
    BY DEF Commands, Seconds
  <2> HIDE DEF on
  <2> QED BY <2>1, RetriedWaits DEF PowerSwitch
<1>2. v \in Waiting
  <2>1. "level" \in Commands /\ level \in Seconds /\ 0 \in Nat
    BY DEF Commands, Seconds
  <2> HIDE DEF level
  <2> QED BY <2>1, RetriedWaits
<1>3. on # 0
  OBVIOUS
<1> HIDE DEF on, level
<1>4. pcom_sdcard_power(on) = <<r>>
  BY DEF pcom_sdcard_power
<1>5. pcom_vreg_control(level, on) = (IF on = 0 THEN <<>> ELSE <<v>>) \o pcom_sdcard_power(on)
  BY DEF pcom_vreg_control
<1> HIDE DEF r, v
<1>6. pcom_vreg_control(level, on) = <<v>> \o <<r>>
  BY <1>3, <1>4, <1>5
<1> DEFINE s == <<v>>
           t == <<r>>
<1>7. s \in Seq(Waiting) /\ t \in Seq(Waiting) /\ Len(s) = 1 /\ Len(t) = 1
  BY <1>1, <1>2
<1> HIDE DEF s, t
<1>8. s \o t \in Seq(Waiting) /\ s \o t # <<>>
  <2>1. s \o t \in Seq(Waiting) /\ Len(s \o t) = Len(s) + Len(t)
    BY <1>7, ConcatProperties
  <2> QED BY <1>7, <2>1, EmptySeq
<1>9. Begins(InTurn(s \o t))
  BY <1>8, TurnBegins
<1>10. Begins(InTurn(pcom_vreg_control(level, on)))
  BY <1>6, <1>9 DEF s, t
<1>11. Begins(InTurn(pcom_sdcard_power(on)))
  BY <1>1, <1>4, OneBegins
<1> QED BY <1>10, <1>11 DEF on, level

\* A call without an entry of the table, which is not to switch the supply.
LEMMA PlainBegins ==
  ASSUME NEW cmd \in Commands, NEW d1 \in Nat, NEW d2 \in Seconds, cmd # "switch"
  PROVE  Begins(InTurn(<<Request(cmd, d1, d2)>>))
<1> DEFINE r == Request(cmd, d1, d2)
<1>1. r \in Waiting
  BY RequestWaits
<1> HIDE DEF r
<1> QED BY <1>1, OneBegins DEF r

\* Whatever a driver asks of the modem.
LEMMA ProgramBegins ==
  ASSUME PcomTypes, NEW p \in Programs
  PROVE  Begins(InTurn(p))
<1>1. 0 \in Seconds /\ (\A r \in Rates : r \in Seconds)
      /\ (\A id \in UsedClocks, r \in Rates : \A x \in CotullaSpeeds(id, r) : x \in Seconds)
  BY DEF Seconds
<1>2. ASSUME NEW r \in ClockRequests, p = <<r>>
      PROVE  Begins(InTurn(p))
  <2>1. CASE \E cmd \in {"enable", "disable", "rate"}, id \in UsedClocks :
               r = [Request(cmd, ClocksLookup[id], 0) EXCEPT !.cell = id]
    <3>1. PICK cmd \in {"enable", "disable", "rate"}, id \in UsedClocks :
            r = [Request(cmd, ClocksLookup[id], 0) EXCEPT !.cell = id]
      BY <2>1
    <3>2. cmd \in Commands /\ cmd # "switch"
      BY DEF Commands
    <3> QED BY <1>1, <1>2, <3>1, <3>2, CellBegins
  <2>2. CASE \E id \in UsedClocks, x \in Seconds :
               r = [Request("speed", ClocksLookup[id], x) EXCEPT !.cell = id]
    <3>1. PICK id \in UsedClocks, x \in Seconds :
            r = [Request("speed", ClocksLookup[id], x) EXCEPT !.cell = id]
      BY <2>2
    <3>2. "speed" \in Commands /\ "speed" # "switch"
      BY DEF Commands
    <3> QED BY <1>2, <3>1, <3>2, CellBegins
  <2> QED BY <1>1, <2>1, <2>2 DEF ClockRequests
<1>3. ASSUME p \in OtherRequests PROVE Begins(InTurn(p))
  <2>1. PICK c \in {<<"rpc rate", 31>>, <<"set rate", 42>>,
     <<"enable", 43>>, <<"mpp", 0>>, <<"phy reset", 0>>, <<"end", 0>>} :
           p = <<Request(c[1], c[2], 0)>>
    BY <1>3 DEF OtherRequests
  <2>2. c[1] \in Commands /\ c[1] # "switch" /\ c[2] \in Nat
    <3>1. \/ c = <<"rpc rate", 31>> \/ c = <<"set rate", 42>> \/ c = <<"enable", 43>>
          \/ c = <<"mpp", 0>> \/ c = <<"phy reset", 0>> \/ c = <<"end", 0>>
      BY <2>1
    <3>2. CASE c = <<"rpc rate", 31>>
      BY <3>2 DEF Commands
    <3>3. CASE c = <<"set rate", 42>>
      BY <3>3 DEF Commands
    <3>4. CASE c = <<"enable", 43>>
      BY <3>4 DEF Commands
    <3>5. CASE c = <<"mpp", 0>>
      BY <3>5 DEF Commands
    <3>6. CASE c = <<"phy reset", 0>>
      BY <3>6 DEF Commands
    <3>7. CASE c = <<"end", 0>>
      BY <3>7 DEF Commands
    <3> QED BY <3>1, <3>2, <3>3, <3>4, <3>5, <3>6, <3>7
  <2> QED BY <1>1, <2>1, <2>2, PlainBegins
<1>4. ASSUME NEW i \in Instances, NEW rate \in Rates, p \in SdcardRequests(i, rate)
      PROVE  Begins(InTurn(p))
  <2> DEFINE clk == 17 + 2 * i
             zero == 0
  <2>1. clk \in Nat /\ clk + 1 \in Nat /\ zero \in Seconds
    BY <1>1, ClockAssumption
  <2> DEFINE a == {<<Request(cmd, id, zero)>> : cmd \in {"enable", "disable", "enabled"},
                                                id \in {clk, clk + 1}}
             b == {<<Request("rpc rate", clk, zero)>>, <<Request("set rate", clk, rate)>>}
  <2>2. SdcardRequests(i, rate) = a \cup b
    BY DEF SdcardRequests
  <2> HIDE DEF clk, zero
  <2>3. CASE p \in a
    <3>1. PICK cmd \in {"enable", "disable", "enabled"}, id \in {clk, clk + 1} :
            p = <<Request(cmd, id, zero)>>
      BY <2>3
    <3>2. cmd \in Commands /\ cmd # "switch" /\ id \in Nat
      BY <2>1 DEF Commands
    <3> QED BY <2>1, <3>1, <3>2, PlainBegins
  <2>4. CASE p = <<Request("rpc rate", clk, zero)>>
    <3>1. "rpc rate" \in Commands /\ "rpc rate" # "switch"
      BY DEF Commands
    <3> QED BY <2>1, <2>4, <3>1, PlainBegins
  <2>5. CASE p = <<Request("set rate", clk, rate)>>
    <3>1. "set rate" \in Commands /\ "set rate" # "switch"
      BY DEF Commands
    <3> QED BY <1>1, <2>1, <2>5, <3>1, PlainBegins
  <2>6. p \in a \/ p \in b
    <3> HIDE DEF a, b
    <3> QED BY <1>4, <2>2
  <2>7. p \in b => p = <<Request("rpc rate", clk, zero)>> \/ p = <<Request("set rate", clk, rate)>>
    OBVIOUS
  <2> HIDE DEF a, b
  <2> QED BY <2>3, <2>4, <2>5, <2>6, <2>7
<1>5. ASSUME NEW i \in Instances, p = pcom_sdcard_gpio_config(i)
      PROVE  Begins(InTurn(p))
  BY <1>5, PinsWait, TurnBegins
<1>6. ASSUME p \in {<<r>> : r \in ClockRequests} PROVE Begins(InTurn(p))
  BY <1>2, <1>6
<1>7. ASSUME p \in UNION {SdcardRequests(i, r) \cup {pcom_sdcard_gpio_config(i)} :
                            i \in Instances, r \in Rates}
      PROVE  Begins(InTurn(p))
  <2>1. PICK i \in Instances, r \in Rates :
          p \in SdcardRequests(i, r) \cup {pcom_sdcard_gpio_config(i)}
    BY <1>7
  <2> QED BY <1>4, <1>5, <2>1
<1>8. ASSUME p \in {pcom_sdcard_power(1), pcom_vreg_control(2900, 1)}
      PROVE  Begins(InTurn(p))
  BY <1>8, SupplyBegins
<1>9. \/ p \in {<<r>> : r \in ClockRequests} \/ p \in OtherRequests
      \/ p \in UNION {SdcardRequests(i, r) \cup {pcom_sdcard_gpio_config(i)} :
                           i \in Instances, r \in Rates}
      \/ p \in {pcom_sdcard_power(1), pcom_vreg_control(2900, 1)}
  <2> DEFINE a == {<<r>> : r \in ClockRequests}
             b == UNION {SdcardRequests(i, r) \cup {pcom_sdcard_gpio_config(i)} :
                           i \in Instances, r \in Rates}
             d == {pcom_sdcard_power(1), pcom_vreg_control(2900, 1)}
  <2>1. Programs = a \cup OtherRequests \cup d \cup b
    BY DEF Programs
  <2> HIDE DEF a, b, d
  <2>2. p \in a \/ p \in OtherRequests \/ p \in b \/ p \in d
    BY <2>1
  <2> QED BY <2>2 DEF a, b, d
<1> QED BY <1>3, <1>6, <1>7, <1>8, <1>9

-----------------------------------------------------------------------------
(* The invariant.                                                           *)

\* A call that stands somewhere is one.
LEMMA StandingCall ==
  ASSUME PcomTypes, NEW l \in PcomLevels, pcomCall[l].at # "end"
  PROVE  pcomCall[l] \in Standing /\ pcomCall[l] # NoPcomCall
<1>1. NoPcomCall.at = "end"
  BY DEF NoPcomCall
<1> QED BY <1>1 DEF PcomTypes

\* A call that stands is not the absence of one.
LEMMA NotNone ==
  ASSUME NEW c \in Standing
  PROVE  c # NoPcomCall /\ c.dirty \in BOOLEAN /\ ~NoPcomCall.dirty
<1>1. NoPcomCall.at = "end" /\ ~NoPcomCall.dirty
  BY DEF NoPcomCall
<1>2. c.at # "end" /\ c.dirty \in BOOLEAN
  BY DEF Standing, Fields
<1> QED BY <1>1, <1>2

\* A call is started: nothing stands, or what stands has been cut into.
LEMMA CallKeeps ==
  ASSUME PcomInv, NEW l \in PcomLevels, NEW p, msm_proc_comm(l, p), Begins(InTurn(p)),
         UNCHANGED <<ClocksLookup, chip, pcomDirty>>,
         ANDRBOOT' \in {"no", "marked", "asked", "off"}
  PROVE  PcomInv'
<1> DEFINE c == InTurn(p)
<1>1. PcomTypes /\ Begins(c)
  BY DEF PcomInv
<1>2. UNCHANGED <<mbox, modem>> /\ pcomCall[l] = NoPcomCall
  BY PcomAssumption DEF msm_proc_comm
<1>3. pcomCall' = [k \in PcomLevels |->
        IF k = l THEN c
        ELSE IF pcomCall[k] = NoPcomCall THEN NoPcomCall
             ELSE [pcomCall[k] EXCEPT !.dirty = TRUE]]
  BY DEF msm_proc_comm
<1> HIDE DEF c
<1>4. ASSUME NEW k \in PcomLevels, k # l, pcomCall[k] # NoPcomCall
      PROVE  pcomCall'[k] \in Standing /\ pcomCall'[k].dirty
  <2> DEFINE d == pcomCall[k]
             e == [d EXCEPT !.dirty = TRUE]
  <2>1. d \in Standing /\ pcomCall'[k] = e
    BY <1>1, <1>3, <1>4 DEF PcomTypes
  <2> HIDE DEF d
  <2>2. e \in Standing /\ e.dirty
    BY <2>1 DEF Standing, Fields
  <2> QED BY <2>1, <2>2
<1>5. c \in Standing /\ c # NoPcomCall /\ pcomCall'[l] = c
  BY <1>1, <1>3, NotNone DEF Begins
<1>6. PcomTypes'
  <2>1. MailTypes'
    BY <1>1, <1>2 DEF PcomTypes, MailTypes
  <2>2. \A k \in PcomLevels : pcomCall'[k] \in Standing \cup {NoPcomCall}
    BY <1>3, <1>4, <1>5
  <2>3. pcomCall' \in [PcomLevels -> Standing \cup {NoPcomCall}]
    BY <1>3, <2>2
  <2> QED BY <2>1, <2>3 DEF PcomTypes
<1>7. ASSUME Undisturbed' PROVE OneCall'
  <2>1. \A k \in PcomLevels : k # l => pcomCall[k] = NoPcomCall
    BY <1>4, <1>7 DEF Undisturbed
  <2>2. \A k \in PcomLevels : pcomCall[k] = NoPcomCall
    BY <1>2, <2>1
  <2>3. Undisturbed
    BY <1>5, <1>7, <2>2, NotNone DEF Undisturbed
  <2>4. Idle /\ ClocksLookup = FillClocksLookup
    BY <2>2, <2>3 DEF PcomInv, OneCall
  <2>5. Idle'
    BY <1>2, <2>4 DEF Idle, Quiet
  <2>6. Right(c)'
    BY <1>1, <2>4, <2>5 DEF Begins, Right
  <2>7. \A k \in PcomLevels : k # l => pcomCall'[k] = NoPcomCall
    BY <1>3, <2>1
  <2>8. ClocksLookup' = FillClocksLookup
    BY <2>4
  <2>9. Alone'
    BY <2>7 DEF Alone
  <2>10. \A k \in PcomLevels : pcomCall'[k] # NoPcomCall => Right(pcomCall[k])'
    <3> SUFFICES ASSUME NEW k \in PcomLevels, pcomCall'[k] # NoPcomCall
                 PROVE  Right(pcomCall[k])'
      OBVIOUS
    <3>1. k = l /\ pcomCall'[k] = c
      BY <1>5, <2>7
    <3> QED BY <2>6, <3>1 DEF Right, Answered, Supplied
  <2> QED BY <1>5, <2>8, <2>9, <2>10 DEF OneCall
<1> QED BY <1>6, <1>7 DEF PcomInv

\* A call goes on.
LEMMA GoesOn ==
  ASSUME PcomInv, NEW l \in PcomLevels, pcomCall[l] \in Standing, NEW c \in Standing,
         pcomCall' = [pcomCall EXCEPT ![l] = c], c.dirty = pcomCall[l].dirty,
         MailTypes', pcomDirty => pcomDirty',
         Undisturbed => Right(c)' /\ ClocksLookup' = ClocksLookup
  PROVE  PcomInv'
<1>1. PcomTypes /\ pcomCall[l] # NoPcomCall /\ c # NoPcomCall
  BY NotNone DEF PcomInv
<1>2. pcomCall'[l] = c /\ \A k \in PcomLevels : k # l => pcomCall'[k] = pcomCall[k]
  BY <1>1 DEF PcomTypes
<1>3. PcomTypes'
  BY <1>1 DEF PcomTypes
<1>4. ASSUME Undisturbed' PROVE OneCall'
  <2>1. Undisturbed
    BY <1>1, <1>2, <1>4 DEF Undisturbed
  <2>2. Alone /\ ClocksLookup = FillClocksLookup /\ Right(c)' /\ ClocksLookup' = ClocksLookup
    BY <2>1 DEF PcomInv, OneCall
  <2>3. \A k \in PcomLevels : k # l => pcomCall'[k] = NoPcomCall
    BY <1>1, <1>2, <2>2 DEF Alone
  <2>4. Alone'
    BY <2>3 DEF Alone
  <2>5. \A k \in PcomLevels : pcomCall'[k] # NoPcomCall => Right(pcomCall[k])'
    <3> SUFFICES ASSUME NEW k \in PcomLevels, pcomCall'[k] # NoPcomCall
                 PROVE  Right(pcomCall[k])'
      OBVIOUS
    <3>1. k = l /\ pcomCall'[k] = c
      BY <1>2, <2>3
    <3> QED BY <2>2, <3>1 DEF Right, Answered, Supplied
  <2> QED BY <1>1, <1>2, <2>2, <2>4, <2>5 DEF OneCall
<1> QED BY <1>3, <1>4 DEF PcomInv

\* What stays of a call that goes on.
Same(c, d) ==
  c.cmd = d.cmd /\ c.d1 = d.d1 /\ c.cell = d.cell /\ c.retry = d.retry /\ c.dirty = d.dirty

\* A call that goes on without a reply.
LEMMA MovesOn ==
  ASSUME PcomTypes, NEW l \in PcomLevels, NEW from, NEW to, from # "end",
         to \in {"ready", "data", "ring", "done", "reply", "leave", "check"},
         Moves(l, from, to)
  PROVE  \E c \in Standing : /\ pcomCall' = [pcomCall EXCEPT ![l] = c]
                             /\ c.at = to /\ Same(c, pcomCall[l])
                             /\ pcomCall[l] \in Standing /\ pcomCall[l].at = from
<1> DEFINE d == pcomCall[l]
           c == [d EXCEPT !.at = to]
<1>1. d \in Standing /\ d.at = from /\ pcomCall' = [pcomCall EXCEPT ![l] = c]
  BY StandingCall DEF Moves
<1> HIDE DEF d
<1>2. c \in Standing /\ c.at = to /\ Same(c, d)
  BY <1>1 DEF Standing, Fields, Same
<1> HIDE DEF c
<1> QED BY <1>1, <1>2 DEF d

\* The one call that stands.
LEMMA StandsRight ==
  ASSUME PcomInv, NEW l \in PcomLevels, pcomCall[l] \in Standing, Undisturbed
  PROVE  Right(pcomCall[l])
BY NotNone DEF PcomInv, OneCall

\* The command is written.
LEMMA WritesCommandKeeps ==
  ASSUME PcomInv, NEW l \in PcomLevels, WritesCommand(l),
         UNCHANGED <<ClocksLookup, ANDRBOOT, chip, pcomDirty>>
  PROVE  PcomInv'
<1>1. PcomTypes /\ MailTypes
  BY DEF PcomInv, PcomTypes
<1>2. Moves(l, "ready", "data")
  BY DEF WritesCommand
<1>3. PICK c \in Standing : /\ pcomCall' = [pcomCall EXCEPT ![l] = c]
                            /\ c.at = "data" /\ Same(c, pcomCall[l])
                            /\ pcomCall[l] \in Standing /\ pcomCall[l].at = "ready"
  BY <1>1, <1>2, MovesOn
<1> DEFINE d == pcomCall[l]
<1>4. d \in Standing /\ d.at = "ready" /\ Same(c, d)
  BY <1>3
<1>5. mbox' = [mbox EXCEPT !.command = d.cmd] /\ UNCHANGED modem
  BY DEF WritesCommand
<1>6. ASSUME Undisturbed PROVE Right(d)
  BY <1>3, <1>6, StandsRight
<1> HIDE DEF d
<1>7. MailTypes'
  BY <1>1, <1>4, <1>5 DEF MailTypes, Standing
<1>8. mbox'.command = d.cmd
  BY <1>1, <1>5 DEF MailTypes
<1>9. ASSUME Undisturbed PROVE Right(c)'
  BY <1>3, <1>4, <1>5, <1>6, <1>8, <1>9 DEF Right, Idle, Quiet, Same
<1> QED BY <1>3, <1>4, <1>7, <1>9, GoesOn DEF Same

\* The data are written.
LEMMA WritesDataKeeps ==
  ASSUME PcomInv, NEW l \in PcomLevels, WritesData(l),
         UNCHANGED <<ClocksLookup, ANDRBOOT, chip, pcomDirty>>
  PROVE  PcomInv'
<1>1. PcomTypes /\ MailTypes
  BY DEF PcomInv, PcomTypes
<1>2. Moves(l, "data", "ring")
  BY DEF WritesData
<1>3. PICK c \in Standing : /\ pcomCall' = [pcomCall EXCEPT ![l] = c]
                            /\ c.at = "ring" /\ Same(c, pcomCall[l])
                            /\ pcomCall[l] \in Standing /\ pcomCall[l].at = "data"
  BY <1>1, <1>2, MovesOn
<1> DEFINE d == pcomCall[l]
           a == [mbox EXCEPT !.data1 = d.d1]
<1>4. d \in Standing /\ d.at = "data" /\ Same(c, d)
  BY <1>3
<1>5. mbox' = [a EXCEPT !.data2 = d.d2] /\ UNCHANGED modem
  BY DEF WritesData
<1>6. ASSUME Undisturbed PROVE Right(d)
  BY <1>3, <1>6, StandsRight
<1> HIDE DEF d
<1> DEFINE Boxes ==
             [command : Commands \cup {PCOM_CMD_IDLE, PCOM_CMD_DONE}, data1 : Nat,
               data2 : Seconds, status : {"none", "success"} \cup PcomFailures,
               of : {<<>>} \cup ((Commands \cup {PCOM_CMD_IDLE, PCOM_CMD_DONE}) \X Nat)]
<1>7. a \in Boxes /\ a.data1 = d.d1 /\ a.command = mbox.command
  BY <1>1, <1>4 DEF MailTypes, Standing, Fields
<1> HIDE DEF a
<1>8. mbox' \in Boxes /\ mbox'.data1 = d.d1 /\ mbox'.command = mbox.command
  BY <1>4, <1>5, <1>7 DEF Standing, Fields
<1>9. MailTypes'
  BY <1>1, <1>5, <1>8 DEF MailTypes
<1>10. ASSUME Undisturbed PROVE Right(c)'
  BY <1>3, <1>4, <1>5, <1>6, <1>8, <1>10 DEF Right, Quiet, Same
<1> QED BY <1>3, <1>4, <1>9, <1>10, GoesOn DEF Same

\* The doorbell is rung.
LEMMA NotifyKeeps ==
  ASSUME PcomInv, NEW l \in PcomLevels, notify_modem(l),
         UNCHANGED <<ClocksLookup, ANDRBOOT, chip, pcomDirty>>
  PROVE  PcomInv'
<1>1. PcomTypes /\ MailTypes
  BY DEF PcomInv, PcomTypes
<1>2. Moves(l, "ring", "done")
  BY DEF notify_modem
<1>3. PICK c \in Standing : /\ pcomCall' = [pcomCall EXCEPT ![l] = c]
                            /\ c.at = "done" /\ Same(c, pcomCall[l])
                            /\ pcomCall[l] \in Standing /\ pcomCall[l].at = "ring"
  BY <1>1, <1>2, MovesOn
<1> DEFINE d == pcomCall[l]
<1>4. d \in Standing /\ d.at = "ring" /\ Same(c, d)
  BY <1>3
<1>5. modem' = [modem EXCEPT !.rung = TRUE] /\ UNCHANGED mbox
  BY DEF notify_modem
<1>6. ASSUME Undisturbed PROVE Right(d)
  BY <1>3, <1>6, StandsRight
<1> HIDE DEF d
<1>7. MailTypes' /\ modem'.rung /\ modem'.busy = modem.busy
  BY <1>1, <1>5 DEF MailTypes
<1>8. ASSUME Undisturbed PROVE Right(c)'
  BY <1>3, <1>4, <1>5, <1>6, <1>7, <1>8 DEF Right, Quiet, Same
<1> QED BY <1>3, <1>4, <1>7, <1>8, GoesOn DEF Same

\* The mailbox is left idle.
LEMMA LeavesKeeps ==
  ASSUME PcomInv, NEW l \in PcomLevels, Leaves(l),
         UNCHANGED <<ClocksLookup, ANDRBOOT, chip, pcomDirty>>
  PROVE  PcomInv'
<1>1. PcomTypes /\ MailTypes
  BY DEF PcomInv, PcomTypes
<1>2. Moves(l, "leave", "check")
  BY DEF Leaves
<1>3. PICK c \in Standing : /\ pcomCall' = [pcomCall EXCEPT ![l] = c]
                            /\ c.at = "check" /\ Same(c, pcomCall[l])
                            /\ pcomCall[l] \in Standing /\ pcomCall[l].at = "leave"
  BY <1>1, <1>2, MovesOn
<1> DEFINE d == pcomCall[l]
<1>4. d \in Standing /\ d.at = "leave" /\ Same(c, d)
  BY <1>3
<1>5. mbox' = [mbox EXCEPT !.command = PCOM_CMD_IDLE] /\ UNCHANGED modem
  BY DEF Leaves
<1>6. ASSUME Undisturbed PROVE Right(d)
  BY <1>3, <1>6, StandsRight
<1> HIDE DEF d
<1>7. MailTypes' /\ mbox'.command = PCOM_CMD_IDLE /\ mbox'.status = mbox.status
  BY <1>1, <1>5 DEF MailTypes
<1>8. ASSUME Undisturbed PROVE Right(c)'
  BY <1>3, <1>4, <1>5, <1>6, <1>7, <1>8 DEF Right, Quiet, Idle, Answered, Supplied, Same
<1> QED BY <1>3, <1>4, <1>7, <1>8, GoesOn DEF Same

\* The modem has answered, and the status is read.
LEMMA ReadsStatusKeeps ==
  ASSUME PcomInv, NEW l \in PcomLevels, ReadsStatus(l),
         UNCHANGED <<ClocksLookup, ANDRBOOT, chip, pcomDirty>>
  PROVE  PcomInv'
<1>1. PcomTypes /\ MailTypes
  BY DEF PcomInv, PcomTypes
<1> DEFINE d == pcomCall[l]
           good == mbox.status # PCOM_CMD_FAIL
           a == [d EXCEPT !.at = "reply"]
           c == [a EXCEPT !.ok = good]
<1>2. /\ d.at = "done" /\ mbox.command = PCOM_CMD_DONE
      /\ pcomCall' = [pcomCall EXCEPT ![l] = c]
      /\ UNCHANGED <<mbox, modem>>
  BY DEF ReadsStatus
<1>3. d \in Standing
  BY <1>1, <1>2, StandingCall
<1>4. ASSUME Undisturbed PROVE Right(d)
  BY <1>3, <1>4, StandsRight
<1>5. good \in BOOLEAN
  OBVIOUS
<1>6. PCOM_CMD_DONE \notin Commands
  BY DEF PCOM_CMD_DONE, Commands
<1> HIDE DEF d, good
<1>7. a \in Standing /\ a.at = "reply" /\ Same(a, d)
  BY <1>3 DEF Standing, Fields, Same
<1> HIDE DEF a
<1>8. c \in Standing /\ c.at = "reply" /\ Same(c, d)
  BY <1>5, <1>7 DEF Standing, Fields, Same
<1> HIDE DEF c
<1>9. PICK e \in Standing : /\ pcomCall' = [pcomCall EXCEPT ![l] = e]
                            /\ e.at = "reply" /\ Same(e, d)
  BY <1>2, <1>8
<1>10. MailTypes'
  BY <1>1, <1>2 DEF MailTypes
<1>11. d.cmd \in Commands
  BY <1>3 DEF Standing
<1>12. ASSUME Undisturbed PROVE Right(e)'
  <2>1. Answered(d) /\ Supplied(d)
    BY <1>2, <1>4, <1>6, <1>11, <1>12 DEF Right
  <2> QED BY <1>2, <1>4, <1>9, <1>12, <2>1 DEF Right, Answered, Supplied, Quiet, Same
<1> QED BY <1>3, <1>9, <1>10, <1>12, GoesOn DEF Same, d

\* The reply is read, and written over the entry of the table.
LEMMA ReadsReplyKeeps ==
  ASSUME PcomInv, NEW l \in PcomLevels, ReadsReply(l), ClocksLookup' = TableAfter(l),
         UNCHANGED <<ANDRBOOT, chip, pcomDirty>>
  PROVE  PcomInv'
<1>1. PcomTypes /\ MailTypes
  BY DEF PcomInv, PcomTypes
<1> DEFINE d == pcomCall[l]
           d1 == IF d.ok THEN mbox.data1 ELSE d.d1
           d2 == IF d.ok THEN mbox.data2 ELSE d.d2
           a == [d EXCEPT !.at = "leave"]
           b == [a EXCEPT !.d1 = d1]
           c == [b EXCEPT !.d2 = d2]
<1>2. d.at = "reply" /\ UNCHANGED <<mbox, modem>>
  BY DEF ReadsReply
<1>3. d \in Standing
  BY <1>1, <1>2, StandingCall
<1>4. ASSUME Undisturbed PROVE Right(d)
  BY <1>3, <1>4, StandsRight
<1>5. d1 \in Nat /\ d2 \in Seconds
  BY <1>1, <1>3 DEF Standing, Fields, MailTypes
<1>6. pcomCall' = [pcomCall EXCEPT ![l] = c]
  BY <1>1, <1>3 DEF ReadsReply, PcomTypes, Standing, Fields
<1>7. ClocksLookup' = IF d.cell = "" \/ ~d.ok THEN ClocksLookup
                      ELSE [ClocksLookup EXCEPT ![d.cell] = mbox.data1]
  BY DEF TableAfter
<1>8. d.ok => d1 = mbox.data1
  OBVIOUS
<1>9. ~d.ok => d1 = d.d1
  OBVIOUS
<1> HIDE DEF d, d1, d2
<1>10. a \in Fields(Seq(Waiting)) /\ a.at = "leave" /\ Same(a, d)
  BY <1>3 DEF Standing, Fields, Same
<1> HIDE DEF a
<1>11. /\ b \in Fields(Seq(Waiting)) /\ b.at = "leave" /\ b.d1 = d1 /\ b.cmd = d.cmd
       /\ b.cell = d.cell /\ b.retry = d.retry /\ b.dirty = d.dirty
  BY <1>5, <1>10 DEF Fields, Same
<1> HIDE DEF b
<1>12. /\ c \in Fields(Seq(Waiting)) /\ c.at = "leave" /\ c.d1 = d1 /\ c.cmd = d.cmd
       /\ c.cell = d.cell /\ c.retry = d.retry /\ c.dirty = d.dirty
  BY <1>5, <1>11 DEF Fields
<1> HIDE DEF c
<1>13. c \in Standing
  BY <1>3, <1>12 DEF Standing
<1>14. PICK e \in Standing :
         /\ pcomCall' = [pcomCall EXCEPT ![l] = e]
         /\ e.at = "leave" /\ e.d1 = d1 /\ e.cmd = d.cmd
         /\ e.cell = d.cell /\ e.retry = d.retry /\ e.dirty = d.dirty
  BY <1>6, <1>12, <1>13
<1>15. d.cell # "" => d.cell \in DOMAIN FillClocksLookup
  BY <1>3 DEF Standing, Fields
<1>16. MailTypes'
  <2>1. ClocksLookup' \in [DOMAIN FillClocksLookup -> Nat]
    BY <1>1, <1>7, <1>15 DEF MailTypes
  <2> QED BY <1>1, <1>2, <2>1 DEF MailTypes
<1>17. ASSUME Undisturbed PROVE Right(e)' /\ ClocksLookup' = ClocksLookup
  <2>1. /\ Answered(d) /\ Supplied(d) /\ mbox.data1 = d.d1
        /\ d.cell # "" => FillClocksLookup[d.cell] = d.d1
        /\ d.cmd = "switch" => d.d1 = 1
    BY <1>2, <1>4, <1>17 DEF Right, Answered
  <2>2. d1 = d.d1
    BY <1>3, <1>8, <1>9, <2>1 DEF Standing, Fields
  <2>3. ClocksLookup = FillClocksLookup
    BY <1>17 DEF PcomInv, OneCall
  <2>4. ClocksLookup' = ClocksLookup
    BY ZenonT(30), <1>1, <1>7, <1>15, <2>1, <2>3 DEF MailTypes
  <2>5. e.d1 = d.d1
    BY <1>14, <2>2
  <2>6. Answered(e)' /\ Supplied(e)'
    BY <1>2, <1>14, <2>1, <2>5 DEF Answered, Supplied, Quiet
  <2> QED BY <1>14, <2>1, <2>4, <2>5, <2>6 DEF Right
<1> QED BY <1>3, <1>14, <1>16, <1>17, GoesOn DEF d

\* A call is repeated, makes way for the next one, or returns.
LEMMA ReturnsKeeps ==
  ASSUME PcomInv, NEW l \in PcomLevels, Returns(l),
         pcomDirty' = (pcomDirty \/ pcomCall[l].dirty),
         UNCHANGED <<ClocksLookup, ANDRBOOT, chip>>
  PROVE  PcomInv'
<1>1. PcomTypes /\ MailTypes
  BY DEF PcomInv, PcomTypes
<1> DEFINE d == pcomCall[l]
           a == [d EXCEPT !.at = "ready"]
           b == InTurn(d.todo)
           c == [b EXCEPT !.dirty = d.dirty]
<1>2. d.at = "check" /\ UNCHANGED <<mbox, modem>>
  BY DEF Returns
<1>3. d \in Standing
  BY <1>1, <1>2, StandingCall
<1>4. ASSUME Undisturbed PROVE Right(d)
  BY <1>3, <1>4, StandsRight
<1>5. pcomCall' = [pcomCall EXCEPT ![l] =
         IF Retries(l) THEN a ELSE IF d.todo = <<>> THEN NoPcomCall ELSE c]
  BY DEF Returns
<1>6. pcomDirty' = (pcomDirty \/ d.dirty) /\ MailTypes' /\ (pcomDirty => pcomDirty')
  <2>1. d.dirty \in BOOLEAN
    BY <1>3 DEF Standing, Fields
  <2> QED BY <1>1, <1>2, <2>1 DEF MailTypes
<1>7. d.todo \in Seq(Waiting) /\ d.dirty \in BOOLEAN
  BY <1>3 DEF Standing, Fields
<1> HIDE DEF d
<1>8. CASE Retries(l)
  <2>1. a \in Standing /\ a.at = "ready" /\ Same(a, d)
    BY <1>3 DEF Standing, Fields, Same
  <2> HIDE DEF a
  <2>2. PICK e \in Standing :
          pcomCall' = [pcomCall EXCEPT ![l] = e] /\ e.at = "ready" /\ Same(e, d)
    BY <1>5, <1>8, <2>1
  <2>3. ASSUME Undisturbed PROVE Right(e)'
    BY <1>2, <1>4, <2>2, <2>3 DEF Right, Idle, Quiet, Same
  <2> QED BY <1>3, <1>6, <2>2, <2>3, GoesOn DEF Same, d
<1>9. CASE ~Retries(l) /\ d.todo # <<>>
  <2>1. Begins(b)
    BY <1>7, <1>9, TurnBegins
  <2>2. b.cell = ""
    <3> DEFINE r == d.todo[1]
               t == Tail(d.todo)
    <3>1. r \in Waiting
      <4>1. 1 \in 1..Len(d.todo)
        BY <1>7, <1>9, EmptySeq, LenProperties
      <4> QED BY <1>7, <4>1, ElementOfSeq
    <3>2. b = [r EXCEPT !.todo = t]
      BY DEF InTurn
    <3> HIDE DEF r, t, b
    <3> QED BY <3>1, <3>2 DEF Waiting, Fields
  <2> HIDE DEF b
  <2>3. /\ c \in Standing /\ c.at = "ready" /\ c.cell = "" /\ c.dirty = d.dirty
        /\ c.cmd = "switch" => c.d1 = 1
    BY <1>7, <2>1, <2>2 DEF Begins, Standing, Fields
  <2> HIDE DEF c
  <2>4. PICK e \in Standing :
          /\ pcomCall' = [pcomCall EXCEPT ![l] = e]
          /\ e.at = "ready" /\ e.cell = "" /\ e.dirty = d.dirty
          /\ e.cmd = "switch" => e.d1 = 1
    BY <1>5, <1>9, <2>3
  <2>5. ASSUME Undisturbed PROVE Right(e)'
    <3>1. Idle'
      BY <1>2, <1>4, <2>5 DEF Right, Idle, Quiet
    <3> QED BY <2>4, <3>1 DEF Right
  <2> QED BY <1>3, <1>6, <2>4, <2>5, GoesOn DEF d
<1>10. CASE ~Retries(l) /\ d.todo = <<>>
  <2>1. /\ pcomCall'[l] = NoPcomCall
        /\ \A k \in PcomLevels : k # l => pcomCall'[k] = pcomCall[k]
        /\ pcomCall' \in [PcomLevels -> Standing \cup {NoPcomCall}]
    BY <1>1, <1>5, <1>10 DEF PcomTypes
  <2>2. ASSUME Undisturbed' PROVE OneCall'
    <3>1. Undisturbed
      BY <1>6, <2>1, <2>2 DEF Undisturbed, d
    <3>2. \A k \in PcomLevels : pcomCall'[k] = NoPcomCall
      BY <1>3, <2>1, <3>1, NotNone DEF PcomInv, OneCall, Alone, d
    <3>3. Idle'
      BY <1>2, <1>4, <3>1 DEF Right, Idle, Quiet
    <3>4. ClocksLookup' = FillClocksLookup
      BY <3>1 DEF PcomInv, OneCall
    <3> QED BY <3>2, <3>3, <3>4 DEF OneCall, Alone
  <2> QED BY <1>6, <2>1, <2>2 DEF PcomInv, PcomTypes
<1> QED BY <1>8, <1>9, <1>10

\* The modem does something, and no call.
LEMMA ModemKeeps ==
  ASSUME PcomInv, UNCHANGED <<pcomCall, ClocksLookup, pcomDirty>>, MailTypes',
         Idle => Idle',
         \A c \in Standing : Right(c) => Right(c)'
  PROVE  PcomInv'
<1>1. PcomTypes'
  BY DEF PcomInv, PcomTypes
<1>2. Undisturbed' = Undisturbed
  BY DEF Undisturbed
<1>3. ASSUME Undisturbed PROVE OneCall'
  <2>1. OneCall
    BY <1>3 DEF PcomInv
  <2>2. \A l \in PcomLevels : pcomCall'[l] # NoPcomCall => Right(pcomCall[l])'
    <3> SUFFICES ASSUME NEW l \in PcomLevels, pcomCall'[l] # NoPcomCall
                 PROVE  Right(pcomCall[l])'
      OBVIOUS
    <3>1. pcomCall[l] \in Standing
      BY DEF PcomInv, PcomTypes
    <3>2. PICK c \in Standing : c = pcomCall[l]
      BY <3>1
    <3>3. Right(c)' /\ pcomCall'[l] = c
      BY <2>1, <3>2 DEF OneCall
    <3> QED BY <3>3 DEF Right, Answered, Supplied
  <2>3. Alone' = Alone
    BY DEF Alone
  <2> QED BY <2>1, <2>2, <2>3 DEF OneCall
<1> QED BY <1>1, <1>2, <1>3 DEF PcomInv

\* The modem looks into the mailbox.
LEMMA ModemTakesKeeps ==
  ASSUME PcomInv, ModemTakes, UNCHANGED <<ClocksLookup, ANDRBOOT, chip, pcomDirty>>
  PROVE  PcomInv'
<1>1. MailTypes
  BY DEF PcomInv, PcomTypes
<1> DEFINE takes == mbox.command \notin {PCOM_CMD_IDLE, PCOM_CMD_DONE}
           a == [modem EXCEPT !.rung = FALSE]
<1>2. /\ modem.rung /\ ~modem.busy /\ UNCHANGED <<mbox, pcomCall>>
      /\ modem' = [a EXCEPT !.busy = takes]
  BY DEF ModemTakes
<1>3. takes \in BOOLEAN
  OBVIOUS
<1>4. \A c \in Standing : mbox.command = c.cmd => takes
  BY DEF Standing, Commands, PCOM_CMD_IDLE, PCOM_CMD_DONE
<1> HIDE DEF takes
<1>5. a \in [rung : BOOLEAN, busy : BOOLEAN, fails : 0..MaxFails] /\ ~a.rung
  BY <1>1 DEF MailTypes
<1> HIDE DEF a
<1>6. /\ modem' \in [rung : BOOLEAN, busy : BOOLEAN, fails : 0..MaxFails]
      /\ ~modem'.rung /\ modem'.busy = takes
  BY <1>2, <1>3, <1>5
<1>7. MailTypes'
  BY <1>1, <1>2, <1>6 DEF MailTypes
<1>8. ASSUME NEW c \in Standing, Right(c) PROVE Right(c)'
  <2>1. c.at = "done"
    BY <1>2, <1>8 DEF Right, Idle, Quiet, Answered, Standing, Fields
  <2>2. mbox.command = c.cmd /\ mbox.data1 = c.d1
    BY <1>2, <1>8, <2>1 DEF Right, Answered, Quiet
  <2>3. mbox'.command = c.cmd /\ mbox'.data1 = c.d1 /\ modem'.rung = ~modem'.busy
    BY <1>2, <1>4, <1>6, <2>2
  <2> QED BY <1>8, <2>1, <2>3 DEF Right
<1> QED BY <1>2, <1>7, <1>8, ModemKeeps DEF Idle, Quiet

\* The modem answers.
LEMMA ModemAnswersKeeps ==
  ASSUME PcomInv, NEW status \in {"success"} \cup PcomFailures, ModemAnswers(status),
         status \in PcomFailures => modem.fails < MaxFails,
         status = "success" /\ mbox.command = "switch" => chip'.supply = mbox.data1,
         chip' \in [reset : BOOLEAN, supply : Nat],
         UNCHANGED <<ClocksLookup, ANDRBOOT, pcomDirty>>
  PROVE  PcomInv'
<1>1. MailTypes
  BY DEF PcomInv, PcomTypes
<1> DEFINE fails == IF status \in PcomFailures THEN modem.fails + 1 ELSE modem.fails
           reply == <<mbox.command, mbox.data1>>
           a == [modem EXCEPT !.busy = FALSE]
           b == [mbox EXCEPT !.command = PCOM_CMD_DONE]
           d == [b EXCEPT !.status = status]
           Boxes ==
             [command : Commands \cup {PCOM_CMD_IDLE, PCOM_CMD_DONE}, data1 : Nat,
               data2 : Seconds, status : {"none", "success"} \cup PcomFailures,
               of : {<<>>} \cup ((Commands \cup {PCOM_CMD_IDLE, PCOM_CMD_DONE}) \X Nat)]
<1>2. /\ modem.busy /\ UNCHANGED pcomCall
      /\ modem' = [a EXCEPT !.fails = fails] /\ mbox' = [d EXCEPT !.of = reply]
  BY <1>1 DEF ModemAnswers, MailTypes
<1>3. fails \in 0..MaxFails
  <2>1. MaxFails \in Nat /\ modem.fails \in 0..MaxFails
    BY <1>1, PcomAssumption DEF MailTypes
  <2> QED BY <2>1
<1>4. reply \in {<<>>} \cup ((Commands \cup {PCOM_CMD_IDLE, PCOM_CMD_DONE}) \X Nat)
  BY <1>1 DEF MailTypes
<1>5. \A c \in Standing : mbox.command = c.cmd /\ mbox.data1 = c.d1 => reply = <<c.cmd, c.d1>>
  OBVIOUS
<1> HIDE DEF fails, reply
<1>6. a \in [rung : BOOLEAN, busy : BOOLEAN, fails : 0..MaxFails] /\ ~a.busy /\ a.rung = modem.rung
  BY <1>1 DEF MailTypes
<1> HIDE DEF a
<1>7. /\ modem' \in [rung : BOOLEAN, busy : BOOLEAN, fails : 0..MaxFails]
      /\ ~modem'.busy /\ modem'.rung = modem.rung
  BY <1>2, <1>3, <1>6
<1>8. b \in Boxes /\ b.command = PCOM_CMD_DONE /\ b.data1 = mbox.data1
  BY <1>1 DEF MailTypes
<1> HIDE DEF b
<1>9. d \in Boxes /\ d.command = PCOM_CMD_DONE /\ d.data1 = mbox.data1 /\ d.status = status
  BY <1>8
<1> HIDE DEF d
<1>10. /\ mbox' \in Boxes /\ mbox'.command = PCOM_CMD_DONE /\ mbox'.data1 = mbox.data1
       /\ mbox'.status = status /\ mbox'.of = reply
  BY <1>2, <1>4, <1>9
<1>11. MailTypes'
  BY <1>1, <1>7, <1>10 DEF MailTypes
<1>12. ASSUME NEW c \in Standing, Right(c) PROVE Right(c)'
  <2>1. c.at = "done"
    BY <1>2, <1>12 DEF Right, Idle, Quiet, Answered, Standing, Fields
  <2>2. mbox.command = c.cmd /\ mbox.data1 = c.d1 /\ modem.rung = ~modem.busy
    BY <1>2, <1>12, <2>1 DEF Right, Answered, Quiet
  <2>3. ~modem.rung
    BY <1>1, <1>2, <2>2 DEF MailTypes
  <2>4. mbox'.of = <<c.cmd, c.d1>>
    BY <1>5, <1>10, <2>2
  <2>5. Answered(c)'
    BY <1>7, <1>10, <2>2, <2>3, <2>4 DEF Answered, Quiet
  <2>6. c.cmd = "switch" => c.d1 = 1
    BY <1>12 DEF Right
  <2>7. Supplied(c)'
    BY <1>10, <2>2, <2>6 DEF Supplied
  <2> QED BY <1>12, <2>1, <2>5, <2>7 DEF Right
<1> QED BY <1>2, <1>11, <1>12, ModemKeeps DEF Idle, Quiet

\* Nothing is asked for yet.
LEMMA PcomStarts ==
  ASSUME ClockInit
  PROVE  PcomInv
<1>1. mbox = [command |-> PCOM_CMD_IDLE, data1 |-> 0, data2 |-> 0,
              status |-> "none", of |-> <<>>]
  BY DEF ClockInit, PcomInit
<1>2. modem = [rung |-> FALSE, busy |-> FALSE, fails |-> 0]
  BY DEF ClockInit, PcomInit
<1>3. pcomCall = [l \in PcomLevels |-> NoPcomCall]
  BY DEF ClockInit, PcomInit
<1>4. /\ ClocksLookup = FillClocksLookup /\ ANDRBOOT = "no"
      /\ chip = [reset |-> FALSE, supply |-> 0] /\ pcomDirty = FALSE
  BY DEF ClockInit
<1>5. FillClocksLookup \in [DOMAIN FillClocksLookup -> Nat]
  BY DEF FillClocksLookup
<1>6. MailTypes
  <2>1. 0 \in Seconds /\ 0 \in 0..MaxFails
    BY PcomAssumption DEF Seconds
  <2> HIDE DEF FillClocksLookup, Seconds, Commands
  <2> QED BY <1>1, <1>2, <1>4, <1>5, <2>1 DEF MailTypes
<1>7. PcomTypes
  BY <1>3, <1>6 DEF PcomTypes
<1>8. OneCall
  <2>1. Idle
    BY <1>1, <1>2 DEF Idle, Quiet
  <2> QED BY <1>3, <1>4, <2>1 DEF OneCall, Alone
<1> QED BY <1>7, <1>8 DEF PcomInv

\* Every step keeps the invariant.
LEMMA ClockStepKeeps ==
  ASSUME PcomInv, ClockNext
  PROVE  PcomInv'
<1>1. PcomTypes /\ MailTypes
  BY DEF PcomInv, PcomTypes
<1>2. TPL_APPLICATION \in PcomLevels /\ TPL_NOTIFY \in PcomLevels
  BY ClockAssumption
<1>3. 0 \in Seconds
  BY DEF Seconds
<1>4. CASE ClockCall
  <2>1. PICK p \in Programs : msm_proc_comm(TPL_APPLICATION, p)
    BY <1>4 DEF ClockCall, PcomCalls
  <2>2. Begins(InTurn(p))
    BY <1>1, ProgramBegins
  <2>3. UNCHANGED <<ClocksLookup, ANDRBOOT, chip, pcomDirty>>
    BY <1>4 DEF ClockCall
  <2>4. ANDRBOOT' \in {"no", "marked", "asked", "off"}
    BY <1>1, <2>3 DEF MailTypes
  <2> HIDE DEF TPL_APPLICATION
  <2> QED BY <1>2, <2>1, <2>2, <2>3, <2>4, CallKeeps
<1>5. CASE RecoversBus
  <2> DEFINE pin == 95
             next == 96
             q == pcom_gpio_tlmm_config(pin)
             r == pcom_gpio_tlmm_config(next)
             p == <<q, r>>
  <2>1. q \in Waiting /\ r \in Waiting
    <3>1. "gpio" \in Commands /\ "gpio" # "switch" /\ pin \in Nat /\ next \in Nat
      BY DEF Commands
    <3> HIDE DEF pin, next
    <3> QED BY <1>3, <3>1, RequestWaits DEF pcom_gpio_tlmm_config
  <2>2. msm_proc_comm(TPL_NOTIFY, p)
    BY <1>5 DEF RecoversBus, PcomCalls
  <2>3. UNCHANGED <<ClocksLookup, ANDRBOOT, chip, pcomDirty>>
    BY <1>5 DEF RecoversBus
  <2> HIDE DEF q, r
  <2>4. p \in Seq(Waiting) /\ p # <<>>
    BY <2>1
  <2> HIDE DEF p
  <2>5. Begins(InTurn(p))
    BY <2>4, TurnBegins
  <2>6. ANDRBOOT' \in {"no", "marked", "asked", "off"}
    BY <1>1, <2>3 DEF MailTypes
  <2> HIDE DEF TPL_NOTIFY
  <2> QED BY <1>2, <2>2, <2>3, <2>5, <2>6, CallKeeps
<1>6. CASE htcleo_reboot
  <2>1. /\ UNCHANGED <<mbox, modem, pcomCall, ClocksLookup, chip, pcomDirty>>
        /\ ANDRBOOT' = "marked"
    BY <1>6 DEF htcleo_reboot, pcomVars
  <2>2. MailTypes'
    BY <1>1, <2>1 DEF MailTypes
  <2> QED BY ZenonT(30), <2>1, <2>2, ModemKeeps DEF Idle, Quiet, Right, Answered, Supplied
<1>7. CASE htcleo_shutdown
  <2> DEFINE p == <<Request("power down", 0, 0)>>
  <2>1. msm_proc_comm(TPL_APPLICATION, p) /\ ANDRBOOT' = "off"
        /\ UNCHANGED <<ClocksLookup, chip, pcomDirty>>
    BY <1>7 DEF htcleo_shutdown
  <2>2. Begins(InTurn(p))
    <3> DEFINE zero == 0
    <3>1. "power down" \in Commands /\ "power down" # "switch" /\ zero \in Nat /\ zero \in Seconds
      BY <1>3 DEF Commands
    <3> HIDE DEF zero
    <3>2. Begins(InTurn(<<Request("power down", zero, zero)>>))
      BY <3>1, PlainBegins
    <3> QED BY <3>2 DEF zero
  <2> HIDE DEF TPL_APPLICATION, p
  <2> QED BY <1>2, <2>1, <2>2, CallKeeps
<1>8. CASE reboot
  <2> DEFINE p == <<Request("reset", 0, 0)>>
  <2>1. msm_proc_comm(TPL_APPLICATION, p) /\ ANDRBOOT' = "asked"
        /\ UNCHANGED <<ClocksLookup, chip, pcomDirty>>
    BY <1>8 DEF reboot
  <2>2. Begins(InTurn(p))
    <3> DEFINE zero == 0
    <3>1. "reset" \in Commands /\ "reset" # "switch" /\ zero \in Nat /\ zero \in Seconds
      BY <1>3 DEF Commands
    <3> HIDE DEF zero
    <3>2. Begins(InTurn(<<Request("reset", zero, zero)>>))
      BY <3>1, PlainBegins
    <3> QED BY <3>2 DEF zero
  <2> HIDE DEF TPL_APPLICATION, p
  <2> QED BY <1>2, <2>1, <2>2, CallKeeps
<1>9. CASE CallSteps
  <2>1. UNCHANGED <<ANDRBOOT, chip>>
    BY <1>9 DEF CallSteps
  <2>2. PICK l \in PcomLevels :
          \/ /\ WritesCommand(l) \/ WritesData(l) \/ notify_modem(l) \/ ReadsStatus(l) \/ Leaves(l)
             /\ UNCHANGED <<ClocksLookup, pcomDirty>>
          \/ ReadsReply(l) /\ ClocksLookup' = TableAfter(l) /\ UNCHANGED pcomDirty
          \/ /\ Returns(l) /\ UNCHANGED ClocksLookup
             /\ pcomDirty' = (pcomDirty \/ pcomCall[l].dirty)
    BY <1>9 DEF CallSteps
  <2> QED BY <2>1, <2>2, WritesCommandKeeps, WritesDataKeeps, NotifyKeeps, ReadsStatusKeeps,
             LeavesKeeps, ReadsReplyKeeps, ReturnsKeeps
<1>10. CASE ModemSteps
  <2>1. UNCHANGED <<ClocksLookup, ANDRBOOT, pcomDirty>>
    BY <1>10 DEF ModemSteps
  <2>2. CASE ModemTakes /\ UNCHANGED chip
    BY <2>1, <2>2, ModemTakesKeeps
  <2>3. CASE /\ ModemAnswers("success")
             /\ chip' = [reset |-> chip.reset \/ mbox.command \in {"reset", "power down"},
                      supply |-> IF mbox.command = "switch" THEN mbox.data1 ELSE chip.supply]
    <3> DEFINE off == chip.reset \/ mbox.command \in {"reset", "power down"}
               power == IF mbox.command = "switch" THEN mbox.data1 ELSE chip.supply
    <3>1. off \in BOOLEAN /\ power \in Nat /\ (mbox.command = "switch" => power = mbox.data1)
      BY <1>1 DEF MailTypes
    <3>2. chip' = [reset |-> off, supply |-> power] /\ ModemAnswers("success")
      BY <2>3
    <3> HIDE DEF off, power
    <3>3. chip' \in [reset : BOOLEAN, supply : Nat] /\ chip'.supply = power
      BY <3>1, <3>2
    <3>4. "success" \notin PcomFailures
      BY DEF PcomFailures, PCOM_CMD_FAIL
    <3> QED BY <2>1, <3>1, <3>2, <3>3, <3>4, ModemAnswersKeeps
  <2>4. ASSUME NEW status \in PcomFailures, modem.fails < MaxFails, ModemAnswers(status),
               UNCHANGED chip
        PROVE  PcomInv'
    <3>1. chip' \in [reset : BOOLEAN, supply : Nat]
      BY <1>1, <2>4 DEF MailTypes
    <3>2. status # "success"
      BY <2>4 DEF PcomFailures, PCOM_CMD_FAIL
    <3> QED BY <2>1, <2>4, <3>1, <3>2, ModemAnswersKeeps
  <2> QED BY <1>10, <2>2, <2>3, <2>4 DEF ModemSteps
<1> QED BY <1>4, <1>5, <1>6, <1>7, <1>8, <1>9, <1>10 DEF ClockNext

\* A behaviour of the mailbox and its callers keeps the invariant.
LEMMA PcomAlways == ClockSpec => []PcomInv
<1>1. ClockInit => PcomInv
  BY PcomStarts
<1>2. PcomInv /\ [ClockNext]_<<pcomVars, clockVars>> => PcomInv'
  <2> SUFFICES ASSUME PcomInv, [ClockNext]_<<pcomVars, clockVars>> PROVE PcomInv'
    OBVIOUS
  <2>1. CASE UNCHANGED <<pcomVars, clockVars>>
    <3>1. UNCHANGED <<mbox, modem, pcomCall, ClocksLookup, ANDRBOOT, chip, pcomDirty>>
      BY <2>1 DEF pcomVars, clockVars
    <3>2. MailTypes'
      BY <3>1 DEF PcomInv, PcomTypes, MailTypes
    <3> QED BY ZenonT(30), <3>1, <3>2, ModemKeeps DEF Idle, Quiet, Right, Answered, Supplied
  <2> QED BY <2>1, ClockStepKeeps
<1> QED BY <1>1, <1>2, PTL DEF ClockSpec

(* For every clock, controller, rate and number of failures: a call that is *)
(* not cut into takes the modem's answer to its own command, and the clock   *)
(* table, which every reply is written over, stays as it was filled          *)
(* (msm_proc_comm and its callers).                                          *)
THEOREM CallsAreUndisturbed == ClockSpec => []CallsUndisturbed
<1>1. PcomInv => CallsUndisturbed
  <2> SUFFICES ASSUME PcomInv PROVE CallsUndisturbed
    OBVIOUS
  <2>1. PcomTypes /\ MailTypes
    BY DEF PcomInv, PcomTypes
  <2>2. ClockTypeOK
    <3>1. \A l \in PcomLevels : pcomCall[l].at \in
             {"end", "ready", "data", "ring", "done", "reply", "leave", "check"}
      <4>1. NoPcomCall.at = "end"
        BY DEF NoPcomCall
      <4> QED BY <2>1, <4>1 DEF PcomTypes, Standing, Fields
    <3> QED BY <2>1, <3>1 DEF ClockTypeOK, MailTypes
  <2>3. UndisturbedGetsOwnAnswer
    <3> SUFFICES ASSUME NEW l \in PcomLevels, pcomCall[l].at = "reply", Undisturbed
                 PROVE  mbox.of = <<pcomCall[l].cmd, pcomCall[l].d1>>
      BY DEF UndisturbedGetsOwnAnswer
    <3>1. pcomCall[l] \in Standing
      BY <2>1, StandingCall
    <3> QED BY <3>1, StandsRight DEF Right, Answered
  <2>4. TableIntact
    BY DEF PcomInv, OneCall, TableIntact
  <2> QED BY <2>2, <2>3, <2>4 DEF CallsUndisturbed
<1> QED BY <1>1, PcomAlways, PTL

\* A call ends when it returns, and in no other step.
LEMMA EndsByReturning ==
  ASSUME PcomTypes, [ClockNext]_<<pcomVars, clockVars>>, NEW l \in PcomLevels,
         pcomCall[l] \in Standing, pcomCall'[l] = NoPcomCall
  PROVE  Returns(l)
<1>1. NoPcomCall.at = "end" /\ pcomCall[l] # NoPcomCall
  BY NotNone DEF NoPcomCall
<1>2. CASE UNCHANGED pcomCall
  BY <1>1, <1>2
<1>3. ASSUME NEW k \in PcomLevels, NEW p, msm_proc_comm(k, p) PROVE FALSE
  <2>1. PcomLevels \subseteq Nat
    BY PcomAssumption
  <2>2. k # l
    BY <1>1, <1>3, <2>1 DEF msm_proc_comm
  <2> DEFINE d == pcomCall[l]
  <2>3. pcomCall'[l] = [d EXCEPT !.dirty = TRUE] /\ d \in Standing
    BY <1>1, <1>3, <2>2 DEF msm_proc_comm
  <2> HIDE DEF d
  <2>4. pcomCall'[l].at # "end"
    BY <2>3 DEF Standing, Fields
  <2> QED BY <1>1, <2>4
<1>4. ASSUME NEW k \in PcomLevels, k # l, NEW e, pcomCall' = [pcomCall EXCEPT ![k] = e]
      PROVE  FALSE
  BY <1>1, <1>4 DEF PcomTypes
<1>5. ASSUME NEW k \in PcomLevels, NEW from, NEW to, from # "end",
             to \in {"ready", "data", "ring", "done", "reply", "leave", "check"},
             Moves(k, from, to)
      PROVE  FALSE
  <2>1. PICK c \in Standing : pcomCall' = [pcomCall EXCEPT ![k] = c]
    BY <1>5, MovesOn
  <2>2. CASE k # l
    BY <1>4, <2>1, <2>2
  <2>3. CASE k = l
    <3>1. pcomCall'[l] = c
      BY <2>1, <2>3 DEF PcomTypes
    <3> QED BY <3>1, NotNone
  <2> QED BY <2>2, <2>3
<1>6. ASSUME NEW k \in PcomLevels, ReadsStatus(k) PROVE FALSE
  <2> DEFINE d == pcomCall[k]
             good == mbox.status # PCOM_CMD_FAIL
             a == [d EXCEPT !.at = "reply"]
             c == [a EXCEPT !.ok = good]
  <2>1. pcomCall' = [pcomCall EXCEPT ![k] = c] /\ d.at = "done"
    BY <1>6 DEF ReadsStatus
  <2>2. d \in Standing
    BY <2>1, StandingCall
  <2> HIDE DEF d, good
  <2>3. a \in Fields(Seq(Waiting)) /\ a.at = "reply"
    BY <2>2 DEF Standing, Fields
  <2> HIDE DEF a
  <2>4. c.at # "end"
    BY <2>3 DEF Fields
  <2> HIDE DEF c
  <2>5. CASE k = l
    BY <1>1, <2>1, <2>4, <2>5 DEF PcomTypes
  <2> QED BY <1>4, <2>1, <2>5
<1>7. ASSUME NEW k \in PcomLevels, ReadsReply(k) PROVE FALSE
  <2> DEFINE d == pcomCall[k]
             d1 == IF d.ok THEN mbox.data1 ELSE d.d1
             d2 == IF d.ok THEN mbox.data2 ELSE d.d2
             a == [d EXCEPT !.at = "leave"]
             b == [a EXCEPT !.d1 = d1]
             c == [b EXCEPT !.d2 = d2]
  <2>1. d.at = "reply"
    BY <1>7 DEF ReadsReply
  <2>2. d \in Standing
    BY <2>1, StandingCall
  <2>3. d1 \in Nat /\ d2 \in Seconds
    BY <2>2 DEF Standing, Fields, PcomTypes, MailTypes
  <2>4. pcomCall' = [pcomCall EXCEPT ![k] = c]
    BY <1>7, <2>2 DEF ReadsReply, PcomTypes, Standing, Fields
  <2> HIDE DEF d, d1, d2
  <2>5. a \in Fields(Seq(Waiting)) /\ a.at = "leave"
    BY <2>2 DEF Standing, Fields
  <2> HIDE DEF a
  <2>6. b \in Fields(Seq(Waiting)) /\ b.at = "leave"
    BY <2>3, <2>5 DEF Fields
  <2> HIDE DEF b
  <2>7. c.at # "end"
    BY <2>6 DEF Fields
  <2> HIDE DEF c
  <2>8. CASE k = l
    BY <1>1, <2>4, <2>7, <2>8 DEF PcomTypes
  <2> QED BY <1>4, <2>4, <2>8
<1>8. ASSUME NEW k \in PcomLevels, Returns(k) PROVE k = l
  <2>1. PICK e : pcomCall' = [pcomCall EXCEPT ![k] = e]
    BY <1>8 DEF Returns
  <2> QED BY <1>4, <2>1
<1>9. CASE ClockCall \/ RecoversBus \/ htcleo_shutdown \/ reboot
  <2>1. TPL_APPLICATION \in PcomLevels /\ TPL_NOTIFY \in PcomLevels
    BY ClockAssumption
  <2> HIDE DEF TPL_APPLICATION, TPL_NOTIFY
  <2> QED BY <1>3, <1>9, <2>1 DEF ClockCall, RecoversBus, htcleo_shutdown, reboot, PcomCalls
<1>10. CASE htcleo_reboot \/ ModemSteps \/ UNCHANGED <<pcomVars, clockVars>>
  <2>1. UNCHANGED pcomCall
    BY <1>10 DEF htcleo_reboot, ModemSteps, ModemTakes, ModemAnswers, pcomVars
  <2> QED BY <1>2, <2>1
<1>11. CASE CallSteps
  <2>1. PICK k \in PcomLevels :
          \/ WritesCommand(k) \/ WritesData(k) \/ notify_modem(k) \/ ReadsStatus(k)
          \/ Leaves(k) \/ ReadsReply(k) \/ Returns(k)
    BY <1>11 DEF CallSteps
  <2>2. ~WritesCommand(k) /\ ~WritesData(k) /\ ~notify_modem(k) /\ ~Leaves(k)
    BY <1>5 DEF WritesCommand, WritesData, notify_modem, Leaves
  <2> QED BY <1>6, <1>7, <1>8, <2>1, <2>2
<1> QED BY <1>9, <1>10, <1>11 DEF ClockNext

(* The card's supply is on when a call that switches it returns without     *)
(* having been cut into (pcom_sdcard_power, which retries until it works).  *)
THEOREM SupplyIsOn == ClockSpec => SuppliedWhenReturned
<1> DEFINE Returned == (pcomCall[TPL_APPLICATION].cmd = "switch" /\ Undisturbed
        /\ pcomCall'[TPL_APPLICATION] = NoPcomCall) => chip.supply = 1
<1>1. PcomInv /\ [ClockNext]_<<pcomVars, clockVars>> => [Returned]_<<pcomCall, chip>>
  <2> SUFFICES ASSUME PcomInv, [ClockNext]_<<pcomVars, clockVars>>,
                      pcomCall[TPL_APPLICATION].cmd = "switch", Undisturbed,
                      pcomCall'[TPL_APPLICATION] = NoPcomCall
               PROVE  chip.supply = 1
    OBVIOUS
  <2> DEFINE l == TPL_APPLICATION
             d == pcomCall[l]
  <2>1. l \in PcomLevels /\ PcomTypes /\ MailTypes
    BY ClockAssumption DEF PcomInv, PcomTypes
  <2>2. d # NoPcomCall /\ d \in Standing
    <3>1. NoPcomCall.cmd = "none"
      BY DEF NoPcomCall
    <3> QED BY <2>1, <3>1 DEF PcomTypes
  <2>3. Right(d) /\ d.retry
    BY <2>1, <2>2, StandsRight DEF Standing
  <2>4. Returns(l)
    BY <2>1, <2>2, EndsByReturning
  <2>5. d.at = "check"
    BY <2>4 DEF Returns
  <2>6. mbox.status = "success"
    <3>1. ASSUME Retries(l) PROVE FALSE
      <4> DEFINE a == [d EXCEPT !.at = "ready"]
      <4>1. pcomCall' = [pcomCall EXCEPT ![l] = a]
        BY <2>4, <3>1 DEF Returns
      <4> HIDE DEF l
      <4>2. pcomCall'[l] = a
        BY <2>1, <4>1 DEF PcomTypes
      <4> HIDE DEF d
      <4>3. a.at = "ready"
        BY <2>2 DEF Standing, Fields
      <4>4. NoPcomCall.at = "end" /\ pcomCall'[l] = NoPcomCall
        BY DEF NoPcomCall, l
      <4> HIDE DEF a
      <4> QED BY <4>2, <4>3, <4>4
    <3> QED BY <2>3, <3>1 DEF Retries
  <2> QED BY <2>3, <2>5, <2>6 DEF Right, Supplied
<1> QED BY <1>1, PcomAlways, PTL DEF ClockSpec, SuppliedWhenReturned

=============================================================================
