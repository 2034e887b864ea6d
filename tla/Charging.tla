------------------------------ MODULE Charging ------------------------------
(* Application/ChargingApp/charger.c: every 100 ms a timer notification at  *)
(* TPL_NOTIFY looks at the cable and the battery and sets the charger's     *)
(* pins and the light.  It reads the battery gauge with Library/DS2746Lib,  *)
(* which does not look at the result of its transfers, and sets the light   *)
(* through Drivers/MicroPDxe, whose transfers are tried 17 times.           *)
(* The cable, the battery and the bus (external) change at any step.        *)
EXTENDS Naturals

CONSTANTS
  RawVoltages,    \* voltages of the battery in the gauge's 12 bit units
  JunkBytes,      \* what an unset byte on the stack may hold
  MaxSupplyChanges, \* bound: changes of the cable and the battery
  MaxBusFaults    \* bound: reads that fail, and writes that fail 17 times

\* The gauge converts to 12 bits.
ASSUME ChargeAssumption == RawVoltages \subseteq 0..4095 /\ JunkBytes \subseteq 0..255

VARIABLES
  supply,         \* cable: plugged in; ac: to a charger; raw: the voltage
  chargeAt,       \* where the notification stands, "asserted", or "exited"
  seen,           \* the cable and the voltage this notification has read
  gState,
  chgPins,        \* ENABLE (0 charges) and CURRENT (1 is high); 2: as found
  usbCmd,         \* the USB controller: "found", "stopped" or "running"
  microp,         \* light, and whether its protocol is installed
  supplyChanges, busFaults,
  steady          \* history: no change and no fault since a notification began

chargeVars == <<supply, chargeAt, seen, gState, chgPins, usbCmd, microp,
                supplyChanges, busFaults, steady>>

hardware == <<supply, supplyChanges>>

-----------------------------------------------------------------------------
\* DS2746_VOLTAGE_RES is 2440 uV.
MilliVolt(raw) == (raw * 2440) \div 1000

default_chg_voltage_threshold == 4100

\* ds2746_voltage, from the two bytes.
ds2746_voltage(s0, s1) == MilliVolt(s0 * 16 + s1 \div 16)

Full(raw) == MilliVolt(raw) >= default_chg_voltage_threshold

\* A light write of microp_i2c_write: tries are MSM_I2C_WRITE_RETRY_TIMES + 1.
RetryTimes == 16

WrittenInTime(fails) == fails <= RetryTimes

-----------------------------------------------------------------------------
(* The drivers start, in the order of the flash volume.                     *)

\* The protocol is installed only if the version can be read.
MicroPDxeInitialize ==
  /\ chargeAt = "microp"
  /\ \E fails \in {0, RetryTimes, RetryTimes + 1} :
       /\ microp' = [microp EXCEPT !.installed = WrittenInTime(fails)]
       /\ ~WrittenInTime(fails) => busFaults < MaxBusFaults
       /\ busFaults' = IF WrittenInTime(fails) THEN busFaults ELSE busFaults + 1
  /\ chargeAt' = "init"
  /\ UNCHANGED <<hardware, seen, gState, chgPins, usbCmd, steady>>

ChargingDxeInit ==
  /\ chargeAt = "init"
  /\ chargeAt' = IF microp.installed THEN "idle" ELSE "asserted"
  /\ UNCHANGED <<hardware, seen, gState, chgPins, usbCmd, microp, busFaults, steady>>

-----------------------------------------------------------------------------
(* The charger's pins.                                                      *)

PinsFor(state) ==
  CASE state = "CHG_USB_LOW"              -> [enable |-> 0, current |-> 0]
    [] state \in {"CHG_AC", "CHG_USB_HIGH"} -> [enable |-> 0, current |-> 1]
    [] OTHER                              -> [enable |-> 1, current |-> 1]

\* Mutant: the pins without the state.
SetChargerPinsOnly(state) ==
  IF gState = state THEN UNCHANGED <<gState, chgPins, usbCmd>>
  ELSE /\ chgPins' = PinsFor(state)
       /\ usbCmd' = IF state = "CHG_AC" THEN "stopped" ELSE "running"
       /\ UNCHANGED gState

\* Mutant: the state without the pins, when charging ends.
SetChargerNotOff(state) ==
  IF gState = state THEN UNCHANGED <<gState, chgPins, usbCmd>>
  ELSE /\ gState' = state
       /\ chgPins' = IF state = "CHG_OFF" THEN chgPins ELSE PinsFor(state)
       /\ usbCmd' = IF state = "CHG_AC" THEN "stopped" ELSE "running"

\* SetCharger and what precedes it, unless the state is there already.
SetCharger(state) ==
  IF gState = state THEN UNCHANGED <<gState, chgPins, usbCmd>>
  ELSE /\ gState' = state
       /\ chgPins' = PinsFor(state)
       /\ usbCmd' = IF state = "CHG_AC" THEN "stopped" ELSE "running"

-----------------------------------------------------------------------------
(* WantsCharging.                                                           *)

CheckUsbStatus ==
  /\ chargeAt = "idle"
  /\ seen' = [seen EXCEPT !.cable = supply.cable]
  /\ steady' = TRUE
  /\ IF supply.cable
     THEN chargeAt' = "voltage" /\ UNCHANGED <<gState, chgPins, usbCmd>>
     ELSE chargeAt' = "led" /\ SetCharger("CHG_OFF")
  /\ UNCHANGED <<hardware, microp, busFaults>>

\* Each byte is read on its own; a transfer that fails leaves what was there.
ReadsVoltage ==
  /\ chargeAt = "voltage"
  /\ \E failed \in SUBSET {"msb", "lsb"} :
       /\ failed # {} => busFaults < MaxBusFaults
       /\ busFaults' = IF failed = {} THEN busFaults ELSE busFaults + 1
       /\ steady' = (steady /\ failed = {})
       /\ \E s0 \in IF "msb" \in failed THEN JunkBytes ELSE {supply.raw \div 16},
             s1 \in IF "lsb" \in failed THEN JunkBytes ELSE {(supply.raw % 16) * 16} :
            LET full == ds2746_voltage(s0, s1) >= default_chg_voltage_threshold
            IN  /\ seen' = [seen EXCEPT !.full = full]
                /\ IF full THEN chargeAt' = "led" /\ SetCharger("CHG_OFF_FULL_BAT")
                   ELSE chargeAt' = "ac" /\ UNCHANGED <<gState, chgPins, usbCmd>>
  /\ UNCHANGED <<hardware, microp>>

IsAcOnline ==
  /\ chargeAt = "ac"
  /\ chargeAt' = "led"
  /\ SetCharger(IF supply.ac THEN "CHG_AC" ELSE "CHG_USB_LOW")
  /\ UNCHANGED <<hardware, seen, microp, busFaults, steady>>

LightFor(s) == IF ~s.cable THEN "off" ELSE IF s.full THEN "green" ELSE "amber"

\* htcleo_led_set_mode does not look at the result either.
LedSetMode ==
  /\ chargeAt = "led"
  /\ chargeAt' = "idle"
  /\ \E fails \in {0, RetryTimes, RetryTimes + 1} :
       IF WrittenInTime(fails)
       THEN microp' = [microp EXCEPT !.light = LightFor(seen)] /\ UNCHANGED <<busFaults, steady>>
       ELSE /\ busFaults < MaxBusFaults
            /\ busFaults' = busFaults + 1
            /\ steady' = FALSE
            /\ UNCHANGED microp
  /\ UNCHANGED <<hardware, seen, gState, chgPins, usbCmd>>

\* The core stops the tick and has run what it queued before it signals this.
ExitBootServicesEvent ==
  /\ chargeAt = "idle"
  /\ chargeAt' = "exited"
  /\ SetCharger("CHG_OFF")
  /\ \E written \in BOOLEAN :
       /\ written \/ busFaults < MaxBusFaults
       /\ microp' = [microp EXCEPT !.light = IF written THEN "off" ELSE @]
       /\ busFaults' = IF written THEN busFaults ELSE busFaults + 1
       /\ steady' = written
  /\ UNCHANGED <<hardware, seen>>

-----------------------------------------------------------------------------
(* The surroundings.                                                        *)

SupplyChanges ==
  /\ supplyChanges < MaxSupplyChanges
  /\ supplyChanges' = supplyChanges + 1
  /\ supply' \in [cable : BOOLEAN, ac : BOOLEAN, raw : RawVoltages]
  /\ supply' # supply
  /\ steady' = FALSE
  /\ UNCHANGED <<chargeAt, seen, gState, chgPins, usbCmd, microp, busFaults>>

ChargeInit ==
  /\ supply \in [cable : BOOLEAN, ac : BOOLEAN, raw : RawVoltages]
  /\ chargeAt = "microp"
  /\ seen = [cable |-> FALSE, full |-> FALSE]
  /\ gState = "CHG_OFF"
  /\ chgPins = [enable |-> 2, current |-> 2]
  /\ usbCmd = "found"
  /\ microp = [light |-> "found", installed |-> FALSE]
  /\ supplyChanges = 0 /\ busFaults = 0
  /\ steady = FALSE

WantsCharging == CheckUsbStatus \/ ReadsVoltage \/ IsAcOnline \/ LedSetMode

ChargeNext ==
  \/ MicroPDxeInitialize \/ ChargingDxeInit \/ WantsCharging
  \/ ExitBootServicesEvent \/ SupplyChanges

ChargeSpec == ChargeInit /\ [][ChargeNext]_chargeVars

-----------------------------------------------------------------------------
WantedState ==
  IF ~supply.cable THEN "CHG_OFF"
  ELSE IF Full(supply.raw) THEN "CHG_OFF_FULL_BAT"
  ELSE IF supply.ac THEN "CHG_AC" ELSE "CHG_USB_LOW"

WantedLight ==
  CASE WantedState = "CHG_OFF" -> "off" [] WantedState = "CHG_OFF_FULL_BAT" -> "green"
    [] OTHER -> "amber"

ChargeTypeOK ==
  /\ gState \in {"CHG_OFF", "CHG_AC", "CHG_USB_LOW", "CHG_USB_HIGH", "CHG_OFF_FULL_BAT"}
  /\ chgPins \in [enable : 0..2, current : 0..2]
  /\ microp \in [light : {"found", "off", "green", "amber"}, installed : BOOLEAN]
  /\ usbCmd \in {"found", "stopped", "running"}
  /\ seen \in [cable : BOOLEAN, full : BOOLEAN]

(* Once a whole notification has run with nothing changing and no transfer  *)
(* failing, state and light are those of the cable and the battery.         *)
SteadyMeansRight ==
  (chargeAt = "idle" /\ steady) => gState = WantedState /\ microp.light = WantedLight

(* The pins and the USB controller are those of gState; the first state,    *)
(* CHG_OFF, is assumed of pins that have never been written.                *)
PinsMatchState ==
  IF chgPins.enable = 2 THEN gState = "CHG_OFF" /\ usbCmd = "found"
  ELSE /\ chgPins = PinsFor(gState)
       /\ usbCmd = IF gState = "CHG_AC" THEN "stopped" ELSE "running"

(* "Set charger state to CHG_OFF": nothing charges after ExitBootServices   *)
(* if this program ever began it.                                           *)
OffAfterExit == chargeAt = "exited" => gState = "CHG_OFF" /\ chgPins.enable # 0

(* Whatever failed or changed before, once that has ended the charger and   *)
(* the light come to what the cable and the battery call for, and stay.     *)
ChargerSettles ==
  <>[](chargeAt \in {"microp", "init", "exited", "asserted"}
         \/ (gState = WantedState /\ microp.light = WantedLight))

(* State, pins, light and USB controller belong together, and to the cable   *)
(* and the battery once these rest.                                          *)
ChargerRight == ChargeTypeOK /\ SteadyMeansRight /\ PinsMatchState /\ OffAfterExit
=============================================================================
