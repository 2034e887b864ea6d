------------------------------ MODULE GpioDxe -------------------------------
(* Drivers/GpioDxe/GpioDxe.c: pins are set by reading their bank's          *)
(* register, changing one bit and writing it back, with nothing held in     *)
(* between.  A caller at a higher task priority level runs to its end       *)
(* between a read and a write of a caller below it.                         *)
EXTENDS Naturals, FiniteSets

CONSTANTS
  PinUsers   \* for each level, the calls made at it: [op, pin]

\* The pins that the table of banks covers.
ASSUME PinUsersAssumption ==
  /\ DOMAIN PinUsers \subseteq Nat /\ IsFiniteSet(DOMAIN PinUsers)
  /\ \A l \in DOMAIN PinUsers :
       PinUsers[l] \subseteq [op : {"config", "set", "get"}, pin : 0..164]

VARIABLES
  gpioRegs,     \* register ("oe", "out") -> pins whose bit is set
  gpioCall,     \* level -> the call that stands there, or NoCall
  gpioWant,     \* history: the pins as the calls that returned left them
  gpioClobbered \* history: [reg, pin] written between a lower read and write

gpioVars == <<gpioRegs, gpioCall, gpioWant, gpioClobbered>>

Levels == DOMAIN PinUsers
NoCall == [op |-> "none", pin |-> 0, on |-> FALSE, at |-> "end", seen |-> {}]

\* Start and end of the banks in GPIO_REGS.
GPIO_REGS ==
  << <<0, 15>>, <<16, 42>>, <<43, 67>>, <<68, 94>>,
     <<95, 103>>, <<104, 121>>, <<122, 152>>, <<153, 164>> >>

\* find_gpio, for the pins of its table: the pins of n's bank.
find_gpio(n) ==
  UNION {r[1]..r[2] : r \in {GPIO_REGS[i] : i \in
           {j \in 1..8 : n \in GPIO_REGS[j][1]..GPIO_REGS[j][2]}}}

UsedPins == {u.pin : u \in UNION {PinUsers[l] : l \in Levels}}

-----------------------------------------------------------------------------
\* Only a higher level takes the processor from a call.
Runs(l) == \A k \in Levels : k > l => gpioCall[k] = NoCall

\* What readl(r->oe) or readl(r->out) gives.
readl(regs, reg, pin) == regs[reg] \cap find_gpio(pin)

\* Any of the three calls, up to the read of the direction.
gpio_call(l) ==
  /\ \A k \in Levels : k >= l => gpioCall[k] = NoCall
  /\ \E u \in PinUsers[l], on \in BOOLEAN :
       gpioCall' = [gpioCall EXCEPT ![l] =
         [op |-> u.op, pin |-> u.pin, on |-> on, at |-> "oe",
          seen |-> readl(gpioRegs, "oe", u.pin)]]
  /\ UNCHANGED <<gpioRegs, gpioWant, gpioClobbered>>

\* gpio_get makes its pin an input; gpio_set an output; gpio_config either.
HighBit(c, reg) == IF reg = "oe" THEN c.op = "set" \/ (c.op = "config" /\ c.on)
                                 ELSE c.on

\* Mutant: the bit is written and the rest of the bank forgotten.
WrittenBitOnly(c, reg) == IF HighBit(c, reg) THEN {c.pin} ELSE {}

Written(c, reg) == IF HighBit(c, reg) THEN c.seen \cup {c.pin} ELSE c.seen \ {c.pin}

\* A level below stands between its read and its write of that bank.
Overlaps(l, reg, pin) ==
  \E k \in Levels : /\ k < l
                    /\ gpioCall[k].at = reg
                    /\ find_gpio(gpioCall[k].pin) = find_gpio(pin)

Writes(l, reg) ==
  LET c == gpioCall[l]  bank == find_gpio(c.pin) IN
  /\ gpioRegs' = [gpioRegs EXCEPT ![reg] = (@ \ bank) \cup Written(c, reg)]
  /\ gpioWant' = [gpioWant EXCEPT ![reg] =
                    IF HighBit(c, reg) THEN @ \cup {c.pin} ELSE @ \ {c.pin}]
  /\ gpioClobbered' = IF Overlaps(l, reg, c.pin)
                      THEN gpioClobbered \cup {<<reg, c.pin>>}
                      ELSE gpioClobbered \ {<<reg, c.pin>>}

\* All of gpio_config and gpio_get, and gpio_set up to its second read.
gpio_config(l) ==
  /\ Runs(l)
  /\ gpioCall[l].at = "oe"
  /\ Writes(l, "oe")
  /\ gpioCall' = [gpioCall EXCEPT ![l] =
       IF @.op # "set" THEN NoCall
       ELSE [@ EXCEPT !.at = "out", !.seen = readl(gpioRegs, "out", gpioCall[l].pin)]]

gpio_set(l) ==
  /\ Runs(l)
  /\ gpioCall[l].at = "out"
  /\ Writes(l, "out")
  /\ gpioCall' = [gpioCall EXCEPT ![l] = NoCall]

-----------------------------------------------------------------------------
GpioInit ==
  /\ gpioRegs = [r \in {"oe", "out"} |-> {}]
  /\ gpioCall = [l \in Levels |-> NoCall]
  /\ gpioWant = gpioRegs
  /\ gpioClobbered = {}

GpioNext ==
  \E l \in Levels : gpio_call(l) \/ gpio_config(l) \/ gpio_set(l)

GpioSpec == GpioInit /\ [][GpioNext]_gpioVars

-----------------------------------------------------------------------------
GpioTypeOK ==
  /\ \A r \in {"oe", "out"} : gpioRegs[r] \subseteq UsedPins
  /\ \A l \in Levels : gpioCall[l].seen \subseteq UsedPins

(* A pin's direction and level are what the last call for it made them,     *)
(* whatever is done with other pins of its bank, except when that call came *)
(* between the read and the write of a call below it: the lower write then  *)
(* takes it back.                                                           *)
PinsKeepUnlessOverlapped ==
  \A r \in {"oe", "out"} : \A n \in UsedPins :
    <<r, n>> \notin gpioClobbered => (n \in gpioRegs[r] <=> n \in gpioWant[r])

(* The banks whose pins are set at one level only, as the keypad's rows and *)
(* the charger's pins are (both hold TPL_NOTIFY), never lose an update.     *)
OneLevelBanksKeep ==
  \A n \in UsedPins :
    Cardinality({l \in Levels : \E u \in PinUsers[l] : u.pin \in find_gpio(n)}) = 1
      => \A r \in {"oe", "out"} : n \in gpioRegs[r] <=> n \in gpioWant[r]

(* A call for a pin changes that pin alone, except where calls overlap.      *)
PinsKept == GpioTypeOK /\ PinsKeepUnlessOverlapped /\ OneLevelBanksKeep
=============================================================================
