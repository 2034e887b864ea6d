------------------------------ MODULE ClockDxe ------------------------------
(* The callers of the mailbox: GPLDrivers/ClockDxe/ClockDxe.c, whose table  *)
(* entries are the in-out arguments of its calls; MsmPcomClientLib, whose   *)
(* supplies are switched until it works; HtcLeoPlatformResetLib; and the    *)
(* pin configuration of an I2C bus recovery, which a tick of the charging   *)
(* timer makes at TPL_NOTIFY.                                               *)
EXTENDS MsmPcom, FiniteSets

CONSTANTS
  UsedClocks,    \* clocks that a behaviour enables, disables or sets
  Instances,     \* SD controllers that a behaviour uses, of 1..4
  Rates,         \* rates asked for, in Hz
  MaxPcomCalls   \* bound: calls of a behaviour

VARIABLES
  ClocksLookup,
  ANDRBOOT,      \* "no", "marked" (boot reason written), "asked" or "off"
  chip,          \* what the modem has done: reset, and the card's supply
  pcomCalls,     \* number of calls so far
  pcomDirty      \* history: a call that was cut into has ended

clockVars == <<ClocksLookup, ANDRBOOT, chip, pcomCalls, pcomDirty>>

TPL_APPLICATION == 0
TPL_NOTIFY == 2

-----------------------------------------------------------------------------
\* The modem's number of a clock; 0 stands for -1, a clock it has none for.
FillClocksLookup ==
  [SDC1_CLK |-> 66, SDC2_CLK |-> 67, SDC1_PCLK |-> 17, SDC2_PCLK |-> 16,
   UART1DM_CLK |-> 78, UART2DM_CLK |-> 80, SPI_CLK |-> 95, MDP_CLK |-> 9,
   ICODEC_RX_CLK |-> 50, ICODEC_TX_CLK |-> 52, ECODEC_CLK |-> 42, SDAC_MCLK |-> 64,
   VFE_AXI_CLK |-> 24, VFE_MDC_CLK |-> 40, VFE_CLK |-> 41, MDC_CLK |-> 53,
   IMEM_CLK |-> 55, GRP_CLK |-> 56, ADM_CLK |-> 19, I2C_CLK |-> 0, SDC4_PCLK |-> 0]

\* Drivers run at these levels, and name clocks and controllers that there are.
ASSUME ClockAssumption ==
  /\ {TPL_APPLICATION, TPL_NOTIFY} \subseteq PcomLevels
  /\ UsedClocks \subseteq DOMAIN FillClocksLookup
  /\ Instances \subseteq 1..4

\* Rates above which a clock is given its next speed, in kHz.
SDC == <<144, 400, 5000, 10000, 15000, 20000, 25000, 30000, 35000, 40000,
         45000, 49152, 50000>>
ICODEC == <<2048, 2822, 3072, 4096, 5644, 6144, 8192, 11289>>
UARTDM == <<3840, 7372, 7680, 14745, 15360, 16000, 24000, 32000, 40000, 48000,
            51200, 56000, 58982, 61440>>

SpeedSteps ==
  [SDC1_CLK |-> SDC, SDC2_CLK |-> SDC, ICODEC_RX_CLK |-> ICODEC,
   ICODEC_TX_CLK |-> ICODEC, UART1DM_CLK |-> UARTDM, UART2DM_CLK |-> UARTDM,
   SDAC_MCLK |-> <<256, 352, 384, 512, 705, 768, 1024, 1411>>,
   ECODEC_CLK |-> <<128, 2048>>, SPI_CLK |-> <<960, 4800, 9600, 15360>>]

\* Clocks that have speeds for certain rates only, and no call for others.
ExactSpeeds ==
  [VFE_MDC_CLK |-> {<<96000, 37>>, <<48000, 32>>, <<24000, 22>>,
                    <<12000, 14>>, <<6000, 6>>, <<3000, 1>>},
   VFE_CLK |-> {<<36000, 1>>, <<48000, 2>>, <<64000, 3>>, <<78000, 4>>, <<96000, 5>>}]

CotullaSpeeds(id, khz) ==
  IF id \in DOMAIN SpeedSteps
  THEN {1 + Cardinality({i \in DOMAIN SpeedSteps[id] : khz > SpeedSteps[id][i]})}
  ELSE IF id \in DOMAIN ExactSpeeds
  THEN {p[2] : p \in {q \in ExactSpeeds[id] : q[1] = khz}} ELSE {}

-----------------------------------------------------------------------------
(* Requests.                                                                *)

\* Only a clock with an entry is asked for.
ClockRequests ==
  {[Request(cmd, ClocksLookup[id], 0) EXCEPT !.cell = id] :
     cmd \in {"enable", "disable", "rate"},
     id \in {c \in UsedClocks : ClocksLookup[c] # 0}}
  \cup UNION {{[Request("speed", ClocksLookup[id], s) EXCEPT !.cell = id] :
                 s \in CotullaSpeeds(id, r)} : id \in UsedClocks, r \in Rates}

(* MsmPcomClientLib, for the slot of instance 1..4 of the SD controllers.   *)

\* The supply is switched until APP_STATUS says that it worked.
PowerSwitch(state) == [Request("switch", state, 0) EXCEPT !.retry = TRUE]

pcom_sdcard_power(state) == <<PowerSwitch(state)>>

\* When turning it on, set the level first.
pcom_vreg_control(level, state) ==
  (IF state = 0 THEN <<>> ELSE <<[Request("level", 0, level) EXCEPT !.retry = TRUE]>>)
    \o pcom_sdcard_power(state)

SlotPins ==
  <<[i \in 1..6 |-> 50 + i], [i \in 1..6 |-> 61 + i],
    [i \in 1..10 |-> IF i <= 6 THEN 87 + i ELSE 151 + i], [i \in 1..6 |-> 141 + i]>>

pcom_gpio_tlmm_config(pin) == Request("gpio", pin, 0)

pcom_sdcard_gpio_config(instance) ==
  LET pins == SlotPins[instance]
  IN  [i \in DOMAIN pins |-> pcom_gpio_tlmm_config(pins[i])]

\* The clock of an instance and, after it, the controller's.
SdcardRequests(instance, rate) ==
  LET clk == 17 + 2 * instance   \* PCOM_SDC1_CLK is 19
  IN  {<<Request(cmd, id, 0)>> : cmd \in {"enable", "disable", "enabled"}, id \in {clk, clk + 1}}
      \cup {<<Request("rpc rate", clk, 0)>>, <<Request("set rate", clk, rate)>>}

\* The screen's clocks, the log's and the USB's: asked once, not again.
OtherRequests ==
  {<<Request(c[1], c[2], 0)>> : c \in {<<"rpc rate", 31>>, <<"set rate", 42>>,
     <<"enable", 43>>, <<"mpp", 0>>, <<"phy reset", 0>>, <<"end", 0>>}}

Programs ==
  {<<r>> : r \in ClockRequests} \cup OtherRequests
  \cup {pcom_sdcard_power(1), pcom_vreg_control(2900, 1)}
  \cup UNION {SdcardRequests(i, r) \cup {pcom_sdcard_gpio_config(i)} : i \in Instances, r \in Rates}

PcomCalls(l, requests) ==
  /\ pcomCalls < MaxPcomCalls
  /\ pcomCalls' = pcomCalls + 1
  /\ msm_proc_comm(l, requests)

ClockCall ==
  /\ ANDRBOOT = "no"
  /\ \E p \in Programs : PcomCalls(TPL_APPLICATION, p)
  /\ UNCHANGED <<ClocksLookup, ANDRBOOT, chip, pcomDirty>>

RecoversBus ==
  /\ PcomCalls(TPL_NOTIFY, <<pcom_gpio_tlmm_config(95), pcom_gpio_tlmm_config(96)>>)
  /\ UNCHANGED <<ClocksLookup, ANDRBOOT, chip, pcomDirty>>

\* LibResetSystem: a cold, warm or platform specific reset writes the boot
\* reason first (htcleo_reboot); a shutdown does not.  Neither returns.
htcleo_reboot ==
  /\ ANDRBOOT = "no"
  /\ pcomCall[TPL_APPLICATION] = NoPcomCall /\ PcomRuns(TPL_APPLICATION)
  /\ ANDRBOOT' = "marked"
  /\ UNCHANGED <<pcomVars, ClocksLookup, chip, pcomCalls, pcomDirty>>

htcleo_shutdown ==
  /\ ANDRBOOT = "no"
  /\ msm_proc_comm(TPL_APPLICATION, <<Request("power down", 0, 0)>>)
  /\ ANDRBOOT' = "off"
  /\ UNCHANGED <<ClocksLookup, chip, pcomCalls, pcomDirty>>

reboot ==
  /\ ANDRBOOT = "marked"
  /\ msm_proc_comm(TPL_APPLICATION, <<Request("reset", 0, 0)>>)
  /\ ANDRBOOT' = "asked"
  /\ UNCHANGED <<ClocksLookup, chip, pcomCalls, pcomDirty>>

\* What a reply of the mailbox leaves in the table.
TableAfter(l) ==
  IF pcomCall[l].cell = "" \/ ~pcomCall[l].ok THEN ClocksLookup
  ELSE [ClocksLookup EXCEPT ![pcomCall[l].cell] = mbox.data1]

CallSteps ==
  /\ \E l \in PcomLevels :
       \/ (WritesCommand(l) \/ WritesData(l) \/ notify_modem(l) \/ ReadsStatus(l) \/ Leaves(l))
            /\ UNCHANGED <<ClocksLookup, pcomDirty>>
       \/ ReadsReply(l) /\ ClocksLookup' = TableAfter(l) /\ UNCHANGED pcomDirty
       \/ Returns(l) /\ UNCHANGED ClocksLookup
            /\ pcomDirty' = (pcomDirty \/ pcomCall[l].dirty)
  /\ UNCHANGED <<ANDRBOOT, chip, pcomCalls>>

ModemSteps ==
  /\ \/ ModemTakes /\ UNCHANGED chip
     \/ ModemAnswers("success")
          /\ chip' = [reset |-> chip.reset \/ mbox.command \in {"reset", "power down"},
                      supply |-> IF mbox.command = "switch" THEN mbox.data1 ELSE chip.supply]
     \/ modem.fails < MaxFails /\ mbox.command \notin {"reset", "power down"}
          /\ (\E status \in PcomFailures : ModemAnswers(status)) /\ UNCHANGED chip
  /\ UNCHANGED <<ClocksLookup, ANDRBOOT, pcomCalls, pcomDirty>>

-----------------------------------------------------------------------------
ClockInit ==
  /\ PcomInit
  /\ ClocksLookup = FillClocksLookup
  /\ ANDRBOOT = "no"
  /\ chip = [reset |-> FALSE, supply |-> 0]
  /\ pcomCalls = 0
  /\ pcomDirty = FALSE

ClockNext ==
  \/ ClockCall \/ RecoversBus \/ htcleo_reboot \/ htcleo_shutdown \/ reboot \/ CallSteps \/ ModemSteps

ClockSpec == ClockInit /\ [][ClockNext]_<<pcomVars, clockVars>>

-----------------------------------------------------------------------------
ClockTypeOK ==
  /\ mbox.status \in {"none", "success"} \cup PcomFailures
  /\ \A c \in DOMAIN ClocksLookup : ClocksLookup[c] \in Nat
  /\ modem.busy \in BOOLEAN /\ modem.rung \in BOOLEAN /\ modem.fails \in 0..MaxFails
  /\ ANDRBOOT \in {"no", "marked", "asked", "off"}
  /\ \A l \in PcomLevels : pcomCall[l].at \in
       {"end", "ready", "data", "ring", "done", "reply", "leave", "check"}

\* No call has been cut into by one at a higher level.
Undisturbed == ~pcomDirty /\ \A l \in PcomLevels : ~pcomCall[l].dirty

(* While no call has come in between another's steps, a call takes the      *)
(* modem's answer to its own command: not an old one, and not one to a call *)
(* before it (msm_proc_comm waits for DONE and leaves the mailbox idle).    *)
UndisturbedGetsOwnAnswer ==
  \A l \in PcomLevels :
    (pcomCall[l].at = "reply" /\ Undisturbed)
      => mbox.of = <<pcomCall[l].cmd, pcomCall[l].d1>>

(* Although every reply is written over the clock's entry in ClocksLookup,  *)
(* the table stays as it was filled, as long as no call was cut into.       *)
TableIntact ==
  Undisturbed => ClocksLookup = FillClocksLookup

(* The card's supply is on when pcom_sdcard_power returns: failures are     *)
(* retried, and the status it reads after the call is its own.              *)
SuppliedWhenReturned ==
  [][(pcomCall[TPL_APPLICATION].cmd = "switch" /\ Undisturbed
        /\ pcomCall'[TPL_APPLICATION] = NoPcomCall) => chip.supply = 1]_<<pcomCall, chip>>

(* A reset that is not cut into happens.                                    *)
UndisturbedResetHappens ==
  (ANDRBOOT # "no") ~> (chip.reset \/ ~Undisturbed)

(* Calls that are not cut into get their own answers, and leave the clock    *)
(* table alone.                                                              *)
CallsUndisturbed == ClockTypeOK /\ UndisturbedGetsOwnAnswer /\ TableIntact

(* The card's supply and the reset, when they are not cut into, come about.  *)
RequestsHappen == SuppliedWhenReturned /\ UndisturbedResetHappens
=============================================================================
