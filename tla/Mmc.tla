-------------------------------- MODULE Mmc ---------------------------------
(* GPLDrivers/SdCardDxe/mmc.c and adm.c: the SD card behind its controller. *)
(* A function of mmc.c is the list of the steps it takes, one per command,  *)
(* data loop or wait, and each step is one action.  The controller's static *)
(* flags stay set until MCI_CLEAR is written; the flags that end a block    *)
(* come a few bits after its last word, when the driver may already look.   *)
EXTENDS Integers, Sequences, FiniteSets

CONSTANTS
  Cards,       \* the cards: [hc, spec, csd, blLen, units, fast, mbr]
  Builds,      \* SdCardDxe.h's options: [mult, fourBit, highSpeed]
  DataFaults,  \* what may befall a block on the wire or in the data mover
  MaxFaults,   \* bound: blocks and commands that go wrong
  SDC_INSTANCE \* the controller with the card, 2 on this board

BLOCK_SIZE == 512
Errors == {"data_crc_fail", "data_timeout", "rx_overrun", "tx_underrun", "start_bit_err"}

ASSUME MmcAssumption ==
  /\ \A c \in Cards : c.units \in Nat \ {0} /\ c.blLen \in Nat \ {0} /\ c.spec \in 0..2 /\ c.hc \in BOOLEAN
  /\ \A b \in Builds : b.mult \in Nat \ {0}
  /\ DataFaults \subseteq Errors \cup {"adm_error"}
  /\ MaxFaults \in Nat /\ SDC_INSTANCE \in 1..4

VARIABLES
  mmcBuild,  \* the options built in
  sdCard,    \* the card: what it is and where it stands
  sdcc,      \* the controllers: clocks, pins, status flags
  sdcn,      \* what SDCn_init and SD_MCLK_set saved
  mmcDrv,    \* mmc.c's own variables
  mmcRun,    \* the steps left of the function that runs, and its result
  mmcCall,   \* the call from SdCardDxe, and the blocks it has done
  mmcGot,    \* history: the blocks that went well, in the buffer's order
  mmcFaults  \* history: how many blocks and commands went wrong

mmcVars == <<mmcBuild, sdCard, sdcc, sdcn, mmcDrv, mmcRun, mmcCall, mmcGot, mmcFaults>>

Cmd(c, a) == [op |-> "cmd", cmd |-> c, arg |-> a]
Do(op, a) == [op |-> op, cmd |-> "", arg |-> a]
Rca == 1  \* stands for the card's address; zero is sent before it is known

-----------------------------------------------------------------------------
(* The functions, as their steps.                                           *)

check_clear_read_status == <<Do("check", 0), Do("clear", 0), Do("clear_end", 0)>>
check_clear_write_status == <<Do("check", 1), Do("clear", 1), Do("clear_end", 1)>>
card_set_block_size(size) == <<Cmd("CMD16", size)>>
App(c) == <<Cmd("CMD55", Rca), Cmd(c, 0)>>

card_identification_selection ==
  <<Cmd("CMD0", 0), Cmd("CMD8", 0), Cmd("CMD55", 0), Cmd("ACMD41", 0),
    Cmd("CMD2", 0), Cmd("CMD3", 0)>>

\* The register's eight bytes are read and their end is not waited for.
read_SCR_register == card_set_block_size(8) \o App("ACMD51") \o <<Do("scr", 0)>>

card_transfer_init ==
  <<Cmd("CMD9", Rca), Cmd("CMD10", Rca), Cmd("CMD7", Rca)>> \o read_SCR_register
    \o (IF mmcBuild.fourBit THEN App("ACMD6") ELSE <<>>) \o <<Cmd("CMD13", Rca)>>

read_SD_status ==
  card_set_block_size(64) \o App("ACMD13") \o <<Do("rx", 0)>> \o check_clear_read_status

switch_mode ==
  <<Do("spec", 0)>> \o card_set_block_size(64)
    \o <<Cmd("CMD6", 0), Do("rx", 0)>> \o check_clear_read_status \o <<Do("fast", 0)>>
    \o <<Cmd("CMD6", 1), Do("rx", 0)>> \o check_clear_read_status

\* High capacity cards are addressed by block, the others by byte.
Address(n) == IF mmcDrv.highCapacity THEN n ELSE n * BLOCK_SIZE

read_a_block(n) ==
  <<Cmd("CMD17", Address(n)), Do("rx", 1)>> \o check_clear_read_status

read_a_block_dm(n, k) ==
  <<Cmd(IF k = 1 THEN "CMD17" ELSE "CMD18", Address(n)), Do("adm", k)>>
    \o (IF k > 1 THEN <<Cmd("CMD12", Address(n))>> ELSE <<>>) \o check_clear_read_status

\* The status is asked for with PROG_ENA, and then PROG_DONE waited for.
\* Mutant: the status is asked for without it.
WriteProgUnarmed(n) ==
  <<Cmd("CMD24", Address(n)), Do("tx", 1)>> \o check_clear_write_status
    \o <<Cmd("CMD13", Rca), Do("prog", 0)>>

write_a_block(n) ==
  <<Cmd("CMD24", Address(n)), Do("tx", 1)>> \o check_clear_write_status
    \o <<Cmd("CMD13_PROG", Rca), Do("prog", 0)>>

\* The data mover writes single blocks only, and is asked for several.
write_a_block_dm == <<Do("refuse", 0)>>

LeastOf(a, b) == IF a < b THEN a ELSE b

\* One round of the loops of mmc_bread and mmc_bwrite.
Round(kind, n, left) ==
  LET i == LeastOf(mmcBuild.mult, left) IN
  IF kind = "read" THEN (IF i = 1 THEN read_a_block(n) ELSE read_a_block_dm(n, i))
                   ELSE (IF i = 1 THEN write_a_block(n) ELSE write_a_block_dm)

-----------------------------------------------------------------------------
(* The card.                                                                *)

AllowedIn ==
  [CMD8 |-> {"idle"}, ACMD41 |-> {"idle"}, CMD2 |-> {"ready"}, CMD3 |-> {"ident"},
   CMD9 |-> {"stby"}, CMD10 |-> {"stby"}, CMD7 |-> {"stby"}, CMD16 |-> {"tran"},
   ACMD51 |-> {"tran"}, ACMD6 |-> {"tran"}, ACMD13 |-> {"tran"}, CMD6 |-> {"tran"},
   CMD17 |-> {"tran"}, CMD18 |-> {"tran"}, CMD24 |-> {"tran"}, CMD12 |-> {"data", "rcv"},
   CMD13 |-> {"stby", "tran", "data", "rcv", "prog"},
   CMD13_PROG |-> {"stby", "tran", "data", "rcv", "prog"},
   CMD55 |-> {"idle", "stby", "tran", "data", "rcv", "prog"},
   CMD0 |-> {"idle", "ready", "ident", "stby", "tran", "data", "rcv", "prog"}]

AppCmds == {"ACMD41", "ACMD51", "ACMD6", "ACMD13"}
BlockCmds == {"CMD17", "CMD18", "CMD24"}

Legal(c) ==
  /\ sdCard.state \in AllowedIn[c]
  /\ c \in AppCmds => sdCard.app
  /\ c \in BlockCmds => sdCard.kind.hc \/ sdCard.blocklen = BLOCK_SIZE
  /\ c = "CMD8" => sdCard.kind.spec = 2

\* A high capacity card gets ready only for a host that says it knows them.
PoweredUp == sdCard.up /\ (sdCard.kind.hc => mmcDrv.hcSupport)

UnitOf(a) == IF sdCard.kind.hc THEN a ELSE a \div BLOCK_SIZE

StateAfter(c, a) ==
  CASE c \in BlockCmds /\ UnitOf(a) >= sdCard.kind.units -> "tran"
    [] c = "CMD0" -> "idle" [] c = "CMD2" -> "ident" [] c = "CMD3" -> "stby"
    [] c = "ACMD41" -> IF PoweredUp THEN "ready" ELSE "idle"
    [] c \in {"CMD7", "CMD12"} -> "tran" [] c = "CMD24" -> "rcv"
    [] c \in {"ACMD51", "ACMD13", "CMD6", "CMD17", "CMD18"} -> "data"
    [] OTHER -> sdCard.state

CardAfter(c, a) ==
  [sdCard EXCEPT !.state = StateAfter(c, a), !.app = c = "CMD55",
     !.blocklen = IF c = "CMD16" THEN a ELSE IF c = "CMD0" THEN BLOCK_SIZE ELSE @,
     !.unit = IF c \in BlockCmds THEN UnitOf(a) ELSE @]

\* The flag that ends a command, and the card after it.  The answer to
\* ACMD41 carries no checksum; a fault loses the command or its answer.
Refused ==
  [flag |-> "timeout", card |-> [sdCard EXCEPT !.app = FALSE], taken |-> FALSE, fault |-> 0]

Taken(c, a) ==
  [flag |-> IF c = "ACMD41" THEN "crc" ELSE "end", card |-> CardAfter(c, a),
   taken |-> TRUE, fault |-> 0]

Replies(c, a) ==
  {IF Legal(c) THEN Taken(c, a) ELSE Refused}
  \cup IF mmcFaults = MaxFaults THEN {}
       ELSE {[Refused EXCEPT !.fault = 1]}
            \cup IF Legal(c) THEN {[Taken(c, a) EXCEPT !.flag = "crc", !.fault = 1]} ELSE {}

\* The card is ready, or has written its block, some time later.
CardPowersUp ==
  /\ ~sdCard.up
  /\ sdCard' = [sdCard EXCEPT !.up = TRUE]
  /\ UNCHANGED <<mmcBuild, sdcc, sdcn, mmcDrv, mmcRun, mmcCall, mmcGot, mmcFaults>>

CardProgrammed ==
  /\ sdCard.state = "prog"
  /\ sdCard' = [sdCard EXCEPT !.state = "tran"]
  /\ UNCHANGED <<mmcBuild, sdcc, sdcn, mmcDrv, mmcRun, mmcCall, mmcGot, mmcFaults>>

-----------------------------------------------------------------------------
(* The steps.                                                               *)

Head1 == mmcRun.todo[1]
At(op) == mmcRun.todo # <<>> /\ Head1.op = op  \* the step that is next
Rest == [mmcRun EXCEPT !.todo = Tail(@)]
Fails == [todo |-> <<>>, ok |-> FALSE]

\* How sdcc_send_cmd takes the flag that ended the command.
Accepted(c, a, flag) ==
  \/ c = "CMD0" \/ flag = "end"
  \/ flag = "crc" /\ c \in {"CMD5", "ACMD41", "CMD1"}
  \/ flag = "timeout" /\ c \in {"CMD5", "CMD55"} /\ a = 0

\* A command takes longer than what is left of the block before it.
sdcc_send_cmd ==
  /\ At("cmd") /\ sdcc.coming = {}
  /\ \E r \in Replies(Head1.cmd, Head1.arg) :
       LET c == Head1.cmd  ok == Accepted(c, Head1.arg, r.flag) IN
       /\ sdCard' = [r.card EXCEPT !.legal = @ /\ (Legal(c) \/ c = "CMD8" \/ sdCard.off)]
       /\ mmcFaults' = mmcFaults + r.fault
       /\ mmcDrv' = [mmcDrv EXCEPT
            !.hcSupport = IF c = "CMD8" THEN ok ELSE @,
            !.highCapacity = @ \/ (c = "ACMD41" /\ ok /\ PoweredUp /\ mmcDrv.hcSupport
                                     /\ sdCard.kind.hc)]
       /\ mmcRun' = IF ~ok /\ c # "CMD8" THEN Fails
                    ELSE IF c = "ACMD41" /\ r.card.state # "ready"
                      THEN [mmcRun EXCEPT !.todo = <<Cmd("CMD55", 0)>> \o @]
                      ELSE Rest
       /\ sdcc' = [sdcc EXCEPT !.armed = @ \/ (c = "CMD13_PROG" /\ r.taken)]
  /\ UNCHANGED <<mmcBuild, sdcn, mmcCall, mmcGot>>

\* The flags a block ends with.
BlockEnds ==
  /\ sdcc.coming # {}
  /\ sdcc' = [sdcc EXCEPT !.flags = @ \cup sdcc.coming, !.coming = {}]
  /\ UNCHANGED <<mmcBuild, sdCard, sdcn, mmcDrv, mmcRun, mmcCall, mmcGot, mmcFaults>>

ProgDone ==
  /\ sdcc.armed /\ sdCard.state # "prog"
  /\ sdcc' = [sdcc EXCEPT !.flags = @ \cup {"prog_done"}, !.armed = FALSE]
  /\ UNCHANGED <<mmcBuild, sdCard, sdcn, mmcDrv, mmcRun, mmcCall, mmcGot, mmcFaults>>

\* What becomes of a block: nothing, or one of the faults of its direction.
\* A block that is not on the card never comes.
OffCard(k) == k > 0 /\ sdCard.unit + k > sdCard.kind.units

Fates(faults, k) ==
  IF OffCard(k) THEN {"data_timeout"}
  ELSE {"none"} \cup (IF mmcFaults < MaxFaults THEN faults \cap DataFaults ELSE {})

Charge(fate, k) == mmcFaults + IF fate = "none" \/ OffCard(k) THEN 0 ELSE 1

\* The end of the words of a block: the flags it ends with are to come, or
\* it broke off and its error flag is there.
Ends(fate) ==
  IF fate = "none" THEN [sdcc EXCEPT !.coming = {"blk_end", "data_end"}]
  ELSE IF fate = "data_crc_fail" THEN [sdcc EXCEPT !.coming = {fate}]
  ELSE [sdcc EXCEPT !.flags = @ \cup {IF fate = "adm_error" THEN "rx_overrun" ELSE fate}]

Delivered(fate) == fate \in {"none", "data_crc_fail"}

\* After a block, or when its many are stopped, the card is back.
CardSent(fate) ==
  [sdCard EXCEPT !.state = IF At("adm") /\ Head1.arg > 1 THEN @ ELSE "tran",
     !.good = fate = "none",
     !.fresh = sdcc.flags = {}]

\* The loop over the FIFO ends early when the controller stops receiving.
ReadFifo ==
  /\ At("rx")
  /\ \E fate \in Fates({"data_crc_fail", "data_timeout", "rx_overrun", "start_bit_err"}, Head1.arg) :
       /\ mmcFaults' = Charge(fate, Head1.arg)
       /\ sdcc' = Ends(fate)
       /\ sdCard' = CardSent(fate)
       /\ mmcRun' = IF Delivered(fate) THEN Rest ELSE Fails
  /\ UNCHANGED <<mmcBuild, sdcn, mmcDrv, mmcCall, mmcGot>>

\* The SCR's two words are waited for whatever the flags say.
ReadScr ==
  /\ At("scr")
  /\ \E fate \in Fates({"data_crc_fail", "data_timeout"}, 0) :
       /\ mmcFaults' = Charge(fate, 0)
       /\ sdcc' = Ends(fate)
       /\ sdCard' = CardSent(fate)
       /\ mmcDrv' = [mmcDrv EXCEPT !.scrValid = Delivered(fate)]
       /\ mmcRun' = IF Delivered(fate) THEN Rest
                    ELSE [mmcRun EXCEPT !.todo = <<Do("stuck", 0)>>]
  /\ UNCHANGED <<mmcBuild, sdcn, mmcCall, mmcGot>>

\* adm_start_transfer reports an error result; a mover that does not answer
\* within a second is taken for done, and the status check is left to notice.
adm_start_transfer ==
  /\ At("adm")
  /\ \E fate \in Fates({"data_crc_fail", "data_timeout", "rx_overrun", "adm_error"}, Head1.arg) :
       /\ mmcFaults' = Charge(fate, Head1.arg)
       /\ sdcc' = Ends(fate)
       /\ sdCard' = CardSent(fate)
       /\ mmcRun' = IF fate = "adm_error" THEN Fails ELSE Rest
  /\ UNCHANGED <<mmcBuild, sdcn, mmcDrv, mmcCall, mmcGot>>

\* Words are written until one of three flags is seen, an old one included.
WriteFifo ==
  /\ At("tx")
  /\ \E fate \in Fates({"data_crc_fail", "data_timeout", "tx_underrun"}, 1) :
       LET stale == {"data_timeout", "tx_underrun"} \cap sdcc.flags # {} IN
       /\ mmcFaults' = IF stale THEN mmcFaults ELSE Charge(fate, 1)
       /\ sdcc' = IF stale THEN sdcc ELSE Ends(fate)
       /\ sdCard' = IF stale \/ ~Delivered(fate) THEN sdCard
                    ELSE [sdCard EXCEPT
                            !.state = IF fate = "none" THEN "prog" ELSE "tran",
                            !.good = fate = "none", !.fresh = sdcc.flags = {},
                            !.disk = IF fate # "none" THEN @
                                     ELSE [@ EXCEPT ![sdCard.unit] = mmcCall.run]]
       /\ mmcRun' = IF stale \/ ~Delivered(fate) THEN Fails ELSE Rest
  /\ UNCHANGED <<mmcBuild, sdcn, mmcDrv, mmcCall, mmcGot>>

\* The two halves of check_clear_read_status and its twin: the flags are
\* read until they tell, and cleared after that.
ErrorsSeen(dir) ==
  {"data_crc_fail", "data_timeout", "start_bit_err",
   IF dir = 0 THEN "rx_overrun" ELSE "tx_underrun"}

CheckStatus ==
  /\ At("check")
  /\ LET bad == sdcc.flags \cap ErrorsSeen(Head1.arg) IN
     /\ bad # {} \/ "blk_end" \in sdcc.flags
     /\ mmcRun' = IF bad # {} THEN Fails ELSE Rest
  /\ UNCHANGED <<mmcBuild, sdCard, sdcc, sdcn, mmcDrv, mmcCall, mmcGot, mmcFaults>>

ErrorsCleared(dir) ==
  {"data_crc_fail", "data_timeout"}
    \cup (IF dir = 0 THEN {"rx_overrun", "start_bit_err"} ELSE {"tx_underrun"})

ClearStatus ==
  /\ At("clear")
  /\ sdcc' = [sdcc EXCEPT !.flags = @ \ ({"blk_end"} \cup ErrorsCleared(Head1.arg))]
  /\ mmcRun' = Rest
  /\ UNCHANGED <<mmcBuild, sdCard, sdcn, mmcDrv, mmcCall, mmcGot, mmcFaults>>

ClearEnd ==
  /\ At("clear_end") /\ "data_end" \in sdcc.flags
  /\ sdcc' = [sdcc EXCEPT !.flags = @ \ {"data_end", "blk_end"}]
  /\ mmcRun' = Rest
  /\ UNCHANGED <<mmcBuild, sdCard, sdcn, mmcDrv, mmcCall, mmcGot, mmcFaults>>

WaitProgDone ==
  /\ At("prog") /\ "prog_done" \in sdcc.flags
  /\ sdcc' = [sdcc EXCEPT !.flags = @ \ {"prog_done"}]
  /\ mmcRun' = Rest
  /\ UNCHANGED <<mmcBuild, sdCard, sdcn, mmcDrv, mmcCall, mmcGot, mmcFaults>>

\* switch_mode's tests of the SCR and of the switch status, and the refusal
\* of write_a_block_dm.
Tests ==
  /\ mmcRun.todo # <<>> /\ Head1.op \in {"spec", "fast", "refuse"}
  /\ mmcRun' = IF \/ Head1.op = "spec" /\ mmcDrv.scrValid /\ sdCard.kind.spec > 0
                  \/ Head1.op = "fast" /\ sdCard.kind.fast
               THEN Rest ELSE Fails
  /\ UNCHANGED <<mmcBuild, sdCard, sdcc, sdcn, mmcDrv, mmcCall, mmcGot, mmcFaults>>

-----------------------------------------------------------------------------
(* The calls.                                                               *)

MCLK(speed) == [sdcc EXCEPT !.mclk[SDC_INSTANCE] = speed]

\* The pins that are handed to the controller; the third's are left alone.
sdcard_gpio_config(instance) == IF instance = 3 THEN {} ELSE {instance}

\* The first call also saves what the registers held.
SDCn_init ==
  /\ sdcn' = [mclk |-> sdcc.mclk[SDC_INSTANCE], hclk |-> SDC_INSTANCE \in sdcc.hclk]
  /\ sdcc' = [MCLK(400) EXCEPT !.hclk = @ \cup {SDC_INSTANCE}, !.pins = @ \cup sdcard_gpio_config(SDC_INSTANCE),
                               !.flags = {}, !.clk = {"enable"}]

mmc_legacy_init ==
  /\ mmcCall.kind = "none"
  /\ SDCn_init
  /\ mmcRun' = [todo |-> card_identification_selection, ok |-> TRUE]
  /\ mmcCall' = [mmcCall EXCEPT !.kind = "init", !.stage = 1]
  /\ UNCHANGED <<mmcBuild, sdCard, mmcDrv, mmcGot, mmcFaults>>

\* The steps of mmc_legacy_init after the identification.
\* Mutant: the length of the registers' blocks is left set.
StageAtRegisterLength(n) ==
  CASE n = 2 -> card_transfer_init
    [] n = 3 -> read_SD_status
    [] n = 4 -> IF mmcBuild.highSpeed THEN switch_mode ELSE <<Do("refuse", 0)>>
    [] n = 5 -> IF mmcBuild.mult > 1 THEN read_a_block_dm(0, 1) ELSE read_a_block(0)

Stage(n) ==
  CASE n = 2 -> card_transfer_init
    [] n = 3 -> read_SD_status
    [] n = 4 -> IF mmcBuild.highSpeed THEN switch_mode ELSE <<Do("refuse", 0)>>
    [] n = 5 -> card_set_block_size(BLOCK_SIZE)
                  \o (IF mmcBuild.mult > 1 THEN read_a_block_dm(0, 1) ELSE read_a_block(0))

\* The controller's clocks when stage n has ended.
Settled(n) ==
  CASE n = 1 -> [sdcc EXCEPT !.clk = @ \cup {"pwrsave", "flow"}]
    [] n = 2 -> [sdcc EXCEPT !.clk = @ \cup (IF mmcBuild.fourBit THEN {"wide"} ELSE {})]
    [] n = 3 -> MCLK(25000)
    [] n = 4 -> IF mmcRun.ok THEN [MCLK(48000) EXCEPT !.clk = @ \cup {"feedback"}] ELSE sdcc
    [] OTHER -> sdcc

StageEnds ==
  /\ mmcCall.kind = "init" /\ mmcRun.todo = <<>> /\ mmcCall.stage < 5
  /\ mmcRun.ok \/ mmcCall.stage = 4
  /\ sdcc' = Settled(mmcCall.stage)
  /\ mmcRun' = [todo |-> Stage(mmcCall.stage + 1), ok |-> TRUE]
  /\ mmcCall' = [mmcCall EXCEPT !.stage = @ + 1]
  /\ UNCHANGED <<mmcBuild, sdCard, sdcn, mmcDrv, mmcGot, mmcFaults>>

\* An unknown CSD leaves mmc_dev as it was; a block of the card is
\* 512 times blLen bytes.
mmc_decode_csd ==
  LET k == sdCard.kind IN
  IF k.csd > 1 THEN mmcDrv.dev
  ELSE [ops |-> TRUE, blksz |-> BLOCK_SIZE * k.blLen,
        lba |-> IF k.csd = 1 THEN k.units ELSE k.units \div k.blLen]

\* mmc_legacy_init returns: at its end, or after a stage that failed.
LegacyInitReturns ==
  /\ mmcCall.kind = "init" /\ mmcRun.todo = <<>>
  /\ mmcCall.stage = 5 \/ (~mmcRun.ok /\ mmcCall.stage # 4)
  /\ mmcDrv' = IF mmcRun.ok THEN [mmcDrv EXCEPT !.dev = mmc_decode_csd, !.ready = TRUE]
                            ELSE mmcDrv
  /\ mmcCall' = [mmcCall EXCEPT !.kind = "none"]
  /\ UNCHANGED <<mmcBuild, sdCard, sdcc, sdcn, mmcRun, mmcGot, mmcFaults>>

\* mmc_bread and mmc_bwrite, up to their first round.
mmc_call(kind, n, count) ==
  /\ mmcCall' = [mmcCall EXCEPT !.kind = kind, !.blk = n, !.left = count, !.run = 0]
  /\ mmcRun' = [todo |-> Round(kind, n, count), ok |-> TRUE]
  /\ mmcGot' = <<>>
  /\ sdCard' = [sdCard EXCEPT !.disk = [u \in DOMAIN @ |-> -1],
                              !.off = @ \/ n + count > sdCard.kind.units]
  /\ UNCHANGED <<mmcBuild, sdcc, sdcn, mmcDrv, mmcFaults>>

\* Mutant: the next round starts where this one did.
RoundSameBlock ==
  LET i == LeastOf(mmcBuild.mult, mmcCall.left) IN
  /\ mmcCall.kind \in {"read", "write"} /\ mmcRun.todo = <<>> /\ mmcRun.ok
  /\ mmcCall' = [mmcCall EXCEPT !.left = @ - i, !.run = @ + i]
  /\ mmcRun' = IF mmcCall.left = i THEN Fails
               ELSE [mmcRun EXCEPT !.todo = Round(mmcCall.kind, mmcCall.blk, mmcCall.left - i)]
  /\ mmcGot' = mmcGot \o
       [j \in 1..i |-> [unit |-> sdCard.unit + j - 1, good |-> sdCard.good,
                        fresh |-> sdCard.fresh]]
  /\ UNCHANGED <<mmcBuild, sdCard, sdcc, sdcn, mmcDrv, mmcFaults>>

\* A round that went well: the next one, or the end.
RoundEnds ==
  LET i == LeastOf(mmcBuild.mult, mmcCall.left) IN
  /\ mmcCall.kind \in {"read", "write"} /\ mmcRun.todo = <<>> /\ mmcRun.ok
  /\ mmcCall' = [mmcCall EXCEPT !.blk = @ + i, !.left = @ - i, !.run = @ + i]
  /\ mmcRun' = IF mmcCall.left = i THEN Fails
               ELSE [mmcRun EXCEPT !.todo = Round(mmcCall.kind, mmcCall.blk + i, mmcCall.left - i)]
  /\ mmcGot' = mmcGot \o
       [j \in 1..i |-> [unit |-> sdCard.unit + j - 1, good |-> sdCard.good,
                        fresh |-> sdCard.fresh]]
  /\ UNCHANGED <<mmcBuild, sdCard, sdcc, sdcn, mmcDrv, mmcFaults>>

\* The call has nothing left to do, or its round failed: run_blkcnt is known.
CallOver == mmcCall.kind \in {"read", "write"} /\ mmcRun.todo = <<>> /\ ~mmcRun.ok

\* mmc_ready is set: CMD0, and the clocks as they were before.
SDCn_deinit ==
  /\ sdcc' = [MCLK(sdcn.mclk) EXCEPT !.hclk = IF sdcn.hclk THEN @ ELSE @ \ {SDC_INSTANCE}]
  /\ sdCard' = CardAfter("CMD0", 0)
  /\ UNCHANGED <<mmcBuild, sdcn, mmcDrv, mmcRun, mmcCall, mmcGot, mmcFaults>>

MmcInit ==
  /\ mmcBuild \in Builds
  /\ \E k \in Cards :
       sdCard = [kind |-> k, state |-> "idle", app |-> FALSE, up |-> FALSE,
                 blocklen |-> BLOCK_SIZE, unit |-> 0, good |-> TRUE, fresh |-> TRUE,
                 legal |-> TRUE, off |-> FALSE, disk |-> [u \in 0..(k.units - 1) |-> -1]]
  /\ sdcc \in [mclk : {[i \in 1..4 |-> 0]}, hclk : {{}, {SDC_INSTANCE}}, pins : {{}},
               flags : {{}}, coming : {{}}, clk : {{}}, armed : {FALSE}]
  /\ sdcn = [mclk |-> 0, hclk |-> FALSE]
  /\ mmcDrv = [scrValid |-> FALSE, hcSupport |-> FALSE, highCapacity |-> FALSE,
               dev |-> [ops |-> FALSE, blksz |-> 0, lba |-> 0], ready |-> FALSE]
  /\ mmcRun = [todo |-> <<>>, ok |-> TRUE]
  /\ mmcCall = [kind |-> "none", stage |-> 0, blk |-> 0, left |-> 0, run |-> 0]
  /\ mmcGot = <<>> /\ mmcFaults = 0

MmcDriverStep ==
  \/ sdcc_send_cmd \/ ReadFifo \/ ReadScr \/ adm_start_transfer \/ WriteFifo
  \/ CheckStatus \/ ClearStatus \/ ClearEnd \/ WaitProgDone \/ Tests
  \/ StageEnds \/ LegacyInitReturns \/ RoundEnds

MmcHardwareStep == CardPowersUp \/ CardProgrammed \/ BlockEnds \/ ProgDone
=============================================================================
