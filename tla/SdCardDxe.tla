------------------------------ MODULE SdCardDxe -----------------------------
(* GPLDrivers/SdCardDxe/SdCardDxe.c: the card's initialisation, the search  *)
(* for a boot record, and Block I/O's reads and writes.  Reset and          *)
(* FlushBlocks return success and do nothing.                               *)
EXTENDS Mmc

CONSTANTS
  Sizes,    \* the buffer sizes that are asked for, in bytes
  MbrSearch \* the last block that is searched for a boot record, 50 in the code

ASSUME SdCardAssumption == Sizes \subseteq Nat /\ MbrSearch \in Nat

VARIABLES
  sdPc,   \* where the driver stands
  media,  \* gMMCHSMedia: LastBlock and BlockSize
  sdReq   \* the request at Block I/O and the status it returned

sdVars == <<mmcVars, sdPc, media, sdReq>>

NoReq == [kind |-> "none", lba |-> 0, size |-> 0, status |-> "-"]

\* The card detection pin is low when a card is in the slot.
SdCardInitialize ==
  /\ sdPc = "start"
  /\ \/ /\ sdPc' = "init" /\ mmc_legacy_init
     \/ /\ sdPc' = "DEVICE_ERROR" /\ UNCHANGED mmcVars
  /\ UNCHANGED <<media, sdReq>>

\* mmc_legacy_init's result is not looked at: without a card, block_read
\* is a null pointer.
CardInitialized ==
  /\ sdPc = "init" /\ mmcCall.kind = "none"
  /\ media' = [last |-> mmcDrv.dev.lba, blksz |-> mmcDrv.dev.blksz]
  /\ IF mmcDrv.dev.ops THEN sdPc' = "search" /\ mmc_call("read", 0, 1)
                       ELSE sdPc' = "fault" /\ UNCHANGED mmcVars
  /\ UNCHANGED sdReq

\* A block that cannot be read is passed over; without a record the
\* processor spins.
SearchedBlock ==
  LET n == mmcCall.blk - mmcCall.run  found == mmcCall.run > 0 /\ n = sdCard.kind.mbr IN
  /\ sdPc = "search" /\ CallOver
  /\ \/ /\ found /\ sdPc' = "ready" /\ UNCHANGED mmcVars
     \/ /\ ~found /\ n < LeastOf(media.last, MbrSearch)
        /\ mmc_call("read", n + 1, 1) /\ UNCHANGED sdPc
     \/ /\ ~found /\ n = LeastOf(media.last, MbrSearch)
        /\ sdPc' = "CpuDeadLoop" /\ UNCHANGED mmcVars
  /\ UNCHANGED <<media, sdReq>>

\* What MMCHSReadBlocks and MMCHSWriteBlocks refuse, or need not do.
\* Neither the medium's number nor the block's is looked at.
AtOnce(size, null) ==
  IF size % media.blksz # 0 THEN "BAD_BUFFER_SIZE"
  ELSE IF null THEN "INVALID_PARAMETER"
  ELSE IF size = 0 THEN "SUCCESS" ELSE "pending"

\* Callers keep to the blocks up to LastBlock that the medium announces.
MMCHSBlocks(kind) ==
  /\ sdPc = "ready" /\ sdReq.status # "pending"
  /\ \E lba \in 0..media.last, size \in Sizes, null \in BOOLEAN :
       /\ lba + size \div media.blksz <= media.last + 1
       /\ sdReq' = [kind |-> kind, lba |-> lba, size |-> size, status |-> AtOnce(size, null)]
       /\ IF AtOnce(size, null) = "pending"
          THEN mmc_call(kind, lba, size \div media.blksz)
          ELSE UNCHANGED mmcVars
  /\ UNCHANGED <<sdPc, media>>

MMCHSReadBlocks == MMCHSBlocks("read")
MMCHSWriteBlocks == MMCHSBlocks("write")

\* One block that went well is enough for success.
BlocksDone ==
  /\ sdReq.status = "pending" /\ CallOver
  /\ sdReq' = [sdReq EXCEPT !.status = IF mmcCall.run > 0 THEN "SUCCESS" ELSE "DEVICE_ERROR"]
  /\ UNCHANGED <<mmcVars, sdPc, media>>

\* The exported end of mmc.c, which nothing in this tree calls.
Deinit ==
  /\ sdPc = "ready" /\ sdReq.status # "pending"
  /\ sdPc' = "off" /\ SDCn_deinit
  /\ UNCHANGED <<media, sdReq>>

SdInit == MmcInit /\ sdPc = "start" /\ media = [last |-> 0, blksz |-> BLOCK_SIZE] /\ sdReq = NoReq

SdNext ==
  \/ SdCardInitialize \/ CardInitialized \/ SearchedBlock
  \/ MMCHSReadBlocks \/ MMCHSWriteBlocks \/ BlocksDone \/ Deinit
  \/ (MmcDriverStep \/ MmcHardwareStep) /\ UNCHANGED <<sdPc, media, sdReq>>

-----------------------------------------------------------------------------
SdTypeOK ==
  /\ sdCard.kind \in Cards /\ sdCard.state \in AllowedIn["CMD0"]
  /\ sdcc.flags \cup sdcc.coming \subseteq Errors \cup {"blk_end", "data_end", "prog_done"}
  /\ mmcCall.run \in Nat /\ mmcCall.left \in Nat /\ mmcFaults \in 0..MaxFaults
  /\ sdPc \in {"start", "init", "search", "ready", "off", "fault", "CpuDeadLoop", "DEVICE_ERROR"}
  /\ sdReq.status \in {"-", "pending", "SUCCESS", "DEVICE_ERROR", "BAD_BUFFER_SIZE", "INVALID_PARAMETER"}

Whole == media.blksz = BLOCK_SIZE  \* the medium's blocks are the ones mmc.c moves

\* What mmc_bread has put into the buffer at a block's place is that block of
\* the card, however the card is addressed and whatever failed before.
ReadInPlace ==
  sdReq.kind = "read" /\ sdReq.size > 0 /\ mmcCall.kind = "read" /\ sdReq.status \in {"pending", "SUCCESS"}
    /\ Whole => /\ Len(mmcGot) * BLOCK_SIZE <= sdReq.size
                /\ \A k \in 1..Len(mmcGot) : mmcGot[k].unit = sdReq.lba + k - 1

\* mmc_bwrite changes no block but those asked for, each with its own part
\* of the buffer, and the blocks it counts are on the card, unless a fault in
\* them was missed.
WriteInPlace ==
  sdReq.kind = "write" /\ sdReq.status = "pending" /\ Whole =>
    /\ \A u \in DOMAIN sdCard.disk : sdCard.disk[u] # -1 =>
         u = sdReq.lba + sdCard.disk[u] /\ u * BLOCK_SIZE < sdReq.lba * BLOCK_SIZE + sdReq.size
    /\ \A j \in 0..(mmcCall.run - 1) : mmcGot[j + 1].good => sdCard.disk[sdReq.lba + j] = j

\* A block whose transfer began with no flag left over from another is not
\* counted if it was damaged: its own checksum was waited for.
FreshBlockChecked == \A k \in 1..Len(mmcGot) : mmcGot[k].fresh => mmcGot[k].good

\* As long as nothing goes wrong on the wire and no block was asked for that
\* is not on the card (LastBlock is one of them), the card is sent no command that
\* its state does not allow: not while it still programs a block, and none
\* that moves a block before its length is set.
CommandsLegal == mmcFaults = 0 => sdCard.legal

\* Block I/O is published only over a card that is initialised and selected,
\* with the size its CSD tells and the controller's clock started.
PublishedIsUsable ==
  sdPc = "ready" =>
    /\ mmcDrv.ready /\ mmcDrv.dev.ops /\ mmcDrv.scrValid
    /\ sdCard.state \notin {"idle", "ready", "ident", "stby"}
    /\ SDC_INSTANCE \in sdcc.hclk /\ sdcc.mclk[SDC_INSTANCE] >= 25000
    /\ mmcDrv.highCapacity = sdCard.kind.hc

\* SDCn_deinit leaves the clocks as SDCn_init found them.
DeinitRestores ==
  sdPc = "off" => /\ sdcc.mclk[SDC_INSTANCE] = 0
                  /\ SDC_INSTANCE \in sdcc.hclk <=> sdcn.hclk

\* Every read and write returns, whatever befell its blocks.
RequestReturns == sdReq.status = "pending" ~> sdReq.status # "pending"

\* The driver's start ends, unless something went wrong on the wire.
InitEnds == sdPc = "init" ~> (sdPc # "init" \/ mmcFaults > 0)

\* As the comment of MMCHSReadBlocks has it: success means that the data was
\* read correctly, all of it.
ReadCorrect ==
  sdReq.kind = "read" /\ sdReq.status = "SUCCESS" /\ sdReq.size > 0 =>
    /\ Len(mmcGot) * BLOCK_SIZE = sdReq.size
    /\ \A k \in 1..Len(mmcGot) : mmcGot[k].good

\* Reads and writes move the blocks that were asked for, to and from their places.
BlocksInPlace == ReadInPlace /\ WriteInPlace

\* The card is driven as its protocol has it, from CMD0 to the end of the driver.
CardHandled == SdTypeOK /\ FreshBlockChecked /\ CommandsLegal /\ PublishedIsUsable /\ DeinitRestores

\* No loop of the driver waits for ever.
RequestsEnd == RequestReturns /\ InitEnds
=============================================================================
