------------------------------- MODULE I2CDxe -------------------------------
(***************************************************************************)
(* The I2C driver: msm_i2c_xfer sets a transfer up, writes the first       *)
(* address and then only watches the bus, while the interrupt handler      *)
(* moves the bytes.                                                        *)
(*                                                                         *)
(* Foreground, interrupt handler and controller are separate processes.    *)
(* All callers run at one task priority level, so one transfer at a time.  *)
(* An interrupt that is pending and enabled comes before the next step of  *)
(* the foreground; the controller needs a byte time, and so lets the       *)
(* foreground finish its own call of msm_i2c_interrupt_locked first.       *)
(*                                                                         *)
(* The controller is external and does what the driver relies on: an       *)
(* address makes the bus active, every change raises the interrupt, error  *)
(* bits go away when they are read, and a stop request is looked at when   *)
(* the next byte is complete; it may be seen one byte late, or ignored     *)
(* ("Stop requests are sometimes ignored", "Read may not have stopped in   *)
(* time").                                                                 *)
(* A request made after the end has no effect.                             *)
(* Faults says what else may go wrong on the bus.  Clocks and the          *)
(* switching of the pins to GPIOs during a recovery are left out.          *)
(***************************************************************************)
EXTENDS Integers, Sequences

CONSTANTS Ops,       \* message lists, as sequences of [rd, len] records
          Faults,    \* subset of {"nack", "hang"}
          Retries,   \* MSM_I2C_READ_RETRY_TIMES, MSM_I2C_WRITE_RETRY_TIMES
          MaxBytes,  \* bound: bytes a device sends in one message
          MaxMissed  \* bound: stop requests of a message that are ignored

ASSUME FaultsAssumption == Faults \subseteq {"nack", "hang"}
ASSUME RetriesAssumption == Retries \in Nat
ASSUME BoundsAssumption == MaxBytes \in Nat /\ MaxMissed \in Nat

\* msm_i2c_write has one message; msm_i2c_read has the register's address and
\* a message from the device.
ASSUME OpsAssumption ==
  \A msgs \in Ops :
    /\ msgs \in Seq([rd : BOOLEAN, len : 0 .. MaxBytes])
    /\ Len(msgs) \in 1 .. 2
    /\ ~msgs[1].rd
    /\ Len(msgs) = 2 => msgs[1].len > 0 /\ msgs[2].rd

VARIABLES pc,          \* the foreground: where msm_i2c_xfer is
          op,          \* msgs
          tries,       \* retry
          ret,         \* ret of msm_i2c_xfer
          outcome,     \* what msm_i2c_read or msm_i2c_write returned
          dev,         \* the transfer in progress: msg is 0 for NULL
          timeout,     \* the static variable of that name
          irqEnabled,  \* the interrupt source is enabled
          irq,         \* the interrupt is pending
          ctl,         \* the controller
          sent,        \* history: bytes this transfer brought to the device
          got,         \* history: bytes this transfer stored in the buffer
          fault        \* history: what went wrong on the bus in this transfer

foreground == <<pc, op, tries, ret, outcome>>
vars == <<foreground, dev, timeout, irqEnabled, irq, ctl, sent, got, fault>>

Idle == [msg |-> 0, rem |-> 0, pos |-> 0, cnt |-> 0, ret |-> "none",
         needFlush |-> FALSE, flushCnt |-> 0]

NoWord == [kind |-> "none", msg |-> 0, pos |-> 0, last |-> FALSE]
StopWord == [kind |-> "stop", msg |-> 0, pos |-> 0, last |-> TRUE]

Quiet == [active |-> FALSE, mode |-> "off", wr |-> NoWord, rd |-> FALSE,
          rx |-> 0, late |-> FALSE, missed |-> 0, err |-> FALSE, invalid |-> FALSE,
          hung |-> FALSE]

\* After msm_i2c_probe, which registers the handler and so enables its source.
Init ==
  /\ pc = "idle" /\ op = << >> /\ tries = 0 /\ ret = "none" /\ outcome = "none"
  /\ dev = Idle /\ timeout = FALSE
  /\ irqEnabled = TRUE /\ irq \in BOOLEAN /\ ctl = Quiet
  /\ sent = << >> /\ got = << >> /\ fault = "none"

----------------------------------------------------------------------------
\* msm_i2c_interrupt_locked, as functions of the device state.

Reading(d) == op[d.msg].rd

\* Mutant: the first byte of the last message ends the transfer.
FillWordEarly(d) ==
  IF d.pos < 0
    THEN [kind |-> "addr", msg |-> d.msg, pos |-> 0,
          last |-> d.rem = 1 /\ op[d.msg].len = 0]
    ELSE IF Reading(d) \/ d.cnt = 0
           THEN NoWord
           ELSE [kind |-> "byte", msg |-> d.msg, pos |-> d.pos,
                 last |-> d.rem = 1]

\* msm_i2c_fill_write_buffer: the word it writes, if any.
FillWord(d) ==
  IF d.pos < 0
    THEN [kind |-> "addr", msg |-> d.msg, pos |-> 0,
          last |-> d.rem = 1 /\ op[d.msg].len = 0]
    ELSE IF Reading(d) \/ d.cnt = 0
           THEN NoWord
           ELSE [kind |-> "byte", msg |-> d.msg, pos |-> d.pos,
                 last |-> d.cnt = 1 /\ d.rem = 1]

Filled(d) ==
  IF d.pos < 0 THEN [d EXCEPT !.pos = 0]
  ELSE IF FillWord(d) = NoWord THEN d
       ELSE [d EXCEPT !.pos = @ + 1, !.cnt = @ - 1]

\* msm_i2c_read_buffer
Expecting(d) == Reading(d) /\ d.pos >= 0 /\ d.cnt > 0

\* Mutant: every byte flushed requests a stop.
RequestsStopAlways(d) ==
  Expecting(d) => d.cnt = 2 \/ (d.cnt = 1 /\ d.pos = 0)

RequestsStop(d) ==
  IF Expecting(d) THEN d.cnt = 2 \/ (d.cnt = 1 /\ d.pos = 0)
                  ELSE d.flushCnt % 2 = 1

Drained(d) ==
  IF Expecting(d)
    THEN [d EXCEPT !.cnt = @ - 1, !.pos = @ + 1,
                   !.needFlush = @ \/ (d.cnt = 1 /\ d.pos = 0)]
    ELSE [d EXCEPT !.needFlush = FALSE,
                   !.flushCnt = IF d.needFlush THEN @ ELSE @ + 1]

\* The end of a message: on to the next one, or the transfer is complete.
MessageDone(d) == d.pos >= 0 /\ d.cnt = 0

Advanced(d) ==
  IF MessageDone(d) /\ d.rem > 1
    THEN [d EXCEPT !.rem = @ - 1, !.msg = @ + 1, !.pos = -1,
                   !.cnt = op[d.msg + 1].len]
    ELSE d

TransferDone(d, notDone) ==
  MessageDone(d) /\ d.rem <= 1 /\ ~notDone /\ ~d.needFlush

\* A word written to the controller: there is room for one only, an address
\* takes the bus, and a controller that has stopped ignores a request.
Written(c, word) ==
  IF word = NoWord \/ (word = StopWord /\ ~c.active) THEN c
  ELSE [c EXCEPT !.wr = word, !.invalid = @ \/ c.wr # NoWord,
                 !.active = @ \/ word.kind = "addr"]

InterruptLocked(d, c) ==
  IF d.msg = 0
    THEN /\ dev' = d /\ ctl' = [c EXCEPT !.err = FALSE]
         /\ UNCHANGED <<timeout, got>>
    ELSE IF c.err
      THEN /\ dev' = [d EXCEPT !.ret = "error"] /\ timeout' = TRUE
           /\ ctl' = [c EXCEPT !.err = FALSE]
           /\ UNCHANGED got
      ELSE
        LET room == c.wr = NoWord
            word == IF room THEN FillWord(d) ELSE NoWord
            d1 == IF room THEN Filled(d) ELSE d
            c1 == Written(c, word)
            d2 == IF c.rd THEN Drained(d1) ELSE d1
            c2 == IF c.rd
                    THEN [Written(c1, IF RequestsStop(d1) THEN StopWord ELSE NoWord)
                            EXCEPT !.rd = FALSE]
                    ELSE c1
        IN /\ dev' = Advanced(d2)
           /\ ctl' = c2
           /\ timeout' = (timeout /\ ~TransferDone(d2, room => word # NoWord))
           /\ got' = IF c.rd /\ Expecting(d1) THEN Append(got, c.rx) ELSE got

I2CInterruptHandler ==
  /\ irq /\ irqEnabled
  /\ irq' = FALSE
  /\ InterruptLocked(dev, ctl)
  /\ UNCHANGED <<foreground, irqEnabled, sent, fault>>

----------------------------------------------------------------------------
\* The foreground.

Preempted == irq /\ irqEnabled

\* msm_i2c_read and msm_i2c_write, and the first lines of msm_i2c_xfer.
Call(msgs) ==
  /\ pc = "idle"
  /\ op' = msgs /\ tries' = 0 /\ outcome' = "none"
  /\ pc' = "enable"
  /\ UNCHANGED <<ret, dev, timeout, irqEnabled, irq, ctl, sent, got, fault>>

EnableInterrupt ==
  /\ pc = "enable"
  /\ irqEnabled' = TRUE
  /\ pc' = "notbusy"
  /\ sent' = << >> /\ got' = << >> /\ fault' = IF ctl.hung THEN "hang" ELSE "none"
  /\ UNCHANGED <<op, tries, ret, outcome, dev, timeout, irq, ctl>>

NewTransfer ==
  [msg |-> 1, rem |-> Len(op), pos |-> -1, cnt |-> op[1].len,
   ret |-> "num", needFlush |-> FALSE, flushCnt |-> 0]

\* The bus is free, or was freed: set dev up and write the first address.
StartTransfer(c) ==
  /\ InterruptLocked(NewTransfer, c)
  /\ pc' = "wait"
  /\ UNCHANGED ret

\* msm_i2c_poll_notbusy gives up only on a bus that hangs, and then
\* msm_i2c_recover_bus_busy frees it or does not.
NotBusy ==
  /\ pc = "notbusy" /\ ~Preempted
  /\ \/ ~ctl.active /\ StartTransfer(ctl) /\ UNCHANGED fault
     \/ ctl.hung /\ StartTransfer(Quiet) /\ fault' = "none"
     \/ /\ ctl.hung
        /\ ret' = "not_ready" /\ pc' = "leave"
        /\ UNCHANGED <<dev, ctl, timeout, got, fault>>
  /\ UNCHANGED <<op, tries, outcome, irqEnabled, irq, sent>>

\* The outcome of a transfer whose bus went idle or was freed.
Result == IF timeout THEN "timed_out" ELSE dev.ret

TransferEnds ==
  /\ pc = "wait" /\ ~Preempted
  /\ \/ ~ctl.active /\ ret' = Result /\ UNCHANGED ctl
     \/ ctl.hung /\ ret' = Result /\ ctl' = Quiet
     \/ ctl.hung /\ ret' = dev.ret /\ UNCHANGED ctl
  /\ dev' = [Idle EXCEPT !.needFlush = dev.needFlush]
  /\ pc' = "leave"
  /\ UNCHANGED <<op, tries, outcome, timeout, irqEnabled, irq, sent, got, fault>>

\* Mutant: retries are not counted.
LeaveUncounted ==
  /\ pc = "leave" /\ ~Preempted
  /\ irqEnabled' = FALSE
  /\ IF ret = "num"
       THEN pc' = "idle" /\ outcome' = "ok"
       ELSE pc' = "enable" /\ UNCHANGED outcome
  /\ UNCHANGED <<op, tries, ret, dev, timeout, irq, ctl, sent, got, fault>>

\* The label err, and the retry loop of msm_i2c_read and msm_i2c_write.
Leave ==
  /\ pc = "leave" /\ ~Preempted
  /\ irqEnabled' = FALSE
  /\ IF ret = "num"
       THEN pc' = "idle" /\ outcome' = "ok" /\ UNCHANGED tries
       ELSE IF tries < Retries
         THEN pc' = "enable" /\ tries' = tries + 1 /\ UNCHANGED outcome
         ELSE pc' = "idle" /\ outcome' = "failed" /\ UNCHANGED tries
  /\ UNCHANGED <<op, ret, dev, timeout, irq, ctl, sent, got, fault>>

Foreground == EnableInterrupt \/ NotBusy \/ TransferEnds \/ Leave

----------------------------------------------------------------------------
\* The controller and the device on the bus.

Raise(c) == ctl' = c /\ irq' = TRUE

ControllerTakesWord ==
  /\ ctl.wr # NoWord /\ ~ctl.hung
  /\ LET w == ctl.wr
         c == [ctl EXCEPT !.wr = NoWord]
     IN  \/ /\ w.kind = "addr"
            /\ Raise([c EXCEPT !.rx = 0, !.late = FALSE, !.missed = 0,
                        !.mode = IF w.last THEN "end"
                                 ELSE IF op[w.msg].rd THEN "read" ELSE "write"])
            /\ UNCHANGED <<sent, fault>>
         \/ /\ w.kind = "byte" /\ ctl.mode = "write"
            /\ Raise([c EXCEPT !.mode = IF w.last THEN "end" ELSE "write"])
            /\ sent' = Append(sent, <<w.msg, w.pos>>)
            /\ UNCHANGED fault
         \/ /\ \/ w.kind = "stop" /\ ctl.mode # "read"
               \/ w.kind = "byte" /\ ctl.mode # "write"
            /\ ctl' = c
            /\ UNCHANGED <<irq, sent, fault>>
         \/ /\ w.kind \in {"addr", "byte"} /\ "nack" \in Faults
            /\ Raise([c EXCEPT !.mode = "end", !.err = TRUE])
            /\ fault' = "nack"
            /\ UNCHANGED sent
  /\ UNCHANGED <<foreground, dev, timeout, irqEnabled, got>>

ControllerReceives ==
  /\ ctl.mode = "read" /\ ~ctl.rd /\ ~ctl.hung
  /\ ctl.rx < MaxBytes
  /\ LET c == [ctl EXCEPT !.rd = TRUE, !.rx = @ + 1]
         requested == ctl.wr = StopWord
         seen == [c EXCEPT !.wr = NoWord, !.late = FALSE]
     IN  \/ ctl.wr = NoWord /\ Raise(c)
         \/ requested /\ Raise([seen EXCEPT !.mode = "end"])
         \/ requested /\ ~ctl.late /\ Raise([c EXCEPT !.late = TRUE])
         \/ requested /\ ctl.missed < MaxMissed /\ Raise([seen EXCEPT !.missed = @ + 1])
  /\ UNCHANGED <<foreground, dev, timeout, irqEnabled, sent, got, fault>>

ControllerStops ==
  /\ ctl.mode = "end" /\ ctl.active /\ ctl.wr = NoWord /\ ~ctl.hung
  /\ ctl' = [ctl EXCEPT !.active = FALSE, !.mode = "off"]
  /\ UNCHANGED <<foreground, dev, timeout, irqEnabled, irq, sent, got, fault>>

BusHangs ==
  /\ "hang" \in Faults /\ ctl.active /\ ~ctl.hung
  /\ ctl' = [ctl EXCEPT !.hung = TRUE]
  /\ fault' = "hang"
  /\ UNCHANGED <<foreground, dev, timeout, irqEnabled, irq, sent, got>>

Controller == ControllerTakesWord \/ ControllerReceives \/ ControllerStops

Next ==
  \/ \E msgs \in Ops : Call(msgs)
  \/ Foreground \/ I2CInterruptHandler \/ Controller \/ BusHangs

Spec == Init /\ [][Next]_vars

\* The processor runs, and so does the controller unless the bus hangs.
FairSpec ==
  Spec /\ WF_vars(Foreground) /\ WF_vars(I2CInterruptHandler) /\ WF_vars(Controller)
-----------------------------------------------------------------------------
Word == [kind : {"none", "addr", "byte", "stop"}, msg : 0 .. 2,
         pos : 0 .. MaxBytes, last : BOOLEAN]

TransferState ==
  [msg : 0 .. Len(op), rem : 0 .. Len(op), pos : -1 .. MaxBytes, cnt : 0 .. MaxBytes,
   ret : {"none", "num", "error"}, needFlush : BOOLEAN, flushCnt : 0 .. MaxBytes]

ControllerState ==
  [active : BOOLEAN, mode : {"off", "write", "read", "end"}, wr : Word, rd : BOOLEAN,
   rx : 0 .. MaxBytes, late : BOOLEAN, missed : 0 .. MaxMissed, err : BOOLEAN,
   invalid : BOOLEAN, hung : BOOLEAN]

TypeOK ==
  /\ pc \in {"idle", "enable", "notbusy", "wait", "leave"}
  /\ op \in Ops \cup {<< >>} /\ tries \in 0 .. Retries
  /\ ret \in {"none", "num", "error", "timed_out", "not_ready"}
  /\ outcome \in {"none", "ok", "failed"}
  /\ dev \in TransferState /\ ctl \in ControllerState
  /\ timeout \in BOOLEAN /\ irqEnabled \in BOOLEAN /\ irq \in BOOLEAN
  /\ fault \in {"none"} \cup Faults

\* What a transfer is for: the bytes of the write messages reach the device,
\* each once and in order, and the buffer holds the first bytes the device sent.
WriteBytes ==
  {b \in (1 .. Len(op)) \X (0 .. MaxBytes) : ~op[b[1]].rd /\ b[2] < op[b[1]].len}

Before(a, b) == a[1] < b[1] \/ (a[1] = b[1] /\ a[2] < b[2])

Delivered ==
  /\ {sent[i] : i \in DOMAIN sent} = WriteBytes
  /\ \A i, j \in DOMAIN sent : i < j => Before(sent[i], sent[j])

ReadLength == IF op[Len(op)].rd THEN op[Len(op)].len ELSE 0

Transferred == Delivered /\ got = [i \in 1 .. ReadLength |-> i]

\* A caller told of success has had its bytes moved, all of them, in order and
\* once, whatever bytes were refused on the way and however many unrequested
\* ones had to be flushed, unless the bus hung.
SuccessMeansTransferred == outcome = "ok" /\ fault # "hang" => Transferred

\* "Now that we've setup the xfer, the ISR will transfer the data and wake us
\* up with dev.err set if there was an error" (I2CDxe.c:374): the same on a bus
\* that hangs in the middle.
TransferredOrError == outcome = "ok" => Transferred

\* A transfer on which nothing went wrong is reported as a success, whatever
\* happened to the ones before it: timeout is sticky, and only the handler's
\* last interrupt clears it.
CleanTransferSucceeds == pc = "leave" /\ fault = "none" => ret = "num"

\* "writing more than one request generates a write error" (I2CDxe.c:194): the
\* handler never writes to a write buffer that is full.
NoInvalidWrite == ~ctl.invalid

\* After a call no interrupt can come, and unless it hangs the bus is free and
\* nothing is left in the controller's buffers.
QuietBetweenTransfers ==
  pc = "idle" /\ outcome # "none" =>
    /\ ~irqEnabled
    /\ ~ctl.hung => ~ctl.active /\ ~ctl.rd /\ ctl.wr = NoWord

\* Every call returns.
CallsReturn == pc # "idle" ~> pc = "idle"

\* What a caller is told of its transfer is what became of it, in both
\* directions, as long as the bus does not hang.
TransfersReported == TypeOK /\ SuccessMeansTransferred /\ CleanTransferSucceeds

\* The controller is never asked for what it cannot do, and is left as the next
\* transfer needs it.
ControllerKept == NoInvalidWrite /\ QuietBetweenTransfers
=============================================================================
