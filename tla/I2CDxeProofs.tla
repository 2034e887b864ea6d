---------------------------- MODULE I2CDxeProofs ----------------------------
(* Theorems about I2CDxe, for all message lists of msm_i2c_read and         *)
(* msm_i2c_write, any number of retries, bytes and ignored stop requests,   *)
(* and any of the faults.                                                   *)
(*                                                                          *)
(* The invariant follows a transfer through its phases: the first address   *)
(* is out, bytes are written, the address of the read is out, bytes are     *)
(* read, the last byte was written, or a byte was refused.  In each of them *)
(* what the handler thinks it did (dev), what is in the controller, and     *)
(* what really moved (sent, got) are tied together.  A bus that hangs stops *)
(* in its phase.                                                            *)
EXTENDS I2CDxe, SequenceTheorems, TLAPS

\* The lengths of the message written and of the message read.
Outgoing == op[1].len
Incoming == op[2].len

\* The bytes that reached the device when it got the first k.
Bytes(k) == [i \in 1 .. k |-> <<1, i - 1>>]

\* Where the handler stands when it wrote k bytes of the first message.
Wrote(k) ==
  IF k < Outgoing \/ Len(op) = 1
    THEN dev.msg = 1 /\ dev.rem = Len(op) /\ dev.pos = k /\ dev.cnt = Outgoing - k
    ELSE dev.msg = 2 /\ dev.rem = 1 /\ dev.pos = -1 /\ dev.cnt = Incoming

AddressWord(m, last) == [kind |-> "addr", msg |-> m, pos |-> 0, last |-> last]
ByteWord(k) ==
  [kind |-> "byte", msg |-> 1, pos |-> k, last |-> Outgoing - k = 1 /\ Len(op) = 1]

\* Nothing was refused, flushed or read.
Untroubled ==
  /\ dev.ret = "num" /\ ~dev.needFlush /\ dev.flushCnt = 0
  /\ ~ctl.err /\ ~ctl.rd /\ got = << >>

Addressing ==
  /\ Untroubled /\ ~irq
  /\ ctl.active /\ ctl.mode = "off"
  /\ ctl.wr = AddressWord(1, Len(op) = 1 /\ Outgoing = 0)
  /\ sent = << >> /\ Wrote(0)

\* k bytes have arrived, and the next one is asked for or on its way.
Writing ==
  \E k \in 0 .. Outgoing :
    /\ Untroubled
    /\ ctl.active /\ ctl.mode = "write"
    /\ sent = Bytes(k)
    /\ \/ ctl.wr = NoWord /\ irq /\ Wrote(k) /\ (Len(op) = 1 => k < Outgoing)
       \/ k < Outgoing /\ ctl.wr = ByteWord(k) /\ ~irq /\ Wrote(k + 1)

AtRead(p) == dev.msg = 2 /\ dev.rem = 1 /\ dev.pos = p /\ dev.cnt = Incoming - p

AddressingRead ==
  /\ Len(op) = 2 /\ Untroubled /\ ~irq
  /\ ctl.active /\ ctl.mode = "write"
  /\ ctl.wr = AddressWord(2, Incoming = 0)
  /\ sent = Bytes(Outgoing) /\ AtRead(0)

Pending == IF ctl.rd THEN 1 ELSE 0

\* Every byte that came is stored, flushed, or in the read buffer, which the
\* handler will be called for.
BytesStored ==
  /\ got = [i \in 1 .. dev.pos |-> i]
  /\ dev.cnt > 0 => ctl.rx = dev.pos + Pending /\ dev.flushCnt = 0 /\ ~dev.needFlush
  /\ dev.needFlush => dev.flushCnt = 0
  /\ dev.flushCnt + Pending <= ctl.rx
  /\ ctl.rd => irq

\* The byte that is next is the last one or later.
LastIsNext == dev.cnt = 0 \/ (dev.cnt = 1 /\ dev.pos > 0)

\* A stop request in the write buffer was made for the last byte or later,
\* and while it waits there the handler makes no other.
StopRequested ==
  /\ LastIsNext
  /\ ctl.rd => ctl.late
  /\ ~ctl.late \/ ctl.rd => ~RequestsStop(dev)

\* The device has stopped: the handler has all bytes but one at most, and is
\* called for that one and clears timeout then.
ReadStopped ==
  /\ ctl.rd => ctl.wr = NoWord
  /\ (dev.cnt = 0 /\ ~dev.needFlush) \/ (ctl.rd /\ LastIsNext)
  /\ (irq /\ ctl.wr = NoWord) \/ ~timeout
  /\ ctl.mode = "off" <=> ~ctl.active

ReadingBytes ==
  /\ Len(op) = 2 /\ sent = Bytes(Outgoing)
  /\ dev.ret = "num" /\ ~ctl.err
  /\ \E p \in 0 .. Incoming : AtRead(p)
  /\ BytesStored
  /\ ctl.wr \in {NoWord, StopWord}
  /\ ctl.mode \in {"read", "end", "off"}
  /\ ctl.mode = "read" => ctl.active
  /\ ctl.mode = "read" /\ ctl.wr = StopWord => StopRequested
  /\ ctl.mode # "read" => ReadStopped

Stopped == ctl.mode \in {"end", "off"} /\ (ctl.mode = "off" <=> ~ctl.active)

AllWritten ==
  /\ Len(op) = 1 /\ Untroubled /\ Stopped
  /\ ctl.wr = NoWord /\ sent = Bytes(Outgoing) /\ Wrote(Outgoing)
  /\ irq \/ ~timeout

\* The handler is called for the refusal, and only for that.
Refused ==
  /\ Stopped /\ ctl.wr = NoWord /\ ~ctl.rd
  /\ dev.msg # 0
  /\ ctl.err <=> irq
  /\ ctl.err \/ dev.ret = "error"

Moving == Addressing \/ Writing \/ AddressingRead \/ ReadingBytes \/ AllWritten

\* A transfer in progress.
InTransfer ==
  /\ irqEnabled
  /\ ctl.hung => ctl.active
  /\ ~ctl.active => ctl.wr = NoWord
  /\ ctl.hung => fault = "hang"
  /\ \/ Moving /\ fault # "nack"
     \/ Refused /\ fault # "none"

\* The controller between transfers.
Resting ==
  ~ctl.active /\ ctl.mode = "off" /\ ctl.wr = NoWord /\ ~ctl.rd /\ ~ctl.err

BetweenTransfers ==
  /\ dev = [Idle EXCEPT !.needFlush = dev.needFlush]
  /\ ctl.hung \/ Resting
  /\ ctl.hung => ctl.active
  /\ ctl.err => irq

Starting ==
  irqEnabled /\ sent = << >> /\ got = << >> /\ fault = IF ctl.hung THEN "hang" ELSE "none"

\* What ret says of the transfer that is over.
Told ==
  /\ fault = "none" => ret = "num"
  /\ ret = "num" /\ fault # "hang" => Transferred

I2CInv ==
  /\ TypeOK
  /\ ~ctl.invalid
  /\ ctl.hung => "hang" \in Faults
  /\ pc # "idle" => op \in Ops /\ outcome = "none"
  /\ pc = "notbusy" => Starting
  /\ IF pc = "wait" THEN InTransfer ELSE BetweenTransfers
  /\ pc = "leave" => Told
  /\ SuccessMeansTransferred
  /\ QuietBetweenTransfers

-----------------------------------------------------------------------------
(* Data.                                                                    *)

\* The shapes of the message lists (OpsAssumption, for the list at hand).
LEMMA OpShape ==
  ASSUME op \in Ops
  PROVE  /\ Len(op) \in {1, 2} /\ op # << >>
         /\ op[1].rd = FALSE /\ Outgoing \in 0 .. MaxBytes
         /\ Len(op) = 2 => op[2].rd = TRUE /\ Outgoing > 0 /\ Incoming \in 0 .. MaxBytes
PROOF
  <1> DEFINE Message == [rd : BOOLEAN, len : 0 .. MaxBytes]
  <1>1. /\ op \in Seq(Message) /\ Len(op) \in 1 .. 2 /\ ~op[1].rd
        /\ Len(op) = 2 => op[1].len > 0 /\ op[2].rd
    BY OpsAssumption
  <1>2. Len(op) \in {1, 2} /\ op # << >>
    BY <1>1
  <1> HIDE DEF Message
  <1>3. op[1] \in Message
    BY <1>1, ElementOfSeq, 1 \in 1 .. Len(op)
  <1>4. ASSUME Len(op) = 2 PROVE op[2] \in Message
    BY <1>1, <1>4, ElementOfSeq, 2 \in 1 .. Len(op)
  <1> QED
    BY <1>1, <1>2, <1>3, <1>4 DEF Outgoing, Incoming, Message

\* The words that the handler and the controller exchange are words.
LEMMA Words ==
  ASSUME op \in Ops
  PROVE  /\ NoWord \in Word /\ StopWord \in Word
         /\ \A m \in {1, 2}, last \in BOOLEAN : AddressWord(m, last) \in Word
         /\ \A k \in 0 .. MaxBytes : ByteWord(k) \in Word
PROOF
  BY BoundsAssumption DEF Word, NoWord, StopWord, AddressWord, ByteWord

\* One more byte at the device.
LEMMA OneMoreByte ==
  ASSUME NEW k \in Nat
  PROVE  Append(Bytes(k), <<1, k>>) = Bytes(k + 1)
PROOF
  <1> DEFINE S == Nat \X Nat
  <1>1. Bytes(k) \in Seq(S) /\ Len(Bytes(k)) = k
    BY DEF Bytes
  <1>2. Append(Bytes(k), <<1, k>>) = [i \in 1 .. (k + 1) |-> IF i = k + 1 THEN <<1, k>>
        ELSE Bytes(k)[i]]
    BY <1>1
  <1> QED
    BY <1>2 DEF Bytes

\* One more byte in the buffer.
LEMMA OneMoreRead ==
  ASSUME NEW p \in Nat
  PROVE  Append([i \in 1 .. p |-> i], p + 1) = [i \in 1 .. (p + 1) |-> i]
PROOF
  <1> DEFINE s == [i \in 1 .. p |-> i]
  <1>1. s \in Seq(Nat) /\ Len(s) = p
    OBVIOUS
  <1>2. Append(s, p + 1) = [i \in 1 .. (p + 1) |-> IF i = p + 1 THEN p + 1 ELSE s[i]]
    BY <1>1
  <1> QED
    BY <1>2

\* All bytes of the first message, in their order, are all bytes to be written.
LEMMA AllDelivered ==
  ASSUME op \in Ops, sent = Bytes(Outgoing)
  PROVE  Delivered
PROOF
  <1>1. Outgoing \in 0 .. MaxBytes /\ Outgoing = op[1].len
    BY OpShape DEF Outgoing
  <1>2. DOMAIN sent = 1 .. Outgoing /\ \A i \in 1 .. Outgoing : sent[i] = <<1, i - 1>>
    BY DEF Bytes
  <1>3. WriteBytes = {<<1, p>> : p \in 0 .. (Outgoing - 1)}
    <2>1. \A m \in 1 .. Len(op), p \in 0 .. MaxBytes :
            ~op[m].rd /\ p < op[m].len <=> m = 1 /\ p < Outgoing
      <3>1. ASSUME NEW m \in 1 .. Len(op) PROVE m = 1 \/ (m = 2 /\ op[m].rd)
        <4>1. \A n \in {1, 2} : \A i \in 1 .. n : i = 1 \/ (i = 2 /\ n = 2)
          OBVIOUS
        <4>2. Len(op) = 2 => op[2].rd
          BY OpShape
        <4>3. Len(op) \in {1, 2}
          BY OpShape
        <4> QED
          BY <4>1, <4>2, <4>3, Zenon
      <3>2. ~op[1].rd
        BY OpShape
      <3> QED
        BY <3>1, <3>2 DEF Outgoing
    <2>2. 1 \in 1 .. Len(op)
      BY OpShape
    <2>3. ASSUME NEW x \in WriteBytes PROVE x \in {<<1, p>> : p \in 0 .. (Outgoing - 1)}
      <3>1. PICK m \in 1 .. Len(op), p \in 0 .. MaxBytes :
               x = <<m, p>> /\ ~op[m].rd /\ p < op[m].len
        BY DEF WriteBytes
      <3>2. x = <<1, p>> /\ p \in 0 .. (Outgoing - 1)
        BY <3>1, <2>1, <1>1
      <3> QED
        BY <3>2
    <2>4. ASSUME NEW p \in 0 .. (Outgoing - 1) PROVE <<1, p>> \in WriteBytes
      <3>1. p \in 0 .. MaxBytes
        BY <1>1, BoundsAssumption
      <3>2. ~op[1].rd /\ p < op[1].len
        BY <2>1, <2>2, <3>1, <1>1
      <3> QED
        BY <2>2, <3>1, <3>2 DEF WriteBytes
    <2> QED
      BY <2>3, <2>4
  <1>4. {sent[i] : i \in DOMAIN sent} = WriteBytes
    <2>1. ASSUME NEW i \in 1 .. Outgoing PROVE sent[i] \in WriteBytes
      <3>1. sent[i] = <<1, i - 1>> /\ i - 1 \in 0 .. (Outgoing - 1)
        BY <1>1, <1>2
      <3> QED
        BY <3>1, <1>3
    <2>2. ASSUME NEW p \in 0 .. (Outgoing - 1) PROVE p + 1 \in 1 .. Outgoing
          /\ sent[p + 1] = <<1, p>>
      BY <1>1, <1>2
    <2> QED
      BY <2>1, <2>2, <1>2, <1>3
  <1>5. \A i, j \in DOMAIN sent : i < j => Before(sent[i], sent[j])
    BY <1>1, <1>2 DEF Before
  <1> QED
    BY <1>4, <1>5 DEF Delivered

-----------------------------------------------------------------------------
(* The handler.                                                             *)

\* Of the handler's steps one is to be seen at a time.  No byte has come and
\* there is room: it writes the next word, if there is one.
LEMMA HandlerWrites ==
  ASSUME NEW d, NEW c, d.msg # 0, ~c.err, ~c.rd, c.wr = NoWord, InterruptLocked(d, c)
  PROVE  /\ dev' = Advanced(Filled(d))
         /\ ctl' = Written(c, FillWord(d))
         /\ got' = got
         /\ timeout' = (timeout /\ ~TransferDone(Filled(d), FillWord(d) # NoWord))
PROOF
  BY Zenon DEF InterruptLocked

\* A byte has come: it is stored or flushed, after nothing was to be written.
LEMMA HandlerReads ==
  ASSUME dev.msg # 0, ~ctl.err, ctl.rd, FillWord(dev) = NoWord, Filled(dev) = dev,
         InterruptLocked(dev, ctl)
  PROVE  /\ dev' = Advanced(Drained(dev))
         /\ ctl' = [Written(Written(ctl, NoWord), IF RequestsStop(dev) THEN StopWord ELSE NoWord)
                      EXCEPT !.rd = FALSE]
         /\ got' = IF Expecting(dev) THEN Append(got, ctl.rx) ELSE got
         /\ timeout' = (timeout /\ ~TransferDone(Drained(dev), ctl.wr = NoWord => NoWord # NoWord))
PROOF
  <1>1. (IF ctl.wr = NoWord THEN FillWord(dev) ELSE NoWord) = NoWord
        /\ (IF ctl.wr = NoWord THEN Filled(dev) ELSE dev) = dev
    BY Zenon
  <1> QED
    BY <1>1, Zenon DEF InterruptLocked

\* Writing a word into an empty buffer of a controller that has the bus, or
\* an address into one that has not.
LEMMA WordWritten ==
  ASSUME NEW c \in ControllerState, NEW word \in Word, word # NoWord, word # StopWord,
         c.wr = NoWord, c.active \/ word.kind = "addr"
  PROVE  Written(c, word) = [c EXCEPT !.wr = word, !.active = TRUE]
PROOF
  <1>1. Written(c, word) = [c EXCEPT !.wr = word, !.invalid = @ \/ c.wr # NoWord,
                                     !.active = @ \/ word.kind = "addr"]
    BY Zenon DEF Written
  <1>2. (c.invalid \/ c.wr # NoWord) = c.invalid
    BY DEF ControllerState
  <1>3. (c.active \/ word.kind = "addr") = TRUE
    BY Zenon DEF ControllerState
  <1> QED
    BY <1>1, <1>2, <1>3 DEF ControllerState

\* The handler writes the byte that is next.
LEMMA HandlerWritesByte ==
  ASSUME TypeOK, op \in Ops, Untroubled, ctl.wr = NoWord, ctl.active,
         NEW k \in Nat, k < Outgoing, Wrote(k), InterruptLocked(dev, ctl)
  PROVE  /\ dev' = Advanced([dev EXCEPT !.pos = k + 1, !.cnt = Outgoing - k - 1])
         /\ ctl' = [ctl EXCEPT !.wr = ByteWord(k)]
         /\ got' = got /\ timeout' = timeout
PROOF
  <1>1. dev.msg = 1 /\ dev.rem = Len(op) /\ dev.pos = k /\ dev.cnt = Outgoing - k
    BY DEF Wrote
  <1>2. dev.pos >= 0 /\ dev.cnt # 0 /\ Outgoing \in 0 .. MaxBytes
    BY <1>1, OpShape
  <1>a. ~Reading(dev)
    BY <1>1, OpShape, Zenon DEF Reading
  <1>3. FillWord(dev) = ByteWord(k)
    <2>1. dev.cnt = 1 /\ dev.rem = 1 <=> Outgoing - k = 1 /\ Len(op) = 1
      BY <1>1
    <2> QED
      BY <1>1, <1>2, <1>a, <2>1 DEF FillWord, ByteWord
  <1>4. ByteWord(k) # NoWord /\ ByteWord(k) # StopWord /\ ByteWord(k) \in Word
    BY <1>2, BoundsAssumption, Words DEF ByteWord, NoWord, StopWord
  <1>5. Filled(dev) = [dev EXCEPT !.pos = k + 1, !.cnt = Outgoing - k - 1]
    BY <1>1, <1>2, <1>3, <1>4 DEF Filled, TypeOK, TransferState
  <1>6. Written(ctl, ByteWord(k)) = [ctl EXCEPT !.wr = ByteWord(k)]
    <2>1. Written(ctl, ByteWord(k)) = [ctl EXCEPT !.wr = ByteWord(k), !.active = TRUE]
      BY <1>4, WordWritten DEF TypeOK
    <2>2. ctl.active = TRUE
      BY Zenon DEF TypeOK, ControllerState
    <2> QED
      BY <2>1, <2>2 DEF TypeOK, ControllerState
  <1>7. dev.msg # 0 /\ ~ctl.err /\ ~ctl.rd
    BY <1>1 DEF Untroubled
  <1>8. ~TransferDone(Filled(dev), FillWord(dev) # NoWord)
    BY <1>3, <1>4 DEF TransferDone
  <1>9. /\ dev' = Advanced(Filled(dev)) /\ ctl' = Written(ctl, FillWord(dev)) /\ got' = got
        /\ timeout' = (timeout /\ ~TransferDone(Filled(dev), FillWord(dev) # NoWord))
    BY <1>7, HandlerWrites, Zenon
  <1>10. timeout' = timeout
    BY <1>8, <1>9, Zenon DEF TypeOK
  <1> QED
    BY <1>3, <1>5, <1>6, <1>9, <1>10, Zenon

\* The handler writes the address of the message that is read.
LEMMA HandlerAddressesRead ==
  ASSUME TypeOK, op \in Ops, Untroubled, ctl.wr = NoWord, ctl.active, Len(op) = 2,
         dev.msg = 2, dev.rem = 1, dev.pos = -1, InterruptLocked(dev, ctl)
  PROVE  /\ dev' = [dev EXCEPT !.pos = 0]
         /\ ctl' = [ctl EXCEPT !.wr = AddressWord(2, Incoming = 0)]
         /\ got' = got /\ timeout' = timeout
PROOF
  <1>1. FillWord(dev) = AddressWord(2, Incoming = 0)
    <2>1. (dev.rem = 1 /\ op[dev.msg].len = 0) = (Incoming = 0)
      BY Zenon DEF Incoming
    <2> QED
      BY <2>1 DEF FillWord, AddressWord
  <1>2. FillWord(dev) # NoWord /\ FillWord(dev) # StopWord /\ FillWord(dev) \in Word
        /\ FillWord(dev).kind = "addr"
    <2>1. FillWord(dev) \in Word
      BY <1>1, (Incoming = 0) \in BOOLEAN, Words, Zenon
    <2> QED
      BY <1>1, <2>1 DEF AddressWord, NoWord, StopWord
  <1>3. Filled(dev) = [dev EXCEPT !.pos = 0]
    BY DEF Filled
  <1>4. Advanced(Filled(dev)) = Filled(dev)
    BY <1>3 DEF Advanced, TypeOK, TransferState
  <1>5. Written(ctl, FillWord(dev)) = [ctl EXCEPT !.wr = AddressWord(2, Incoming = 0)]
    <2>1. Written(ctl, FillWord(dev)) = [ctl EXCEPT !.wr = FillWord(dev), !.active = TRUE]
      BY <1>2, WordWritten DEF TypeOK
    <2>2. ctl.active = TRUE
      BY Zenon DEF TypeOK, ControllerState
    <2> QED
      BY <1>1, <2>1, <2>2 DEF TypeOK, ControllerState
  <1>6. dev.msg # 0 /\ ~ctl.err /\ ~ctl.rd
    BY DEF Untroubled
  <1>7. ~TransferDone(Filled(dev), FillWord(dev) # NoWord)
    BY <1>2 DEF TransferDone
  <1>8. /\ dev' = Advanced(Filled(dev)) /\ ctl' = Written(ctl, FillWord(dev)) /\ got' = got
        /\ timeout' = (timeout /\ ~TransferDone(Filled(dev), FillWord(dev) # NoWord))
    BY <1>6, HandlerWrites, Zenon
  <1>9. timeout' = timeout
    BY <1>7, <1>8, Zenon DEF TypeOK
  <1> QED
    BY <1>3, <1>4, <1>5, <1>8, <1>9, Zenon

\* msm_i2c_xfer's own call writes the address of the first message.
LEMMA TransferStarts ==
  ASSUME op \in Ops, timeout \in BOOLEAN,
         NEW c \in ControllerState, c.wr = NoWord, ~c.rd, ~c.err, StartTransfer(c)
  PROVE  /\ dev' = [NewTransfer EXCEPT !.pos = 0]
         /\ ctl' = [c EXCEPT !.wr = AddressWord(1, Len(op) = 1 /\ Outgoing = 0), !.active = TRUE]
         /\ got' = got /\ timeout' = timeout
PROOF
  <1> DEFINE d == NewTransfer
  <1>1. d.msg = 1 /\ d.rem = Len(op) /\ d.pos = -1 /\ d.cnt = Outgoing
    BY DEF NewTransfer, Outgoing
  <1>2. FillWord(d) = AddressWord(1, Len(op) = 1 /\ Outgoing = 0)
    <2>1. (d.rem = 1 /\ op[d.msg].len = 0) = (Len(op) = 1 /\ Outgoing = 0)
      BY <1>1, Zenon DEF Outgoing
    <2> QED
      BY <1>1, <2>1 DEF FillWord, AddressWord
  <1>3. FillWord(d) # NoWord /\ FillWord(d) # StopWord /\ FillWord(d) \in Word
        /\ FillWord(d).kind = "addr"
    <2>1. FillWord(d) \in Word
      BY <1>2, (Len(op) = 1 /\ Outgoing = 0) \in BOOLEAN, Words, Zenon
    <2> QED
      BY <1>2, <2>1 DEF AddressWord, NoWord, StopWord
  <1>4. Filled(d) = [d EXCEPT !.pos = 0]
    BY <1>1 DEF Filled
  <1>5. Advanced(Filled(d)) = Filled(d)
    <2>1. Filled(d).cnt = Outgoing /\ Filled(d).rem = Len(op)
      BY <1>1, <1>4 DEF NewTransfer
    <2>2. CASE Len(op) = 1
      BY <2>1, <2>2 DEF Advanced
    <2>3. CASE Len(op) = 2
      <3>1. Outgoing > 0 /\ Outgoing \in 0 .. MaxBytes
        BY <2>3, OpShape
      <3> QED
        BY <3>1, <2>1 DEF Advanced, MessageDone
    <2> QED
      BY <2>2, <2>3, OpShape
  <1>6. Written(c, FillWord(d)) = [c EXCEPT !.wr = FillWord(d), !.active = TRUE]
    BY <1>3, WordWritten
  <1>7. ~TransferDone(Filled(d), FillWord(d) # NoWord)
    BY <1>3 DEF TransferDone
  <1>8. InterruptLocked(d, c)
    BY DEF StartTransfer
  <1>9. /\ dev' = Advanced(Filled(d)) /\ ctl' = Written(c, FillWord(d)) /\ got' = got
        /\ timeout' = (timeout /\ ~TransferDone(Filled(d), FillWord(d) # NoWord))
    BY <1>1, <1>8, HandlerWrites, 1 # 0, Zenon
  <1>10. timeout' = timeout
    BY <1>7, <1>9, Zenon
  <1> QED
    BY <1>2, <1>4, <1>5, <1>6, <1>9, <1>10, Zenon

\* What every step of the handler leaves as it should be.
Handled ==
  /\ dev' \in TransferState /\ ctl' \in ControllerState /\ timeout' \in BOOLEAN
  /\ ctl'.active = ctl.active /\ ctl'.hung = ctl.hung /\ ctl'.invalid = ctl.invalid
  /\ ~ctl'.active => ctl'.wr = NoWord

\* The end of the first message, if it was that.
LEMMA MessageEnds ==
  ASSUME TypeOK, op \in Ops, NEW k \in Nat, k < Outgoing, Wrote(k),
         dev' = Advanced([dev EXCEPT !.pos = k + 1, !.cnt = Outgoing - k - 1]), op' = op
  PROVE  /\ dev' \in TransferState /\ Wrote(k + 1)'
         /\ dev'.ret = dev.ret /\ dev'.needFlush = dev.needFlush /\ dev'.flushCnt = dev.flushCnt
PROOF
  <1> DEFINE e == [dev EXCEPT !.pos = k + 1, !.cnt = Outgoing - k - 1]
  <1>1. dev.msg = 1 /\ dev.rem = Len(op) /\ dev.pos = k
    BY DEF Wrote
  <1>2. Outgoing \in 0 .. MaxBytes /\ MaxBytes \in Nat /\ Outgoing' = Outgoing
        /\ Incoming' = Incoming
    BY OpShape, BoundsAssumption DEF Outgoing, Incoming
  <1>3. /\ e \in TransferState /\ e.msg = 1 /\ e.rem = Len(op)
        /\ e.pos = k + 1 /\ e.cnt = Outgoing - k - 1
        /\ e.ret = dev.ret /\ e.needFlush = dev.needFlush /\ e.flushCnt = dev.flushCnt
    <2>1. k + 1 \in -1 .. MaxBytes /\ Outgoing - k - 1 \in 0 .. MaxBytes
      BY <1>2
    <2>2. dev \in TransferState
      BY DEF TypeOK
    <2> QED
      BY <1>1, <2>1, <2>2 DEF TransferState
  <1>4. MessageDone(e) <=> k + 1 = Outgoing
    BY <1>2, <1>3 DEF MessageDone
  <1> HIDE DEF e
  <1>5. CASE k + 1 < Outgoing \/ Len(op) = 1
    <2>1. ~(MessageDone(e) /\ e.rem > 1)
      <3>1. CASE k + 1 < Outgoing
        BY <1>2, <1>4, <3>1
      <3>2. CASE Len(op) = 1
        BY <1>3, <3>2
      <3> QED
        BY <1>5, <3>1, <3>2
    <2>a. dev' = e
      BY <2>1, Zenon DEF Advanced, e
    <2> QED
      BY <1>2, <1>3, <1>5, <2>a DEF Wrote
  <1>6. CASE ~(k + 1 < Outgoing) /\ Len(op) = 2
    <2>1. MessageDone(e) /\ e.rem > 1
      BY <1>2, <1>3, <1>4, <1>6
    <2>2. dev' = [e EXCEPT !.rem = @ - 1, !.msg = @ + 1, !.pos = -1, !.cnt = op[e.msg + 1].len]
      BY <2>1, Zenon DEF Advanced, e
    <2>3. dev' = [e EXCEPT !.rem = 1, !.msg = 2, !.pos = -1, !.cnt = Incoming]
      BY <1>3, <1>6, <2>2 DEF Incoming
    <2>4. Incoming \in 0 .. MaxBytes
      BY <1>6, OpShape
    <2>5. dev' \in TransferState
      <3>1. 1 \in 0 .. Len(op) /\ 2 \in 0 .. Len(op) /\ -1 \in -1 .. MaxBytes
        BY <1>2, <1>6
      <3> QED
        BY <1>3, <2>3, <2>4, <3>1 DEF TransferState
    <2>6. /\ dev'.msg = 2 /\ dev'.rem = 1 /\ dev'.pos = -1 /\ dev'.cnt = Incoming
          /\ dev'.ret = dev.ret /\ dev'.needFlush = dev.needFlush /\ dev'.flushCnt = dev.flushCnt
      BY <1>3, <2>3 DEF TransferState
    <2>7. ~(k + 1 < Outgoing' \/ Len(op') = 1)
      BY <1>2, <1>6
    <2> QED
      BY <1>2, <2>5, <2>6, <2>7, Zenon DEF Wrote
  <1> QED
    BY <1>5, <1>6, OpShape

\* While bytes are written, the handler writes the next one, or the address of
\* the message that is read.
LEMMA WritingHandled ==
  ASSUME TypeOK, op \in Ops, irq, Writing, InterruptLocked(dev, ctl),
         irq' = FALSE, op' = op, sent' = sent
  PROVE  Handled /\ (Writing' \/ AddressingRead')
PROOF
  <1>1. PICK k \in 0 .. Outgoing :
           /\ Untroubled /\ ctl.active /\ ctl.mode = "write" /\ sent = Bytes(k)
           /\ ctl.wr = NoWord /\ Wrote(k) /\ (Len(op) = 1 => k < Outgoing)
    BY DEF Writing
  <1>2. Outgoing \in 0 .. MaxBytes /\ MaxBytes \in Nat /\ Outgoing' = Outgoing
        /\ Incoming' = Incoming
    BY OpShape, BoundsAssumption DEF Outgoing, Incoming
  <1>3. k \in Nat /\ k \in 0 .. MaxBytes
    BY <1>2
  <1>4. CASE k < Outgoing
    <2>1. /\ dev' = Advanced([dev EXCEPT !.pos = k + 1, !.cnt = Outgoing - k - 1])
          /\ ctl' = [ctl EXCEPT !.wr = ByteWord(k)]
          /\ got' = got /\ timeout' = timeout
      BY <1>1, <1>3, <1>4, HandlerWritesByte
    <2>2. /\ dev' \in TransferState /\ Wrote(k + 1)'
          /\ dev'.ret = dev.ret /\ dev'.needFlush = dev.needFlush /\ dev'.flushCnt = dev.flushCnt
      BY <1>1, <1>3, <1>4, <2>1, MessageEnds
    <2>3. ByteWord(k) \in Word
      BY <1>3, Words
    <2>4. ctl' \in ControllerState /\ ctl'.wr = ByteWord(k)
      BY <2>1, <2>3 DEF TypeOK, ControllerState
    <2>5. /\ ctl'.active = ctl.active /\ ctl'.hung = ctl.hung /\ ctl'.invalid = ctl.invalid
          /\ ctl'.mode = ctl.mode /\ ctl'.err = ctl.err /\ ctl'.rd = ctl.rd
      BY <2>1 DEF TypeOK, ControllerState
    <2>6. Handled
      BY <1>1, <2>1, <2>2, <2>4, <2>5 DEF Handled, TypeOK
    <2>7. Untroubled'
      BY <1>1, <2>1, <2>2, <2>5 DEF Untroubled
    <2>8. ByteWord(k)' = ByteWord(k) /\ Bytes(k)' = Bytes(k)
      BY <1>2 DEF ByteWord, Bytes
    <2>9. Writing'
      BY <1>1, <1>2, <1>4, <2>2, <2>4, <2>5, <2>7, <2>8, Zenon DEF Writing
    <2> QED
      BY <2>6, <2>9
  <1>5. CASE k = Outgoing
    <2>1. Len(op) = 2
      BY <1>1, <1>2, <1>5, OpShape
    <2>2. dev.msg = 2 /\ dev.rem = 1 /\ dev.pos = -1 /\ dev.cnt = Incoming
          /\ Incoming \in 0 .. MaxBytes
      BY <1>1, <1>2, <1>5, <2>1, OpShape DEF Wrote
    <2>3. /\ dev' = [dev EXCEPT !.pos = 0]
          /\ ctl' = [ctl EXCEPT !.wr = AddressWord(2, Incoming = 0)]
          /\ got' = got /\ timeout' = timeout
      BY <1>1, <2>1, <2>2, HandlerAddressesRead
    <2>4. AddressWord(2, Incoming = 0) \in Word
      BY (Incoming = 0) \in BOOLEAN, Words, Zenon
    <2>5. /\ dev' \in TransferState /\ dev'.msg = 2 /\ dev'.rem = 1 /\ dev'.pos = 0
             /\ dev'.cnt = Incoming - 0
          /\ dev'.ret = dev.ret /\ dev'.needFlush = dev.needFlush /\ dev'.flushCnt = dev.flushCnt
      BY <1>2, <2>2, <2>3 DEF TypeOK, TransferState
    <2>6. ctl' \in ControllerState /\ ctl'.wr = AddressWord(2, Incoming = 0)
      BY <2>3, <2>4 DEF TypeOK, ControllerState
    <2>7. /\ ctl'.active = ctl.active /\ ctl'.hung = ctl.hung /\ ctl'.invalid = ctl.invalid
          /\ ctl'.mode = ctl.mode /\ ctl'.err = ctl.err /\ ctl'.rd = ctl.rd
      BY <2>3 DEF TypeOK, ControllerState
    <2>8. Handled
      BY <1>1, <2>3, <2>5, <2>6, <2>7 DEF Handled, TypeOK
    <2>9. Untroubled'
      BY <1>1, <2>3, <2>5, <2>7 DEF Untroubled
    <2>10. AddressWord(2, Incoming = 0)' = AddressWord(2, Incoming = 0)
           /\ Bytes(Outgoing)' = Bytes(Outgoing)
      BY <1>2 DEF AddressWord, Bytes
    <2>11. AtRead(0)'
      BY <1>2, <2>5 DEF AtRead
    <2>12. AddressingRead'
      BY <1>1, <1>5, <2>1, <2>6, <2>7, <2>9, <2>10, <2>11 DEF AddressingRead
    <2> QED
      BY <2>8, <2>12
  <1> QED
    BY <1>2, <1>3, <1>4, <1>5

\* No byte has come and there is nothing to write: all that the handler may do
\* is to find the transfer complete.
LEMMA HandlerFindsNothing ==
  ASSUME TypeOK, dev.msg # 0, ~ctl.err, ~ctl.rd, FillWord(dev) = NoWord, Filled(dev) = dev,
         dev.rem <= 1, InterruptLocked(dev, ctl)
  PROVE  /\ dev' = dev /\ ctl' = ctl /\ got' = got
         /\ timeout' = (timeout /\ ~(MessageDone(dev) /\ ctl.wr = NoWord /\ ~dev.needFlush))
PROOF
  <1>1. (IF ctl.wr = NoWord THEN FillWord(dev) ELSE NoWord) = NoWord
        /\ (IF ctl.wr = NoWord THEN Filled(dev) ELSE dev) = dev
    BY Zenon
  <1>2. /\ dev' = Advanced(dev) /\ ctl' = Written(ctl, NoWord) /\ got' = got
        /\ timeout' = (timeout /\ ~TransferDone(dev, ctl.wr = NoWord => NoWord # NoWord))
    BY <1>1, Zenon DEF InterruptLocked
  <1>3. Written(ctl, NoWord) = ctl
    BY Zenon DEF Written
  <1>4. Advanced(dev) = dev
    <2>1. ~(dev.rem > 1)
      BY DEF TypeOK, TransferState
    <2> QED
      BY <2>1, Zenon DEF Advanced
  <1>5. TransferDone(dev, ctl.wr = NoWord => NoWord # NoWord)
          <=> MessageDone(dev) /\ ctl.wr = NoWord /\ ~dev.needFlush
    BY Zenon DEF TransferDone
  <1> QED
    BY <1>2, <1>3, <1>4, <1>5, Zenon DEF TypeOK

\* When all bytes are written the handler clears timeout.
LEMMA AllWrittenHandled ==
  ASSUME TypeOK, op \in Ops, irq, AllWritten, InterruptLocked(dev, ctl),
         ~ctl.active => ctl.wr = NoWord, irq' = FALSE, op' = op, sent' = sent
  PROVE  Handled /\ AllWritten'
PROOF
  <1>1. /\ Len(op) = 1 /\ Untroubled /\ Stopped /\ ctl.wr = NoWord /\ sent = Bytes(Outgoing)
        /\ dev.msg = 1 /\ dev.rem = 1 /\ dev.pos = Outgoing /\ dev.cnt = Outgoing - Outgoing
    BY DEF AllWritten, Wrote
  <1>2. Outgoing \in Nat /\ dev.cnt = 0 /\ dev.pos >= 0 /\ ~(dev.pos < 0)
    BY <1>1, OpShape, BoundsAssumption
  <1>3. FillWord(dev) = NoWord
    BY <1>2, Zenon DEF FillWord
  <1>4. Filled(dev) = dev
    BY <1>2, <1>3, Zenon DEF Filled
  <1>5. /\ dev' = dev /\ ctl' = ctl /\ got' = got
        /\ timeout' = (timeout /\ ~(MessageDone(dev) /\ ctl.wr = NoWord /\ ~dev.needFlush))
    BY <1>1, <1>3, <1>4, 1 # 0, 1 <= 1, HandlerFindsNothing DEF Untroubled
  <1>6. timeout' = FALSE
    BY <1>1, <1>2, <1>5 DEF MessageDone, Untroubled
  <1>7. Handled
    BY <1>1, <1>5, <1>6 DEF Handled, TypeOK
  <1>8. Outgoing' = Outgoing
    BY DEF Outgoing
  <1>9. Untroubled' /\ Stopped' /\ Wrote(Outgoing)' /\ Bytes(Outgoing)' = Bytes(Outgoing)
    BY <1>1, <1>5, <1>8 DEF Untroubled, Stopped, Wrote, Bytes
  <1> QED
    BY <1>1, <1>5, <1>6, <1>7, <1>9 DEF AllWritten

\* A refused byte is recorded, once.
LEMMA RefusedHandled ==
  ASSUME TypeOK, irq, Refused, InterruptLocked(dev, ctl),
         ~ctl.active => ctl.wr = NoWord, irq' = FALSE, op' = op
  PROVE  Handled /\ Refused'
PROOF
  <1>1. dev.msg # 0 /\ ctl.err = TRUE /\ Stopped /\ ctl.wr = NoWord /\ ~ctl.rd
    BY Zenon DEF Refused, TypeOK, ControllerState
  <1>2. /\ dev' = [dev EXCEPT !.ret = "error"] /\ timeout' = TRUE
        /\ ctl' = [ctl EXCEPT !.err = FALSE]
    BY <1>1, Zenon DEF InterruptLocked
  <1>3. dev' \in TransferState /\ dev'.ret = "error" /\ dev'.msg = dev.msg
    BY <1>2 DEF TypeOK, TransferState
  <1>4. /\ ctl' \in ControllerState /\ ctl'.err = FALSE /\ ctl'.wr = ctl.wr /\ ctl'.rd = ctl.rd
        /\ ctl'.mode = ctl.mode /\ ctl'.active = ctl.active /\ ctl'.hung = ctl.hung
        /\ ctl'.invalid = ctl.invalid
    BY <1>2 DEF TypeOK, ControllerState
  <1>5. Handled
    BY <1>1, <1>2, <1>3, <1>4 DEF Handled
  <1>6. Refused'
    BY <1>1, <1>3, <1>4 DEF Refused, Stopped
  <1> QED
    BY <1>5, <1>6

\* What the handler knows of a read.
LEMMA ReadState ==
  ASSUME TypeOK, op \in Ops, ReadingBytes
  PROVE  /\ dev.msg = 2 /\ dev.rem = 1 /\ dev.pos \in 0 .. Incoming /\ dev.cnt = Incoming - dev.pos
         /\ Incoming \in 0 .. MaxBytes /\ dev.cnt \in 0 .. MaxBytes
         /\ dev.flushCnt \in 0 .. MaxBytes /\ ctl.rx \in 0 .. MaxBytes
         /\ MaxBytes \in Nat
         /\ Reading(dev) = TRUE /\ (Expecting(dev) <=> dev.cnt > 0)
         /\ FillWord(dev) = NoWord /\ Filled(dev) = dev
PROOF
  <1>1. /\ dev.msg = 2 /\ dev.rem = 1 /\ dev.pos \in 0 .. Incoming /\ dev.cnt = Incoming - dev.pos
        /\ Len(op) = 2
    BY DEF ReadingBytes, AtRead
  <1>2. Incoming \in 0 .. MaxBytes /\ op[2].rd = TRUE /\ MaxBytes \in Nat
    BY <1>1, OpShape, BoundsAssumption
  <1>3. /\ dev.cnt \in 0 .. MaxBytes /\ dev.flushCnt \in 0 .. MaxBytes /\ ctl.rx \in 0 .. MaxBytes
    BY DEF TypeOK, TransferState, ControllerState
  <1>4. Reading(dev) = TRUE
    BY <1>1, <1>2, Zenon DEF Reading
  <1>5. dev.pos >= 0 /\ ~(dev.pos < 0)
    BY <1>1, <1>2
  <1>6. Expecting(dev) <=> dev.cnt > 0
    BY <1>4, <1>5, Zenon DEF Expecting
  <1>7. FillWord(dev) = NoWord
    BY <1>4, <1>5, Zenon DEF FillWord
  <1>8. Filled(dev) = dev
    BY <1>5, <1>7, Zenon DEF Filled
  <1> QED
    BY <1>1, <1>2, <1>3, <1>4, <1>6, <1>7, <1>8

\* The read buffer is emptied, and a stop request may be written.
LEMMA StopWritten ==
  ASSUME NEW c \in ControllerState, NEW stop \in BOOLEAN, stop => c.wr = NoWord
  PROVE  [Written(Written(c, NoWord), IF stop THEN StopWord ELSE NoWord) EXCEPT !.rd = FALSE]
           = [c EXCEPT !.rd = FALSE, !.wr = IF stop /\ c.active THEN StopWord ELSE @]
PROOF
  <1>1. Written(c, NoWord) = c
    BY Zenon DEF Written
  <1>2. CASE ~stop
    BY <1>1, <1>2 DEF ControllerState
  <1>3. CASE stop /\ ~c.active
    <2>1. Written(c, StopWord) = c
      BY <1>3, Zenon DEF Written
    <2> QED
      BY <1>1, <1>3, <2>1 DEF ControllerState
  <1>4. CASE stop /\ c.active
    <2>1. StopWord # NoWord /\ StopWord.kind # "addr"
      BY DEF StopWord, NoWord
    <2>2. Written(c, StopWord) = [c EXCEPT !.wr = StopWord, !.invalid = @ \/ c.wr # NoWord,
                                           !.active = @ \/ StopWord.kind = "addr"]
      BY <1>4, <2>1, Zenon DEF Written
    <2>3. (c.invalid \/ c.wr # NoWord) = c.invalid
      BY <1>4 DEF ControllerState
    <2>4. (c.active \/ StopWord.kind = "addr") = c.active
      BY <2>1 DEF ControllerState
    <2>5. Written(c, StopWord) = [c EXCEPT !.wr = StopWord]
      BY <2>2, <2>3, <2>4 DEF ControllerState
    <2> QED
      BY <1>1, <1>4, <2>5 DEF ControllerState
  <1> QED
    BY <1>2, <1>3, <1>4

\* The controller after a byte was taken from it.
LEMMA ByteTaken ==
  ASSUME TypeOK, op \in Ops, ReadingBytes, ctl.rd, InterruptLocked(dev, ctl)
  PROVE  /\ RequestsStop(dev) => ctl.wr = NoWord
         /\ dev' = Advanced(Drained(dev))
         /\ got' = IF dev.cnt > 0 THEN Append(got, ctl.rx) ELSE got
         /\ timeout' = (timeout /\ ~TransferDone(Drained(dev), ctl.wr = NoWord => NoWord # NoWord))
         /\ ctl' \in ControllerState /\ ctl'.rd = FALSE
         /\ ctl'.wr = IF RequestsStop(dev) /\ ctl.active THEN StopWord ELSE ctl.wr
         /\ ctl'.active = ctl.active /\ ctl'.mode = ctl.mode /\ ctl'.rx = ctl.rx
         /\ ctl'.late = ctl.late /\ ctl'.err = ctl.err /\ ctl'.hung = ctl.hung
         /\ ctl'.invalid = ctl.invalid
PROOF
  <1>1. RequestsStop(dev) => ctl.wr = NoWord
    <2>1. CASE ctl.mode = "read"
      BY <2>1 DEF ReadingBytes, StopRequested
    <2>2. CASE ctl.mode # "read"
      BY <2>2 DEF ReadingBytes, ReadStopped
    <2> QED
      BY <2>1, <2>2
  <1>2. /\ dev.msg # 0 /\ ~ctl.err /\ FillWord(dev) = NoWord /\ Filled(dev) = dev
        /\ Expecting(dev) <=> dev.cnt > 0
    BY ReadState, 2 # 0 DEF ReadingBytes
  <1>3. /\ dev' = Advanced(Drained(dev))
        /\ ctl' = [Written(Written(ctl, NoWord), IF RequestsStop(dev) THEN StopWord ELSE NoWord)
                     EXCEPT !.rd = FALSE]
        /\ got' = IF Expecting(dev) THEN Append(got, ctl.rx) ELSE got
        /\ timeout' = (timeout /\ ~TransferDone(Drained(dev), ctl.wr = NoWord => NoWord # NoWord))
    BY <1>2, HandlerReads
  <1>4. RequestsStop(dev) \in BOOLEAN
    BY Zenon DEF RequestsStop
  <1> DEFINE word == IF RequestsStop(dev) /\ ctl.active THEN StopWord ELSE ctl.wr
  <1>5. ctl' = [ctl EXCEPT !.rd = FALSE, !.wr = word]
    BY <1>1, <1>3, <1>4, StopWritten, Zenon DEF TypeOK
  <1>6. word \in Word
    BY Words DEF TypeOK, ControllerState
  <1> HIDE DEF word
  <1>7. /\ ctl' \in ControllerState /\ ctl'.rd = FALSE /\ ctl'.wr = word
        /\ ctl'.active = ctl.active /\ ctl'.mode = ctl.mode /\ ctl'.rx = ctl.rx
        /\ ctl'.late = ctl.late /\ ctl'.err = ctl.err /\ ctl'.hung = ctl.hung
        /\ ctl'.invalid = ctl.invalid
    BY <1>5, <1>6 DEF TypeOK, ControllerState
  <1> QED
    BY <1>1, <1>2, <1>3, <1>7 DEF word

\* An expected byte goes into the buffer.
LEMMA ByteStored ==
  ASSUME TypeOK, op \in Ops, ReadingBytes, ctl.rd, dev.cnt > 0, InterruptLocked(dev, ctl),
         ~ctl.active => ctl.wr = NoWord, irq' = FALSE, op' = op, sent' = sent
  PROVE  Handled /\ ReadingBytes'
PROOF
  <1>1. /\ dev.msg = 2 /\ dev.rem = 1 /\ dev.pos \in 0 .. Incoming /\ dev.cnt = Incoming - dev.pos
        /\ Incoming \in 0 .. MaxBytes /\ dev.cnt \in 0 .. MaxBytes /\ MaxBytes \in Nat
        /\ Reading(dev) = TRUE /\ Expecting(dev)
    BY ReadState
  <1>2. dev.flushCnt = 0 /\ dev.needFlush = FALSE /\ ctl.rx = dev.pos + 1
        /\ got = [i \in 1 .. dev.pos |-> i]
    BY DEF ReadingBytes, BytesStored, Pending, TypeOK, TransferState
  <1>3. /\ dev' = Drained(dev)
        /\ dev' = [dev EXCEPT !.cnt = dev.cnt - 1, !.pos = dev.pos + 1,
                              !.needFlush = dev.cnt = 1 /\ dev.pos = 0]
    <2>1. (dev.needFlush \/ (dev.cnt = 1 /\ dev.pos = 0)) = (dev.cnt = 1 /\ dev.pos = 0)
      BY <1>2
    <2>2. Drained(dev) = [dev EXCEPT !.cnt = @ - 1, !.pos = @ + 1,
                                     !.needFlush = @ \/ (dev.cnt = 1 /\ dev.pos = 0)]
      BY <1>1, Zenon DEF Drained
    <2>3. Drained(dev) = [dev EXCEPT !.cnt = dev.cnt - 1, !.pos = dev.pos + 1,
                                     !.needFlush = dev.cnt = 1 /\ dev.pos = 0]
      BY <2>1, <2>2
    <2>4. Drained(dev).rem = 1
      BY <1>1, <2>3 DEF TypeOK, TransferState
    <2>5. Advanced(Drained(dev)) = Drained(dev)
      BY <2>4 DEF Advanced
    <2> QED
      BY <2>3, <2>5, ByteTaken
  <1>4. /\ dev' \in TransferState /\ dev'.msg = 2 /\ dev'.rem = 1
        /\ dev'.cnt = dev.cnt - 1 /\ dev'.pos = dev.pos + 1
        /\ dev'.needFlush = (dev.cnt = 1 /\ dev.pos = 0) /\ dev'.flushCnt = 0 /\ dev'.ret = dev.ret
    <2>1. dev.cnt - 1 \in 0 .. MaxBytes /\ dev.pos + 1 \in -1 .. MaxBytes
      BY <1>1
    <2>2. dev \in TransferState
      BY DEF TypeOK
    <2> QED
      BY <1>1, <1>2, <1>3, <2>1, <2>2 DEF TransferState
  <1>5. /\ RequestsStop(dev) => ctl.wr = NoWord
        /\ got' = Append(got, ctl.rx)
        /\ timeout' = (timeout /\ ~TransferDone(Drained(dev), ctl.wr = NoWord => NoWord # NoWord))
        /\ ctl' \in ControllerState /\ ctl'.rd = FALSE
        /\ ctl'.wr = IF RequestsStop(dev) /\ ctl.active THEN StopWord ELSE ctl.wr
        /\ ctl'.active = ctl.active /\ ctl'.mode = ctl.mode /\ ctl'.rx = ctl.rx
        /\ ctl'.late = ctl.late /\ ctl'.err = ctl.err /\ ctl'.hung = ctl.hung
        /\ ctl'.invalid = ctl.invalid
    BY ByteTaken
  <1>6. RequestsStop(dev) <=> dev.cnt = 2 \/ (dev.cnt = 1 /\ dev.pos = 0)
    BY <1>1, Zenon DEF RequestsStop
  <1>7. Handled
    BY <1>4, <1>5 DEF Handled, TypeOK
  <1>8. Incoming' = Incoming /\ Outgoing' = Outgoing /\ Bytes(Outgoing)' = Bytes(Outgoing)
    BY DEF Incoming, Outgoing, Bytes
  <1>9. \E p \in 0 .. Incoming' : AtRead(p)'
    <2>1. dev.pos + 1 \in 0 .. Incoming' /\ dev'.cnt = Incoming' - (dev.pos + 1)
      BY <1>1, <1>4, <1>8
    <2> QED
      BY <1>4, <2>1 DEF AtRead
  <1>10. got' = [i \in 1 .. dev'.pos |-> i]
    BY <1>1, <1>2, <1>4, <1>5, OneMoreRead
  <1>11. BytesStored'
    <2>1. dev'.cnt > 0 => ctl'.rx = dev'.pos /\ dev'.needFlush = FALSE
      <3>1. ASSUME dev'.cnt > 0 PROVE (dev.cnt = 1 /\ dev.pos = 0) = FALSE
        BY <1>1, <1>4, <3>1
      <3> QED
        BY <1>2, <1>4, <1>5, <3>1
    <2>2. Pending' = 0
      BY <1>5 DEF Pending
    <2>3. ctl'.rx = dev.pos + 1 /\ dev'.pos = dev.pos + 1 /\ dev'.flushCnt = 0
      BY <1>2, <1>4, <1>5
    <2> QED
      BY <1>1, <1>5, <1>10, <2>1, <2>2, <2>3 DEF BytesStored
  <1>12. ~RequestsStop(dev)' \/ dev'.cnt > 1
    <2>1. CASE dev'.cnt = 0
      <3>1. ~Expecting(dev)'
        BY <2>1 DEF Expecting
      <3> QED
        BY <1>4, <3>1 DEF RequestsStop
    <2>2. CASE dev'.cnt = 1
      BY <1>1, <1>4, <2>2 DEF RequestsStop
    <2> QED
      BY <1>1, <1>4, <2>1, <2>2
  <1>13. ASSUME ctl'.mode = "read", ctl'.wr = StopWord PROVE StopRequested'
    <2>1. StopWord # NoWord
      BY DEF StopWord, NoWord
    <2>2. CASE RequestsStop(dev)
      <3>1. LastIsNext' /\ dev'.cnt <= 1
        BY <1>1, <1>4, <1>6, <2>2 DEF LastIsNext
      <3>2. ~RequestsStop(dev)'
        BY <1>1, <1>4, <1>12, <3>1
      <3> QED
        BY <1>5, <3>1, <3>2 DEF StopRequested
    <2>3. CASE ~RequestsStop(dev)
      <3>1. ctl.wr = StopWord /\ ctl.mode = "read"
        BY <1>5, <1>13, <2>3
      <3>2. LastIsNext /\ ctl.late
        BY <3>1 DEF ReadingBytes, StopRequested
      <3>3. LastIsNext'
        BY <1>1, <1>4, <3>2 DEF LastIsNext
      <3> QED
        BY <1>5, <3>2, <3>3 DEF StopRequested
    <2> QED
      BY <2>2, <2>3
  <1>14. ASSUME ctl'.mode # "read" PROVE ReadStopped'
    <2>1. ReadStopped
      BY <1>5, <1>14 DEF ReadingBytes
    <2>2. ctl.wr = NoWord /\ LastIsNext /\ (ctl.mode = "off" <=> ~ctl.active)
      BY <1>1, <2>1 DEF ReadStopped
    <2>a. dev.cnt = 1 /\ dev.pos > 0
      BY <1>1, <2>2 DEF LastIsNext
    <2>b. (dev.cnt = 1 /\ dev.pos = 0) = FALSE
      BY <1>1, <2>a
    <2>c. dev'.needFlush = FALSE
      BY <1>4, <2>b, Zenon
    <2>d. dev'.cnt = 0
      BY <1>1, <1>4, <2>a
    <2>3. dev'.cnt = 0 /\ dev'.needFlush = FALSE
      BY <2>c, <2>d
    <2>4. TransferDone(dev', ctl.wr = NoWord => NoWord # NoWord)
      BY <1>1, <1>4, <2>2, <2>3 DEF TransferDone, MessageDone
    <2> QED
      BY <1>3, <1>5, <2>2, <2>3, <2>4 DEF ReadStopped
  <1>15. ctl'.wr \in {NoWord, StopWord} /\ ctl'.mode \in {"read", "end", "off"}
         /\ (ctl'.mode = "read" => ctl'.active) /\ ~ctl'.err /\ dev'.ret = "num"
         /\ Len(op) = 2 /\ sent = Bytes(Outgoing)
    BY <1>4, <1>5 DEF ReadingBytes
  <1>16. ReadingBytes'
    BY <1>8, <1>9, <1>11, <1>13, <1>14, <1>15 DEF ReadingBytes
  <1> QED
    BY <1>7, <1>16

\* A byte that nobody asked for is flushed.
LEMMA ByteFlushed ==
  ASSUME TypeOK, op \in Ops, ReadingBytes, ctl.rd, dev.cnt = 0, InterruptLocked(dev, ctl),
         ~ctl.active => ctl.wr = NoWord, irq' = FALSE, op' = op, sent' = sent
  PROVE  Handled /\ ReadingBytes'
PROOF
  <1> DEFINE count == IF dev.needFlush THEN dev.flushCnt ELSE dev.flushCnt + 1
  <1>1. /\ dev.msg = 2 /\ dev.rem = 1 /\ dev.pos \in 0 .. Incoming /\ dev.cnt = Incoming - dev.pos
        /\ Incoming \in 0 .. MaxBytes /\ MaxBytes \in Nat
        /\ dev.flushCnt \in 0 .. MaxBytes /\ ctl.rx \in 0 .. MaxBytes
        /\ ~Expecting(dev)
    BY ReadState
  <1>2. /\ got = [i \in 1 .. dev.pos |-> i]
        /\ dev.needFlush => dev.flushCnt = 0
        /\ dev.flushCnt + 1 <= ctl.rx
    BY DEF ReadingBytes, BytesStored, Pending
  <1>3. count \in 0 .. MaxBytes /\ count <= ctl.rx
    BY <1>1, <1>2
  <1>4. /\ dev' = Drained(dev)
        /\ dev' = [dev EXCEPT !.needFlush = FALSE, !.flushCnt = count]
    <2>1. Drained(dev) = [dev EXCEPT !.needFlush = FALSE, !.flushCnt = count]
      BY <1>1 DEF Drained
    <2>2. Drained(dev).rem = 1
      BY <1>1, <2>1 DEF TypeOK, TransferState
    <2>3. Advanced(Drained(dev)) = Drained(dev)
      BY <2>2 DEF Advanced
    <2> QED
      BY <2>1, <2>3, ByteTaken
  <1> HIDE DEF count
  <1>5. /\ dev' \in TransferState /\ dev'.msg = 2 /\ dev'.rem = 1
        /\ dev'.cnt = dev.cnt /\ dev'.pos = dev.pos /\ dev'.ret = dev.ret
        /\ dev'.needFlush = FALSE /\ dev'.flushCnt = count
    BY <1>1, <1>3, <1>4 DEF TypeOK, TransferState
  <1>6. /\ RequestsStop(dev) => ctl.wr = NoWord
        /\ got' = got
        /\ timeout' = (timeout /\ ~TransferDone(Drained(dev), ctl.wr = NoWord => NoWord # NoWord))
        /\ ctl' \in ControllerState /\ ctl'.rd = FALSE
        /\ ctl'.wr = IF RequestsStop(dev) /\ ctl.active THEN StopWord ELSE ctl.wr
        /\ ctl'.active = ctl.active /\ ctl'.mode = ctl.mode /\ ctl'.rx = ctl.rx
        /\ ctl'.late = ctl.late /\ ctl'.err = ctl.err /\ ctl'.hung = ctl.hung
        /\ ctl'.invalid = ctl.invalid
    BY ByteTaken, ~(0 > 0)
  <1>7. RequestsStop(dev) <=> dev.flushCnt % 2 = 1
    BY <1>1, Zenon DEF RequestsStop
  <1>8. Handled
    BY <1>5, <1>6 DEF Handled, TypeOK
  <1>9. Incoming' = Incoming /\ Outgoing' = Outgoing /\ Bytes(Outgoing)' = Bytes(Outgoing)
    BY DEF Incoming, Outgoing, Bytes
  <1>10. \E p \in 0 .. Incoming' : AtRead(p)'
    BY <1>1, <1>5, <1>9 DEF AtRead
  <1>11. BytesStored'
    <2>1. Pending' = 0
      BY <1>6 DEF Pending
    <2> QED
      BY <1>1, <1>2, <1>3, <1>5, <1>6, <2>1 DEF BytesStored
  <1>12. RequestsStop(dev) => ~RequestsStop(dev)'
    <2>1. ASSUME dev.flushCnt % 2 = 1 PROVE count % 2 # 1
      <3>1. dev.flushCnt # 0
        BY <2>1
      <3>2. count = dev.flushCnt + 1
        BY <1>2, <3>1 DEF count
      <3> QED
        BY <1>1, <2>1, <3>2
    <2>2. RequestsStop(dev)' <=> count % 2 = 1
      <3>1. ~Expecting(dev)'
        BY <1>5 DEF Expecting
      <3>2. RequestsStop(dev)' <=> dev'.flushCnt % 2 = 1
        BY <3>1, Zenon DEF RequestsStop
      <3> QED
        BY <1>5, <3>2
    <2> QED
      BY <1>7, <2>1, <2>2
  <1>13. LastIsNext'
    BY <1>5 DEF LastIsNext
  <1>14. ASSUME ctl'.mode = "read", ctl'.wr = StopWord PROVE StopRequested'
    <2>1. CASE RequestsStop(dev)
      BY <1>6, <1>12, <1>13, <2>1 DEF StopRequested
    <2>2. CASE ~RequestsStop(dev)
      <3>1. ctl.wr = StopWord /\ ctl.mode = "read"
        BY <1>6, <1>14, <2>2
      <3>2. ctl.late
        BY <3>1 DEF ReadingBytes, StopRequested
      <3> QED
        BY <1>6, <1>13, <3>2 DEF StopRequested
    <2> QED
      BY <2>1, <2>2
  <1>15. ASSUME ctl'.mode # "read" PROVE ReadStopped'
    <2>1. ReadStopped
      BY <1>6, <1>15 DEF ReadingBytes
    <2>2. ctl.wr = NoWord /\ (ctl.mode = "off" <=> ~ctl.active)
      BY <2>1 DEF ReadStopped
    <2>3. TransferDone(dev', ctl.wr = NoWord => NoWord # NoWord)
      BY <1>1, <1>5, <2>2 DEF TransferDone, MessageDone
    <2> QED
      BY <1>4, <1>5, <1>6, <2>2, <2>3 DEF ReadStopped
  <1>16. ctl'.wr \in {NoWord, StopWord} /\ ctl'.mode \in {"read", "end", "off"}
         /\ (ctl'.mode = "read" => ctl'.active) /\ ~ctl'.err /\ dev'.ret = "num"
         /\ Len(op) = 2 /\ sent = Bytes(Outgoing)
    BY <1>5, <1>6 DEF ReadingBytes
  <1>17. ReadingBytes'
    BY <1>9, <1>10, <1>11, <1>14, <1>15, <1>16 DEF ReadingBytes
  <1> QED
    BY <1>8, <1>17

\* While bytes are read: every interrupt of the handler.
LEMMA ReadingHandled ==
  ASSUME TypeOK, op \in Ops, irq, ReadingBytes, InterruptLocked(dev, ctl),
         ~ctl.active => ctl.wr = NoWord, irq' = FALSE, op' = op, sent' = sent
  PROVE  Handled /\ ReadingBytes'
PROOF
  <1>1. /\ dev.msg = 2 /\ dev.rem = 1 /\ dev.cnt \in 0 .. MaxBytes /\ MaxBytes \in Nat
        /\ dev.pos \in 0 .. Incoming
        /\ Incoming \in 0 .. MaxBytes /\ FillWord(dev) = NoWord /\ Filled(dev) = dev
    BY ReadState
  <1>2. CASE ctl.rd /\ dev.cnt > 0
    BY <1>2, ByteStored
  <1>3. CASE ctl.rd /\ dev.cnt = 0
    BY <1>3, ByteFlushed
  <1>4. CASE ~ctl.rd
    <2>1. /\ dev' = dev /\ ctl' = ctl /\ got' = got
          /\ timeout' = (timeout /\ ~(MessageDone(dev) /\ ctl.wr = NoWord /\ ~dev.needFlush))
      BY <1>1, <1>4, 2 # 0, 1 <= 1, HandlerFindsNothing DEF ReadingBytes
    <2>2. Handled
      BY <2>1 DEF Handled, TypeOK
    <2>3. Incoming' = Incoming /\ Outgoing' = Outgoing /\ Bytes(Outgoing)' = Bytes(Outgoing)
      BY DEF Incoming, Outgoing, Bytes
    <2>4. \E p \in 0 .. Incoming' : AtRead(p)'
      BY <2>1, <2>3 DEF ReadingBytes, AtRead
    <2>5. BytesStored'
      BY <1>4, <2>1 DEF ReadingBytes, BytesStored, Pending
    <2>6. ctl.mode = "read" /\ ctl.wr = StopWord => StopRequested'
      <3>1. RequestsStop(dev)' = RequestsStop(dev)
        BY <2>1 DEF RequestsStop, Expecting, Reading
      <3> QED
        BY <2>1, <3>1 DEF ReadingBytes, StopRequested, LastIsNext
    <2>7. ASSUME ctl.mode # "read" PROVE ReadStopped'
      <3>1. ReadStopped
        BY <2>7 DEF ReadingBytes
      <3>2. dev.cnt = 0 /\ ~dev.needFlush
        BY <1>4, <3>1 DEF ReadStopped
      <3>3. MessageDone(dev)
        BY <1>1, <3>2 DEF MessageDone
      <3>4. ~timeout'
        BY <2>1, <3>1, <3>2, <3>3 DEF ReadStopped
      <3> QED
        BY <1>4, <2>1, <3>1, <3>2, <3>4 DEF ReadStopped
    <2>8. ReadingBytes'
      BY <2>1, <2>3, <2>4, <2>5, <2>6, <2>7 DEF ReadingBytes
    <2> QED
      BY <2>2, <2>8
  <1> QED
    BY <1>1, <1>2, <1>3, <1>4

\* Whatever the phase, the handler carries the transfer on.
LEMMA HandlerKeepsTransfer ==
  ASSUME TypeOK, op \in Ops, InTransfer, I2CInterruptHandler
  PROVE  Handled /\ InTransfer'
PROOF
  <1>1. /\ irq /\ irqEnabled /\ irq' = FALSE /\ InterruptLocked(dev, ctl)
        /\ op' = op /\ sent' = sent /\ fault' = fault /\ irqEnabled' = irqEnabled
    BY DEF I2CInterruptHandler, foreground
  <1>2. ~ctl.active => ctl.wr = NoWord
    BY DEF InTransfer
  <1>3. CASE Moving
    <2>1. Handled /\ Moving'
      BY <1>1, <1>2, <1>3, WritingHandled, ReadingHandled, AllWrittenHandled
         DEF Moving, Addressing, AddressingRead
    <2>2. fault # "nack" \/ Refused
      BY DEF InTransfer
    <2>3. ~Refused
      BY <1>1, <1>3 DEF Refused, Moving, Addressing, AddressingRead, Writing, ReadingBytes,
                        AllWritten, Untroubled
    <2> QED
      BY <1>1, <2>1, <2>2, <2>3 DEF InTransfer, Handled
  <1>4. CASE Refused
    <2>1. Handled /\ Refused'
      BY <1>1, <1>2, <1>4, RefusedHandled
    <2>2. ~Moving
      BY <1>1, <1>4 DEF Refused, Moving, Addressing, AddressingRead, Writing, ReadingBytes,
                        AllWritten, Untroubled
    <2> QED
      BY <1>1, <2>1, <2>2 DEF InTransfer, Handled
  <1> QED
    BY <1>3, <1>4 DEF InTransfer

-----------------------------------------------------------------------------
(* The controller.                                                          *)

\* The address of the first message is taken.
LEMMA FirstAddressTaken ==
  ASSUME TypeOK, op \in Ops, Addressing, op' = op, dev' = dev, got' = got, sent' = sent,
         irq' = TRUE,
         timeout' = timeout,
         ctl' = [ctl EXCEPT !.wr = NoWord, !.rx = 0, !.late = FALSE, !.missed = 0,
                   !.mode = IF ctl.wr.last THEN "end"
                            ELSE IF op[ctl.wr.msg].rd THEN "read" ELSE "write"]
  PROVE  Writing' \/ AllWritten'
PROOF
  <1>1. /\ Untroubled /\ ctl.active /\ sent = << >> /\ Wrote(0)
        /\ ctl.wr.last = (Len(op) = 1 /\ Outgoing = 0) /\ ctl.wr.msg = 1
    BY DEF Addressing, AddressWord
  <1>2. Outgoing \in Nat /\ Outgoing' = Outgoing /\ Incoming' = Incoming /\ op[1].rd = FALSE
    <2>1. Outgoing \in 0 .. MaxBytes /\ op[1].rd = FALSE
      BY OpShape, Zenon
    <2> QED
      BY <2>1, BoundsAssumption DEF Outgoing, Incoming
  <1>3. /\ ctl'.wr = NoWord /\ ctl'.active = ctl.active /\ ctl'.err = ctl.err /\ ctl'.rd = ctl.rd
        /\ ctl'.mode = IF Len(op) = 1 /\ Outgoing = 0 THEN "end" ELSE "write"
    BY <1>1, <1>2 DEF TypeOK, ControllerState
  <1>4. Untroubled' /\ Wrote(0)'
    BY <1>1, <1>2, <1>3 DEF Untroubled, Wrote
  <1>5. sent' = Bytes(0)'
    BY <1>1 DEF Bytes
  <1>6. CASE Len(op) = 1 /\ Outgoing = 0
    <2>1. Stopped'
      BY <1>1, <1>3, <1>6 DEF Stopped
    <2> QED
      BY <1>2, <1>3, <1>4, <1>5, <1>6, <2>1 DEF AllWritten
  <1>7. CASE ~(Len(op) = 1 /\ Outgoing = 0)
    <2>1. 0 \in 0 .. Outgoing' /\ (Len(op') = 1 => 0 < Outgoing')
      BY <1>2, <1>7
    <2>2. ctl'.mode = "write" /\ ctl'.active
      BY <1>1, <1>3, <1>7
    <2> QED
      BY <1>3, <1>4, <1>5, <2>1, <2>2, Zenon DEF Writing
  <1> QED
    BY <1>6, <1>7

\* A byte is taken, and the device has it.
LEMMA ByteSent ==
  ASSUME TypeOK, op \in Ops, Writing, ctl.wr.kind = "byte",
         op' = op, dev' = dev, got' = got, irq' = TRUE, timeout' = timeout,
         sent' = Append(sent, <<ctl.wr.msg, ctl.wr.pos>>),
         ctl' = [ctl EXCEPT !.wr = NoWord, !.mode = IF ctl.wr.last THEN "end" ELSE "write"]
  PROVE  Writing' \/ AllWritten'
PROOF
  <1>1. PICK k \in 0 .. Outgoing :
          /\ Untroubled /\ ctl.active /\ ctl.mode = "write" /\ sent = Bytes(k)
          /\ k < Outgoing /\ ctl.wr = ByteWord(k) /\ Wrote(k + 1)
    BY DEF Writing, NoWord
  <1>2. Outgoing \in Nat /\ Outgoing' = Outgoing /\ Incoming' = Incoming
    BY OpShape DEF Outgoing, Incoming
  <1>3. k \in Nat
    BY <1>2
  <1>4. ctl.wr.last = (Outgoing - k = 1 /\ Len(op) = 1) /\ ctl.wr.msg = 1 /\ ctl.wr.pos = k
    BY <1>1 DEF ByteWord
  <1>5. /\ ctl'.wr = NoWord /\ ctl'.active = ctl.active /\ ctl'.err = ctl.err /\ ctl'.rd = ctl.rd
        /\ ctl'.mode = IF Outgoing - k = 1 /\ Len(op) = 1 THEN "end" ELSE "write"
    BY <1>4 DEF TypeOK, ControllerState
  <1>6. Untroubled' /\ Wrote(k + 1)'
    BY <1>1, <1>2, <1>5 DEF Untroubled, Wrote
  <1>7. sent' = Bytes(k + 1)'
    <2>1. sent' = Bytes(k + 1)
      BY <1>1, <1>3, <1>4, OneMoreByte
    <2> QED
      BY <2>1 DEF Bytes
  <1>8. CASE Outgoing - k = 1 /\ Len(op) = 1
    <2>1. k + 1 = Outgoing'
      BY <1>2, <1>3, <1>8
    <2>2. Stopped'
      BY <1>1, <1>5, <1>8 DEF Stopped
    <2>3. Wrote(Outgoing)' /\ sent' = Bytes(Outgoing)'
      BY <1>2, <1>6, <1>7, <2>1
    <2> QED
      BY <1>5, <1>6, <1>8, <2>2, <2>3 DEF AllWritten
  <1>9. CASE ~(Outgoing - k = 1 /\ Len(op) = 1)
    <2>1. k + 1 \in 0 .. Outgoing' /\ (Len(op') = 1 => k + 1 < Outgoing')
      BY <1>1, <1>2, <1>3, <1>9
    <2>2. ctl'.mode = "write" /\ ctl'.active
      BY <1>1, <1>5, <1>9
    <2> QED
      BY <1>5, <1>6, <1>7, <2>1, <2>2, Zenon DEF Writing
  <1> QED
    BY <1>8, <1>9

\* The address of the read is taken.
LEMMA ReadAddressTaken ==
  ASSUME TypeOK, op \in Ops, AddressingRead, op' = op, dev' = dev, got' = got, sent' = sent,
         irq' = TRUE, timeout' = timeout,
         ctl' = [ctl EXCEPT !.wr = NoWord, !.rx = 0, !.late = FALSE, !.missed = 0,
                   !.mode = IF ctl.wr.last THEN "end"
                            ELSE IF op[ctl.wr.msg].rd THEN "read" ELSE "write"]
  PROVE  ReadingBytes'
PROOF
  <1>1. /\ Len(op) = 2 /\ Untroubled /\ ctl.active /\ sent = Bytes(Outgoing)
        /\ ctl.wr.last = (Incoming = 0) /\ ctl.wr.msg = 2
        /\ dev.msg = 2 /\ dev.rem = 1 /\ dev.pos = 0 /\ dev.cnt = Incoming - 0
    BY DEF AddressingRead, AddressWord, AtRead
  <1>2. Incoming \in Nat /\ Outgoing' = Outgoing /\ Incoming' = Incoming /\ op[2].rd = TRUE
    <2>1. Incoming \in 0 .. MaxBytes /\ op[2].rd = TRUE
      BY <1>1, OpShape, Zenon
    <2> QED
      BY <2>1, BoundsAssumption DEF Outgoing, Incoming
  <1>3. /\ ctl'.wr = NoWord /\ ctl'.active = ctl.active /\ ctl'.err = ctl.err /\ ctl'.rd = ctl.rd
        /\ ctl'.rx = 0 /\ ctl'.mode = IF Incoming = 0 THEN "end" ELSE "read"
    BY <1>1, <1>2 DEF TypeOK, ControllerState
  <1>4. dev.cnt = Incoming /\ ~dev.needFlush /\ dev.flushCnt = 0 /\ dev.ret = "num"
        /\ ~ctl.err /\ ~ctl.rd /\ got = << >>
    BY <1>1, <1>2 DEF Untroubled
  <1>5. BytesStored'
    <2>1. Pending' = 0
      BY <1>3, <1>4 DEF Pending
    <2>2. got' = [i \in 1 .. dev'.pos |-> i]
      BY <1>1, <1>4
    <2> QED
      BY <1>1, <1>3, <1>4, <2>1, <2>2 DEF BytesStored
  <1>6. ctl'.mode # "read" => ReadStopped'
    BY <1>1, <1>2, <1>3, <1>4 DEF ReadStopped
  <1>7. \E p \in 0 .. Incoming' : AtRead(p)'
    <2>1. 0 \in 0 .. Incoming'
      BY <1>2
    <2>2. AtRead(0)'
      BY <1>1, <1>2 DEF AtRead
    <2> QED
      BY <2>1, <2>2
  <1>8. Bytes(Outgoing)' = Bytes(Outgoing)
    BY <1>2 DEF Bytes
  <1>9. StopWord # NoWord
    BY DEF StopWord, NoWord
  <1> QED
    BY <1>1, <1>3, <1>4, <1>5, <1>6, <1>7, <1>8, <1>9 DEF ReadingBytes


\* The words that may wait in each phase.
LEMMA PhaseWords ==
  /\ NoWord.kind = "none" /\ StopWord.kind = "stop"
  /\ Addressing \/ AddressingRead => ctl.wr.kind = "addr"
  /\ Writing => ctl.mode = "write" /\ (ctl.wr = NoWord \/ ctl.wr.kind = "byte")
  /\ ReadingBytes => ctl.wr \in {NoWord, StopWord}
  /\ AllWritten => ctl.wr = NoWord
PROOF
  <1>1. NoWord.kind = "none" /\ StopWord.kind = "stop"
    BY DEF NoWord, StopWord
  <1>2. Addressing \/ AddressingRead => ctl.wr.kind = "addr"
    BY DEF Addressing, AddressingRead, AddressWord
  <1>3. Writing => ctl.mode = "write" /\ (ctl.wr = NoWord \/ ctl.wr.kind = "byte")
    BY DEF Writing, ByteWord
  <1>4. ReadingBytes => ctl.wr \in {NoWord, StopWord}
    BY DEF ReadingBytes
  <1>5. AllWritten => ctl.wr = NoWord
    BY DEF AllWritten
  <1> QED
    BY <1>1, <1>2, <1>3, <1>4, <1>5

\* A request that comes after the end has no effect.
LEMMA RequestDropped ==
  ASSUME TypeOK, op \in Ops, Moving, ctl.wr # NoWord,
         (ctl.wr.kind = "stop" /\ ctl.mode # "read")
           \/ (ctl.wr.kind = "byte" /\ ctl.mode # "write"),
         op' = op, dev' = dev, got' = got, sent' = sent, irq' = irq, timeout' = timeout,
         ctl' = [ctl EXCEPT !.wr = NoWord]
  PROVE  ReadingBytes'
PROOF
  <1>1. /\ ctl'.wr = NoWord /\ ctl'.active = ctl.active /\ ctl'.err = ctl.err /\ ctl'.rd = ctl.rd
        /\ ctl'.rx = ctl.rx /\ ctl'.mode = ctl.mode
    BY DEF TypeOK, ControllerState
  <1>2. ReadingBytes
    BY PhaseWords DEF Moving
  <1>3. ctl.wr = StopWord /\ ctl.mode # "read"
    BY <1>2, PhaseWords
  <1>4. ReadStopped
    BY <1>2, <1>3 DEF ReadingBytes
  <1>5. ReadStopped'
    BY <1>1, <1>3, <1>4 DEF ReadStopped, LastIsNext
  <1>6. Incoming' = Incoming /\ Outgoing' = Outgoing /\ Bytes(Outgoing)' = Bytes(Outgoing)
    BY DEF Incoming, Outgoing, Bytes
  <1>7. \E p \in 0 .. Incoming' : AtRead(p)'
    BY <1>2, <1>6 DEF ReadingBytes, AtRead
  <1>8. BytesStored'
    BY <1>1, <1>2 DEF ReadingBytes, BytesStored, Pending
  <1>9. StopWord # NoWord
    BY DEF StopWord, NoWord
  <1> QED
    BY <1>1, <1>2, <1>3, <1>5, <1>6, <1>7, <1>8, <1>9 DEF ReadingBytes

\* A byte is refused.
LEMMA WordRefused ==
  ASSUME TypeOK, op \in Ops, Moving, ctl.active, ctl.wr.kind \in {"addr", "byte"},
         op' = op, dev' = dev, irq' = TRUE,
         ctl' = [ctl EXCEPT !.wr = NoWord, !.mode = "end", !.err = TRUE]
  PROVE  Refused'
PROOF
  <1>1. /\ ctl'.wr = NoWord /\ ctl'.active = ctl.active /\ ctl'.err = TRUE /\ ctl'.rd = ctl.rd
        /\ ctl'.mode = "end"
    BY DEF TypeOK, ControllerState
  <1>2. Addressing \/ Writing \/ AddressingRead
    BY PhaseWords DEF Moving
  <1>3. ~ctl.rd
    BY <1>2 DEF Addressing, Writing, AddressingRead, Untroubled
  <1>4. dev.msg # 0
    <2>1. ASSUME NEW k \in Nat, Wrote(k) PROVE dev.msg # 0
      BY <2>1, 1 # 0, 2 # 0 DEF Wrote
    <2>2. CASE Addressing
      BY <2>1, <2>2, 0 \in Nat DEF Addressing
    <2>3. CASE AddressingRead
      BY <2>3, 2 # 0 DEF AddressingRead, AtRead
    <2>4. CASE Writing
      <3>1. PICK k \in 0 .. Outgoing : Wrote(k) \/ Wrote(k + 1)
        BY <2>4 DEF Writing
      <3>2. k \in Nat /\ k + 1 \in Nat
        <4>1. Outgoing \in 0 .. MaxBytes
          BY OpShape
        <4> QED
          BY <4>1, BoundsAssumption
      <3> QED
        BY <2>1, <3>1, <3>2
    <2> QED
      BY <1>2, <2>2, <2>3, <2>4
  <1> QED
    BY <1>1, <1>3, <1>4 DEF Refused, Stopped

\* What every step of the controller leaves as it should be.
Controlled ==
  /\ ctl' \in ControllerState /\ irq' \in BOOLEAN
  /\ ctl'.active = ctl.active /\ ctl'.hung = ctl.hung /\ ctl'.invalid = ctl.invalid

\* The controller takes a word from the handler.
LEMMA ControllerTakes ==
  ASSUME TypeOK, op \in Ops, InTransfer, ControllerTakesWord
  PROVE  Controlled /\ fault' \in {"none"} \cup Faults /\ InTransfer'
PROOF
  <1>1. /\ op' = op /\ dev' = dev /\ got' = got /\ timeout' = timeout /\ irqEnabled' = irqEnabled
        /\ ctl.wr # NoWord /\ ctl.hung = FALSE
    BY DEF ControllerTakesWord, foreground, TypeOK, ControllerState
  <1>2. ctl.active = TRUE
    BY <1>1 DEF InTransfer, TypeOK, ControllerState
  <1>3. Moving /\ fault # "nack"
    BY <1>1 DEF InTransfer, Refused
  <1>4. NoWord \in Word /\ 0 \in 0 .. MaxBytes /\ 0 \in 0 .. MaxMissed
    BY Words, BoundsAssumption
  <1> DEFINE c == [ctl EXCEPT !.wr = NoWord]
             Accepted(w) == [c EXCEPT !.rx = 0, !.late = FALSE, !.missed = 0,
                               !.mode = IF w.last THEN "end"
                                        ELSE IF op[w.msg].rd THEN "read" ELSE "write"]
  <1>5. CASE ctl.wr.kind = "addr" /\ Raise(Accepted(ctl.wr)) /\ sent' = sent /\ fault' = fault
    <2>1. ctl' = [ctl EXCEPT !.wr = NoWord, !.rx = 0, !.late = FALSE, !.missed = 0,
                   !.mode = IF ctl.wr.last THEN "end"
                            ELSE IF op[ctl.wr.msg].rd THEN "read" ELSE "write"]
          /\ irq' = TRUE
      BY <1>5 DEF Raise, TypeOK, ControllerState
    <2>2. Controlled
      BY <1>4, <2>1 DEF Controlled, TypeOK, ControllerState
    <2>3. Addressing \/ AddressingRead
      BY <1>3, <1>5, PhaseWords DEF Moving
    <2>4. Moving'
      BY <1>1, <1>5, <2>1, <2>3, FirstAddressTaken, ReadAddressTaken DEF Moving
    <2> QED
      BY <1>1, <1>2, <1>3, <1>5, <2>2, <2>4 DEF InTransfer, Controlled, TypeOK
  <1>6. CASE /\ ctl.wr.kind = "byte" /\ ctl.mode = "write" /\ fault' = fault
             /\ Raise([c EXCEPT !.mode = IF ctl.wr.last THEN "end" ELSE "write"])
             /\ sent' = Append(sent, <<ctl.wr.msg, ctl.wr.pos>>)
    <2>1. ctl' = [ctl EXCEPT !.wr = NoWord, !.mode = IF ctl.wr.last THEN "end" ELSE "write"]
          /\ irq' = TRUE
      BY <1>6 DEF Raise, TypeOK, ControllerState
    <2>2. Controlled
      BY <1>4, <2>1 DEF Controlled, TypeOK, ControllerState
    <2>3. Writing
      BY <1>3, <1>6, PhaseWords DEF Moving
    <2>4. Moving'
      BY <1>1, <1>6, <2>1, <2>3, ByteSent DEF Moving
    <2> QED
      BY <1>1, <1>2, <1>3, <1>6, <2>2, <2>4 DEF InTransfer, Controlled, TypeOK
  <1>7. CASE /\ \/ ctl.wr.kind = "stop" /\ ctl.mode # "read"
                \/ ctl.wr.kind = "byte" /\ ctl.mode # "write"
             /\ ctl' = c /\ irq' = irq /\ sent' = sent /\ fault' = fault
    <2>1. Controlled
      BY <1>4, <1>7 DEF Controlled, TypeOK, ControllerState
    <2>2. Moving'
      BY <1>1, <1>3, <1>7, RequestDropped DEF Moving
    <2> QED
      BY <1>1, <1>2, <1>3, <1>7, <2>1, <2>2 DEF InTransfer, Controlled, TypeOK
  <1>8. CASE /\ ctl.wr.kind \in {"addr", "byte"} /\ "nack" \in Faults /\ fault' = "nack"
             /\ Raise([c EXCEPT !.mode = "end", !.err = TRUE]) /\ sent' = sent
    <2>1. ctl' = [ctl EXCEPT !.wr = NoWord, !.mode = "end", !.err = TRUE] /\ irq' = TRUE
      BY <1>8 DEF Raise, TypeOK, ControllerState
    <2>2. Controlled
      BY <1>4, <2>1 DEF Controlled, TypeOK, ControllerState
    <2>3. Refused'
      BY <1>1, <1>2, <1>3, <1>8, <2>1, WordRefused
    <2> QED
      BY <1>1, <1>2, <1>8, <2>2, <2>3 DEF InTransfer, Controlled
  <1> QED
    BY <1>5, <1>6, <1>7, <1>8, Zenon DEF ControllerTakesWord

\* A byte comes from the device, whether or not it was still wanted.
LEMMA ByteArrives ==
  ASSUME TypeOK, op \in Ops, ReadingBytes, ctl.mode = "read", ~ctl.rd,
         op' = op, dev' = dev, got' = got, sent' = sent, irq' = TRUE, timeout' = timeout,
         ctl' \in ControllerState, ctl'.rd = TRUE, ctl'.rx = ctl.rx + 1,
         ctl'.active = ctl.active, ctl'.err = ctl.err,
         \/ ctl'.wr = NoWord /\ ctl'.mode = "read"
         \/ ctl.wr = StopWord /\ ctl'.wr = NoWord /\ ctl'.mode = "end"
         \/ ctl.wr = StopWord /\ ~ctl.late /\ ctl'.wr = StopWord /\ ctl'.late /\ ctl'.mode = "read"
  PROVE  ReadingBytes'
PROOF
  <1>1. /\ dev.pos \in 0 .. Incoming /\ Incoming \in 0 .. MaxBytes /\ MaxBytes \in Nat
        /\ dev.flushCnt \in 0 .. MaxBytes /\ ctl.rx \in 0 .. MaxBytes
    BY ReadState
  <1>2. Incoming' = Incoming /\ Outgoing' = Outgoing /\ Bytes(Outgoing)' = Bytes(Outgoing)
    BY DEF Incoming, Outgoing, Bytes
  <1>3. \E p \in 0 .. Incoming' : AtRead(p)'
    BY <1>2 DEF ReadingBytes, AtRead
  <1>4. BytesStored'
    <2>1. Pending = 0 /\ Pending' = 1
      BY DEF Pending
    <2>2. BytesStored
      BY DEF ReadingBytes
    <2> QED
      BY <1>1, <2>1, <2>2 DEF BytesStored
  <1>5. ctl.active
    BY DEF ReadingBytes
  <1>6. StopWord # NoWord
    BY DEF StopWord, NoWord
  <1>7. ASSUME ctl'.mode = "read", ctl'.wr = StopWord PROVE StopRequested'
    <2>1. StopRequested /\ ~ctl.late /\ ctl'.late
      BY <1>6, <1>7 DEF ReadingBytes
    <2>2. RequestsStop(dev)' = RequestsStop(dev)
      BY DEF RequestsStop, Expecting, Reading
    <2>3. LastIsNext' = LastIsNext
      BY DEF LastIsNext
    <2> QED
      BY <2>1, <2>2, <2>3 DEF StopRequested
  <1>8. ASSUME ctl'.mode # "read" PROVE ReadStopped'
    <2>1. ctl.wr = StopWord /\ ctl'.wr = NoWord /\ ctl'.mode = "end"
      BY <1>8
    <2>2. LastIsNext
      BY <2>1 DEF ReadingBytes, StopRequested
    <2> QED
      BY <1>5, <2>1, <2>2 DEF ReadStopped, LastIsNext
  <1>9. ctl'.wr \in {NoWord, StopWord} /\ ctl'.mode \in {"read", "end", "off"}
        /\ ctl'.active /\ ~ctl'.err /\ dev'.ret = "num" /\ Len(op') = 2 /\ sent' = Bytes(Outgoing)
    BY <1>5 DEF ReadingBytes
  <1> QED
    BY <1>2, <1>3, <1>4, <1>7, <1>8, <1>9 DEF ReadingBytes

\* The controller receives a byte.
LEMMA ControllerGetsByte ==
  ASSUME TypeOK, op \in Ops, InTransfer, ControllerReceives
  PROVE  Controlled /\ InTransfer'
PROOF
  <1>1. /\ op' = op /\ dev' = dev /\ got' = got /\ timeout' = timeout /\ irqEnabled' = irqEnabled
        /\ sent' = sent /\ fault' = fault
        /\ ctl.mode = "read" /\ ~ctl.rd /\ ctl.hung = FALSE /\ ctl.rx < MaxBytes
    BY DEF ControllerReceives, foreground, TypeOK, ControllerState
  <1>2. ReadingBytes /\ fault # "nack"
    BY <1>1 DEF InTransfer, Moving, Addressing, Writing, AddressingRead, AllWritten, Refused,
       Stopped
  <1>3. ctl.rx \in 0 .. MaxBytes /\ MaxBytes \in Nat /\ MaxMissed \in Nat
        /\ ctl.missed \in 0 .. MaxMissed /\ NoWord \in Word
    BY BoundsAssumption, Words DEF TypeOK, ControllerState
  <1>4. ctl.rx + 1 \in 0 .. MaxBytes
    BY <1>1, <1>3
  <1>5. ctl.active = TRUE
    BY <1>1, <1>2 DEF ReadingBytes, TypeOK, ControllerState
  <1> DEFINE c == [ctl EXCEPT !.rd = TRUE, !.rx = @ + 1]
             seen == [c EXCEPT !.wr = NoWord, !.late = FALSE]
  <1>6. /\ irq' = TRUE
        /\ \/ ctl.wr = NoWord /\ ctl' = c
           \/ ctl.wr = StopWord /\ ctl' = [seen EXCEPT !.mode = "end"]
           \/ ctl.wr = StopWord /\ ~ctl.late /\ ctl' = [c EXCEPT !.late = TRUE]
           \/ ctl.wr = StopWord /\ ctl.missed < MaxMissed /\ ctl' = [seen EXCEPT !.missed = @ + 1]
    BY Zenon DEF ControllerReceives, Raise
  <1>7. /\ Controlled /\ ctl'.rd = TRUE /\ ctl'.rx = ctl.rx + 1 /\ ctl'.err = ctl.err
        /\ \/ ctl'.wr = NoWord /\ ctl'.mode = "read"
           \/ ctl.wr = StopWord /\ ctl'.wr = NoWord /\ ctl'.mode = "end"
           \/ ctl.wr = StopWord /\ ~ctl.late /\ ctl'.wr = StopWord /\ ctl'.late
             /\ ctl'.mode = "read"
    <2>1. CASE ctl.wr = NoWord /\ ctl' = c
      BY <1>1, <1>3, <1>4, <1>6, <2>1 DEF Controlled, TypeOK, ControllerState
    <2>2. CASE ctl.wr = StopWord /\ ctl' = [seen EXCEPT !.mode = "end"]
      BY <1>1, <1>3, <1>4, <1>6, <2>2 DEF Controlled, TypeOK, ControllerState
    <2>3. CASE ctl.wr = StopWord /\ ~ctl.late /\ ctl' = [c EXCEPT !.late = TRUE]
      BY <1>1, <1>3, <1>4, <1>6, <2>3 DEF Controlled, TypeOK, ControllerState
    <2>4. CASE ctl.wr = StopWord /\ ctl.missed < MaxMissed /\ ctl' = [seen EXCEPT !.missed = @ + 1]
      <3>1. ctl.missed + 1 \in 0 .. MaxMissed
        BY <1>3, <2>4
      <3> QED
        BY <1>1, <1>3, <1>4, <1>6, <2>4, <3>1 DEF Controlled, TypeOK, ControllerState
    <2> QED
      BY <1>6, <2>1, <2>2, <2>3, <2>4
  <1>8. ReadingBytes'
    BY <1>1, <1>2, <1>6, <1>7, ByteArrives DEF Controlled
  <1> QED
    BY <1>1, <1>2, <1>5, <1>7, <1>8 DEF InTransfer, Moving, Controlled

\* The phases after the bytes are over do not depend on whether the bus is.
LEMMA ControllerGoesIdle ==
  ASSUME TypeOK, op \in Ops, InTransfer, ControllerStops
  PROVE  ctl' \in ControllerState /\ ctl'.invalid = ctl.invalid /\ ctl'.hung = FALSE /\ InTransfer'
PROOF
  <1>1. /\ op' = op /\ dev' = dev /\ got' = got /\ timeout' = timeout /\ irqEnabled' = irqEnabled
        /\ sent' = sent /\ fault' = fault /\ irq' = irq
        /\ ctl.mode = "end" /\ ctl.wr = NoWord /\ ctl.active /\ ~ctl.hung
        /\ ctl' = [ctl EXCEPT !.active = FALSE, !.mode = "off"]
    BY DEF ControllerStops, foreground
  <1>2. /\ ctl' \in ControllerState /\ ctl'.invalid = ctl.invalid /\ ctl'.hung = FALSE
        /\ ctl'.active = FALSE /\ ctl'.mode = "off" /\ ctl'.wr = NoWord /\ ctl'.rd = ctl.rd
        /\ ctl'.rx = ctl.rx /\ ctl'.err = ctl.err
    BY <1>1 DEF TypeOK, ControllerState
  <1>3. Incoming' = Incoming /\ Outgoing' = Outgoing /\ Bytes(Outgoing)' = Bytes(Outgoing)
    BY <1>1 DEF Incoming, Outgoing, Bytes
  <1>4. AllWritten => AllWritten'
    BY <1>1, <1>2, <1>3 DEF AllWritten, Untroubled, Stopped, Wrote
  <1>5. ASSUME ReadingBytes PROVE ReadingBytes'
    <2>1. \E p \in 0 .. Incoming' : AtRead(p)'
      BY <1>1, <1>3, <1>5 DEF ReadingBytes, AtRead
    <2>2. BytesStored'
      BY <1>1, <1>2, <1>5 DEF ReadingBytes, BytesStored, Pending
    <2>3. ReadStopped'
      BY <1>1, <1>2, <1>5 DEF ReadingBytes, ReadStopped, LastIsNext
    <2> QED
      BY <1>1, <1>2, <1>3, <1>5, <2>1, <2>2, <2>3 DEF ReadingBytes
  <1>6. Refused => Refused'
    BY <1>1, <1>2 DEF Refused, Stopped
  <1>7. AllWritten \/ ReadingBytes \/ Refused
    BY <1>1 DEF InTransfer, Moving, Addressing, Writing, AddressingRead
  <1>8. ~(Moving /\ Refused)
    BY DEF Refused, Moving, Addressing, AddressingRead, Writing, ReadingBytes, AllWritten,
       Untroubled
  <1>9. \/ Moving' /\ fault # "nack"
        \/ Refused' /\ fault # "none"
    <2>1. CASE Moving /\ fault # "nack"
      <3>1. AllWritten \/ ReadingBytes
        BY <1>7, <1>8, <2>1
      <3> QED
        BY <1>4, <1>5, <2>1, <3>1 DEF Moving
    <2>2. CASE Refused /\ fault # "none"
      BY <1>6, <2>2
    <2> QED
      BY <2>1, <2>2 DEF InTransfer
  <1> QED
    BY <1>1, <1>2, <1>9 DEF InTransfer

\* A bus that hangs stays in its phase.
LEMMA BusStopsInPhase ==
  ASSUME TypeOK, op \in Ops, InTransfer, BusHangs
  PROVE  ctl' \in ControllerState /\ ctl'.invalid = ctl.invalid /\ InTransfer'
PROOF
  <1>1. /\ op' = op /\ dev' = dev /\ got' = got /\ timeout' = timeout /\ irqEnabled' = irqEnabled
        /\ sent' = sent /\ fault' = "hang" /\ irq' = irq
        /\ ctl.active /\ ctl' = [ctl EXCEPT !.hung = TRUE]
    BY DEF BusHangs, foreground
  <1>2. /\ ctl' \in ControllerState /\ ctl'.invalid = ctl.invalid /\ ctl'.late = ctl.late
        /\ ctl'.active = ctl.active /\ ctl'.mode = ctl.mode /\ ctl'.wr = ctl.wr /\ ctl'.rd = ctl.rd
        /\ ctl'.rx = ctl.rx /\ ctl'.err = ctl.err
    BY <1>1 DEF TypeOK, ControllerState
  <1>3. /\ Incoming' = Incoming /\ Outgoing' = Outgoing
        /\ \A k : Bytes(k)' = Bytes(k) /\ ByteWord(k)' = ByteWord(k)
        /\ \A m, last : AddressWord(m, last)' = AddressWord(m, last)
    BY <1>1 DEF Incoming, Outgoing, Bytes, ByteWord, AddressWord
  <1>4. Untroubled' = Untroubled
    BY <1>1, <1>2 DEF Untroubled
  <1>5. \A k : Wrote(k)' = Wrote(k)
    BY <1>1, <1>3 DEF Wrote
  <1>6. Addressing => Addressing'
    BY <1>1, <1>2, <1>3, <1>4, <1>5 DEF Addressing
  <1>7. Writing => Writing'
    BY <1>1, <1>2, <1>3, <1>4, <1>5 DEF Writing
  <1>8. AddressingRead => AddressingRead'
    BY <1>1, <1>2, <1>3, <1>4 DEF AddressingRead, AtRead
  <1>9. AllWritten => AllWritten'
    BY <1>1, <1>2, <1>3, <1>4, <1>5 DEF AllWritten, Stopped
  <1>10. ASSUME ReadingBytes PROVE ReadingBytes'
    <2>1. \E p \in 0 .. Incoming' : AtRead(p)'
      BY <1>1, <1>3, <1>10 DEF ReadingBytes, AtRead
    <2>2. BytesStored'
      BY <1>1, <1>2, <1>10 DEF ReadingBytes, BytesStored, Pending
    <2>3. ctl.mode # "read" => ReadStopped'
      BY <1>1, <1>2, <1>10 DEF ReadingBytes, ReadStopped, LastIsNext
    <2>4. ctl.mode = "read" /\ ctl.wr = StopWord => StopRequested'
      <3>1. RequestsStop(dev)' = RequestsStop(dev)
        BY <1>1 DEF RequestsStop, Expecting, Reading
      <3> QED
        BY <1>1, <1>2, <1>10, <3>1 DEF ReadingBytes, StopRequested, LastIsNext
    <2> QED
      BY <1>1, <1>2, <1>3, <1>10, <2>1, <2>2, <2>3, <2>4 DEF ReadingBytes
  <1>11. Refused => Refused'
    BY <1>1, <1>2 DEF Refused, Stopped
  <1>12. Moving \/ Refused
    BY DEF InTransfer
  <1>13. Moving' \/ Refused'
    BY <1>6, <1>7, <1>8, <1>9, <1>10, <1>11, <1>12 DEF Moving
  <1> QED
    BY <1>1, <1>2, <1>13 DEF InTransfer

-----------------------------------------------------------------------------
(* The foreground.                                                          *)

\* A transfer that starts on a free bus is in its first phase.
LEMMA StartedTransfer ==
  ASSUME TypeOK, op \in Ops, Starting, ~irq,
         NEW c \in ControllerState, c.wr = NoWord, ~c.rd, ~c.err, ~c.hung, c.mode = "off",
         StartTransfer(c), op' = op, sent' = sent, irq' = irq, irqEnabled' = irqEnabled,
         fault' = "none"
  PROVE  /\ dev' \in TransferState /\ ctl' \in ControllerState /\ timeout' = timeout
         /\ ctl'.invalid = c.invalid /\ ~ctl'.hung /\ InTransfer'
PROOF
  <1>1. timeout \in BOOLEAN
    BY DEF TypeOK
  <1>2. /\ dev' = [NewTransfer EXCEPT !.pos = 0]
        /\ ctl' = [c EXCEPT !.wr = AddressWord(1, Len(op) = 1 /\ Outgoing = 0), !.active = TRUE]
        /\ got' = got /\ timeout' = timeout
    BY <1>1, TransferStarts, Zenon
  <1>3. Len(op) \in {1, 2} /\ Outgoing \in 0 .. MaxBytes /\ (Len(op) = 2 => Outgoing > 0)
        /\ MaxBytes \in Nat
    BY OpShape, BoundsAssumption
  <1>4. /\ dev'.msg = 1 /\ dev'.rem = Len(op) /\ dev'.pos = 0 /\ dev'.cnt = Outgoing
        /\ dev'.ret = "num" /\ dev'.needFlush = FALSE /\ dev'.flushCnt = 0
    BY <1>2 DEF NewTransfer, Outgoing
  <1>5. dev' \in TransferState
    <2>1. 1 \in 0 .. Len(op) /\ Len(op) \in 0 .. Len(op) /\ 0 \in -1 .. MaxBytes
          /\ 0 \in 0 .. MaxBytes
      BY SMTT(30), <1>3
    <2>2. dev' = [msg |-> 1, rem |-> Len(op), pos |-> 0, cnt |-> Outgoing,
                  ret |-> "num", needFlush |-> FALSE, flushCnt |-> 0]
      BY <1>2 DEF NewTransfer, Outgoing
    <2> QED
      BY <1>3, <2>1, <2>2 DEF TransferState
  <1>6. /\ ctl' \in ControllerState /\ ctl'.active = TRUE /\ ctl'.mode = "off"
        /\ ctl'.wr = AddressWord(1, Len(op) = 1 /\ Outgoing = 0)
        /\ ctl'.err = c.err /\ ctl'.rd = c.rd /\ ctl'.hung = c.hung /\ ctl'.invalid = c.invalid
    <2>1. AddressWord(1, Len(op) = 1 /\ Outgoing = 0) \in Word
      BY (Len(op) = 1 /\ Outgoing = 0) \in BOOLEAN, Words, Zenon
    <2> QED
      BY <1>2, <2>1 DEF ControllerState
  <1>7. Outgoing' = Outgoing
    BY DEF Outgoing
  <1>8. Wrote(0)'
    <2>1. 0 < Outgoing \/ Len(op) = 1
      <3>1. Len(op) = 2 => 0 < Outgoing
        BY <1>3
      <3> QED
        BY <1>3, <3>1, Zenon
    <2>2. Outgoing - 0 = Outgoing
      BY <1>3
    <2> QED
      BY <1>4, <1>7, <2>1, <2>2 DEF Wrote
  <1>9. Untroubled'
    BY <1>2, <1>4, <1>6 DEF Untroubled, Starting
  <1>10. ctl'.wr = AddressWord(1, Len(op) = 1 /\ Outgoing = 0)'
    BY <1>6, <1>7 DEF AddressWord
  <1>11. Addressing'
    BY <1>6, <1>7, <1>8, <1>9, <1>10 DEF Addressing, Starting, AddressWord
  <1> QED
    BY <1>2, <1>5, <1>6, <1>11 DEF InTransfer, Moving, Starting

\* The state between transfers is one.
LEMMA IdleIsAState ==
  ASSUME op \in Ops \cup {<< >>}
  PROVE  /\ \A flush \in BOOLEAN : [Idle EXCEPT !.needFlush = flush] \in TransferState
         /\ Quiet \in ControllerState
PROOF
  <1>1. MaxBytes \in Nat /\ MaxMissed \in Nat
    BY BoundsAssumption
  <1>2. Len(op) \in Nat
    <2>1. CASE op \in Ops
      BY <2>1, OpShape
    <2>2. CASE op = << >>
      BY <2>2
    <2> QED
      BY <2>1, <2>2
  <1>3. 0 \in 0 .. Len(op) /\ 0 \in -1 .. MaxBytes /\ 0 \in 0 .. MaxBytes /\ 0 \in 0 .. MaxMissed
    BY <1>1, <1>2
  <1>4. NoWord \in Word
    BY <1>3 DEF NoWord, Word
  <1> QED
    BY <1>3, <1>4 DEF Idle, Quiet, TransferState, ControllerState

\* A transfer ends as its phase says.
LEMMA TransferTold ==
  ASSUME TypeOK, op \in Ops, InTransfer, ~irq, ~ctl.active \/ ctl.hung,
         ret' = Result \/ (ctl.hung /\ ret' = dev.ret),
         op' = op, sent' = sent, got' = got, fault' = fault
  PROVE  Told'
PROOF
  <1>1. CASE fault = "hang"
    BY <1>1 DEF Told
  <1>2. CASE fault # "hang"
    <2>1. ~ctl.hung /\ ~ctl.active /\ ret' = Result
      BY <1>2 DEF InTransfer
    <2>2. CASE Refused
      <3>1. dev.ret = "error" /\ fault # "none"
        BY <2>2 DEF Refused, InTransfer, Moving, Addressing, AddressingRead, Writing, ReadingBytes,
                    AllWritten, Untroubled
      <3>2. Result # "num"
        BY <3>1 DEF Result
      <3> QED
        BY <2>1, <3>1, <3>2 DEF Told
    <2>3. CASE AllWritten
      <3>1. dev.ret = "num" /\ ~timeout /\ sent = Bytes(Outgoing) /\ got = << >> /\ Len(op) = 1
        BY <2>3 DEF AllWritten, Untroubled
      <3>2. ret' = "num"
        BY <2>1, <3>1 DEF Result
      <3>3. ReadLength = 0
        BY <3>1, OpShape, Zenon DEF ReadLength
      <3>4. got = [i \in 1 .. ReadLength |-> i]
        BY <3>1, <3>3
      <3>5. Transferred
        BY <3>1, <3>4, AllDelivered DEF Transferred
      <3>6. Transferred'
        BY <3>5 DEF Transferred, Delivered, WriteBytes, ReadLength
      <3> QED
        BY <3>2, <3>6 DEF Told
    <2>4. CASE ReadingBytes
      <3>1. /\ Len(op) = 2 /\ dev.ret = "num" /\ sent = Bytes(Outgoing)
            /\ ~ctl.rd /\ dev.cnt = 0 /\ ~timeout /\ got = [i \in 1 .. dev.pos |-> i]
        <4>1. ctl.mode # "read" /\ ~ctl.rd
          BY <2>1, <2>4 DEF ReadingBytes, BytesStored
        <4> QED
          BY <2>4, <4>1 DEF ReadingBytes, ReadStopped, BytesStored
      <3>2. dev.pos = Incoming
        BY <2>4, <3>1, ReadState
      <3>3. ReadLength = Incoming
        BY <3>1, OpShape DEF ReadLength, Incoming
      <3>4. Transferred
        BY <3>1, <3>2, <3>3, AllDelivered DEF Transferred
      <3>5. Transferred'
        BY <3>4 DEF Transferred, Delivered, WriteBytes, ReadLength
      <3>6. ret' = "num"
        BY <2>1, <3>1 DEF Result
      <3> QED
        BY <3>5, <3>6 DEF Told
    <2> QED
      BY <2>1, <2>2, <2>3, <2>4 DEF InTransfer, Moving, Addressing, Writing, AddressingRead
  <1> QED
    BY <1>1, <1>2

-----------------------------------------------------------------------------
(* The invariant.                                                           *)

\* Each step of the foreground keeps the invariant.  A call begins.
LEMMA CallKeepsI2CInv ==
  ASSUME I2CInv, NEW msgs \in Ops, Call(msgs)
  PROVE  I2CInv'
PROOF
  <1>1. /\ pc = "idle" /\ op' = msgs /\ tries' = 0 /\ outcome' = "none" /\ pc' = "enable"
        /\ ret' = ret /\ dev' = dev /\ timeout' = timeout /\ irqEnabled' = irqEnabled
        /\ irq' = irq /\ ctl' = ctl /\ sent' = sent /\ got' = got /\ fault' = fault
    BY DEF Call
  <1>2. BetweenTransfers /\ TypeOK
    BY <1>1 DEF I2CInv
  <1>3. dev' \in TransferState'
    <2>1. Len(msgs) \in 1 .. 2 /\ MaxBytes \in Nat
      BY OpsAssumption, BoundsAssumption
    <2>2. 0 \in 0 .. Len(msgs) /\ 0 \in -1 .. MaxBytes /\ 0 \in 0 .. MaxBytes
      BY <2>1
    <2>3. dev.needFlush \in BOOLEAN
      BY <1>2 DEF TypeOK, TransferState
    <2>4. dev' = [Idle EXCEPT !.needFlush = dev.needFlush]
      BY <1>1, <1>2 DEF BetweenTransfers
    <2> QED
      BY <1>1, <2>2, <2>3, <2>4 DEF TransferState, Idle
  <1>4. TypeOK'
    BY <1>1, <1>2, <1>3, RetriesAssumption DEF TypeOK, ControllerState
  <1>5. BetweenTransfers'
    BY <1>1, <1>2 DEF BetweenTransfers, Resting
  <1> QED
    BY <1>1, <1>4, <1>5 DEF I2CInv, SuccessMeansTransferred, QuietBetweenTransfers

\* The interrupt is enabled: the bookkeeping of this try begins.
LEMMA EnableKeepsI2CInv ==
  ASSUME I2CInv, EnableInterrupt
  PROVE  I2CInv'
PROOF
  <1>1. /\ pc = "enable" /\ irqEnabled' = TRUE /\ pc' = "notbusy"
        /\ sent' = << >> /\ got' = << >> /\ fault' = IF ctl.hung THEN "hang" ELSE "none"
        /\ op' = op /\ tries' = tries /\ ret' = ret /\ outcome' = outcome
        /\ dev' = dev /\ timeout' = timeout /\ irq' = irq /\ ctl' = ctl
    BY DEF EnableInterrupt
  <1>2. BetweenTransfers /\ TypeOK
    BY <1>1 DEF I2CInv
  <1>3. TypeOK'
    BY <1>1, <1>2 DEF TypeOK, TransferState, ControllerState, I2CInv
  <1>4. BetweenTransfers'
    BY <1>1, <1>2 DEF BetweenTransfers, Resting
  <1>5. Starting'
    BY <1>1 DEF Starting
  <1> QED
    BY <1>1, <1>3, <1>4, <1>5 DEF I2CInv, SuccessMeansTransferred, QuietBetweenTransfers

\* The bus is free, is freed, or is given up.
LEMMA NotBusyKeepsI2CInv ==
  ASSUME I2CInv, NotBusy
  PROVE  I2CInv'
PROOF
  <1>1. /\ pc = "notbusy" /\ ~Preempted
        /\ op' = op /\ tries' = tries /\ outcome' = outcome
        /\ irqEnabled' = irqEnabled /\ irq' = irq /\ sent' = sent
    BY DEF NotBusy
  <1>2. /\ BetweenTransfers /\ TypeOK /\ Starting /\ op \in Ops /\ outcome = "none"
        /\ ~ctl.invalid /\ (ctl.hung => "hang" \in Faults)
    BY <1>1 DEF I2CInv
  <1>3. irqEnabled /\ ~irq /\ ~ctl.err
    BY <1>1, <1>2 DEF Starting, Preempted, BetweenTransfers
  <1>4. ASSUME NEW c \in ControllerState, c.wr = NoWord, ~c.rd, ~c.err, ~c.hung, c.mode = "off",
               ~c.invalid, StartTransfer(c), fault' = "none"
        PROVE  I2CInv'
    <2>1. /\ dev' \in TransferState /\ ctl' \in ControllerState /\ timeout' = timeout
          /\ ctl'.invalid = c.invalid /\ ~ctl'.hung /\ InTransfer'
      BY <1>1, <1>2, <1>3, <1>4, StartedTransfer
    <2>2. pc' = "wait" /\ ret' = ret
      BY <1>4 DEF StartTransfer
    <2>3. TypeOK'
      BY <1>1, <1>2, <1>4, <2>1, <2>2 DEF TypeOK, TransferState, ControllerState
    <2> QED
      BY <1>1, <1>2, <1>4, <2>1, <2>2, <2>3 DEF I2CInv, SuccessMeansTransferred,
         QuietBetweenTransfers
  <1>5. CASE ~ctl.active /\ StartTransfer(ctl) /\ fault' = fault
    <2>1. ctl \in ControllerState /\ ctl.wr = NoWord /\ ~ctl.rd /\ ~ctl.hung /\ ctl.mode = "off"
      BY <1>2, <1>5 DEF BetweenTransfers, Resting, TypeOK
    <2>2. fault' = "none"
      BY <1>2, <1>5, <2>1 DEF Starting
    <2> QED
      BY <1>2, <1>3, <1>4, <1>5, <2>1, <2>2
  <1>6. CASE ctl.hung /\ StartTransfer(Quiet) /\ fault' = "none"
    <2>1. Quiet \in ControllerState
      BY <1>2, IdleIsAState
    <2>2. Quiet.wr = NoWord /\ ~Quiet.rd /\ ~Quiet.err /\ ~Quiet.hung /\ Quiet.mode = "off"
          /\ ~Quiet.invalid
      BY DEF Quiet
    <2> QED
      BY <1>4, <1>6, <2>1, <2>2
  <1>7. CASE /\ ctl.hung /\ ret' = "not_ready" /\ pc' = "leave"
             /\ UNCHANGED <<dev, ctl, timeout, got, fault>>
    <2>1. dev' = dev /\ ctl' = ctl /\ timeout' = timeout /\ got' = got /\ fault' = fault
      BY <1>7
    <2>2. TypeOK'
      BY <1>1, <1>2, <1>7, <2>1 DEF TypeOK, TransferState, ControllerState
    <2>3. BetweenTransfers'
      BY <1>1, <1>2, <2>1 DEF BetweenTransfers, Resting
    <2>4. Told'
      BY <1>2, <1>7, <2>1 DEF Told, Starting
    <2> QED
      BY <1>1, <1>2, <1>7, <2>1, <2>2, <2>3, <2>4
         DEF I2CInv, SuccessMeansTransferred, QuietBetweenTransfers
  <1> QED
    BY <1>5, <1>6, <1>7 DEF NotBusy

\* The bus went idle, was freed, or hangs on: ret is set from what is known.
LEMMA TransferEndsKeepsI2CInv ==
  ASSUME I2CInv, TransferEnds
  PROVE  I2CInv'
PROOF
  <1>1. /\ pc = "wait" /\ ~Preempted /\ pc' = "leave"
        /\ dev' = [Idle EXCEPT !.needFlush = dev.needFlush]
        /\ op' = op /\ tries' = tries /\ outcome' = outcome /\ timeout' = timeout
        /\ irqEnabled' = irqEnabled /\ irq' = irq /\ sent' = sent /\ got' = got /\ fault' = fault
    BY DEF TransferEnds
  <1>2. /\ InTransfer /\ TypeOK /\ op \in Ops /\ outcome = "none"
        /\ ~ctl.invalid /\ (ctl.hung => "hang" \in Faults)
    BY <1>1 DEF I2CInv
  <1>3. irqEnabled /\ ~irq
    BY <1>1, <1>2 DEF InTransfer, Preempted
  <1>4. \/ ~ctl.active /\ ret' = Result /\ ctl' = ctl
        \/ ctl.hung /\ ret' = Result /\ ctl' = Quiet
        \/ ctl.hung /\ ret' = dev.ret /\ ctl' = ctl
    BY DEF TransferEnds
  <1>5. Told'
    BY <1>1, <1>2, <1>3, <1>4, TransferTold
  <1>6. dev.needFlush \in BOOLEAN /\ dev.ret \in {"none", "num", "error"}
    BY <1>2 DEF TypeOK, TransferState
  <1>7. dev' \in TransferState /\ dev'.needFlush = dev.needFlush
    BY <1>1, <1>2, <1>6, IdleIsAState DEF Idle
  <1>8. ret' \in {"none", "num", "error", "timed_out"}
    BY <1>4, <1>6 DEF Result
  <1>9. ~ctl.err
    BY <1>2, <1>3 DEF InTransfer, Refused, Moving, Addressing, AddressingRead, Writing,
       ReadingBytes,
                      AllWritten, Untroubled
  <1>10. ~ctl.active => Resting
    <2>1. ASSUME ~ctl.active PROVE ctl.mode = "off" /\ ctl.wr = NoWord /\ ~ctl.rd
      BY <1>2, <1>3, <2>1 DEF InTransfer, Refused, Moving, Addressing, AddressingRead, Writing,
         ReadingBytes, AllWritten, Untroubled, Stopped, ReadStopped, BytesStored
    <2> QED
      BY <1>9, <2>1 DEF Resting
  <1>11. ctl' \in ControllerState /\ ~ctl'.invalid /\ (ctl'.hung => "hang" \in Faults)
    <2>1. CASE ctl' = Quiet
      <3>1. Quiet \in ControllerState
        BY <1>2, IdleIsAState
      <3> QED
        BY <2>1, <3>1 DEF Quiet
    <2>2. CASE ctl' = ctl
      BY <1>2, <2>2 DEF TypeOK
    <2> QED
      BY <1>4, <2>1, <2>2
  <1>12. TypeOK'
    BY <1>1, <1>2, <1>7, <1>8, <1>11 DEF TypeOK, TransferState, ControllerState
  <1>13. BetweenTransfers'
    <2>1. dev' = [Idle EXCEPT !.needFlush = dev'.needFlush]
      BY <1>1, <1>7
    <2>2. (ctl'.hung \/ Resting') /\ (ctl'.hung => ctl'.active) /\ ~ctl'.err
      <3>1. CASE ctl' = Quiet
        BY <3>1 DEF Quiet, Resting
      <3>2. CASE ctl' = ctl
        BY <1>2, <1>4, <1>9, <1>10, <3>2 DEF Resting, InTransfer
      <3> QED
        BY <1>4, <3>1, <3>2
    <2> QED
      BY <2>1, <2>2 DEF BetweenTransfers, Idle
  <1> QED
    BY <1>1, <1>2, <1>5, <1>11, <1>12, <1>13
       DEF I2CInv, SuccessMeansTransferred, QuietBetweenTransfers

\* The interrupt is disabled; the caller is told, or tries again.
LEMMA LeaveKeepsI2CInv ==
  ASSUME I2CInv, Leave
  PROVE  I2CInv'
PROOF
  <1>1. /\ pc = "leave" /\ irqEnabled' = FALSE
        /\ op' = op /\ ret' = ret /\ dev' = dev /\ timeout' = timeout /\ irq' = irq
        /\ ctl' = ctl /\ sent' = sent /\ got' = got /\ fault' = fault
    BY DEF Leave
  <1>2. \/ ret = "num" /\ pc' = "idle" /\ outcome' = "ok" /\ tries' = tries
        \/ tries < Retries /\ pc' = "enable" /\ tries' = tries + 1 /\ outcome' = outcome
        \/ pc' = "idle" /\ outcome' = "failed" /\ tries' = tries
    BY DEF Leave
  <1>3. /\ BetweenTransfers /\ TypeOK /\ Told /\ op \in Ops /\ outcome = "none"
        /\ ~ctl.invalid /\ (ctl.hung => "hang" \in Faults)
    BY <1>1 DEF I2CInv
  <1>4. tries' \in 0 .. Retries
    BY <1>2, <1>3, RetriesAssumption DEF TypeOK
  <1>5. TypeOK'
    <2>1. pc' \in {"idle", "enable"} /\ outcome' \in {"none", "ok", "failed"}
      BY <1>2, <1>3
    <2>2. dev' \in TransferState' /\ ctl' \in ControllerState'
      BY <1>1, <1>3 DEF TypeOK, TransferState, ControllerState
    <2> QED
      BY <1>1, <1>3, <1>4, <2>1, <2>2 DEF TypeOK
  <1>6. BetweenTransfers'
    BY <1>1, <1>3 DEF BetweenTransfers, Resting
  <1>7. SuccessMeansTransferred'
    <2>1. Transferred' = Transferred
      BY <1>1 DEF Transferred, Delivered, WriteBytes, ReadLength
    <2> QED
      BY <1>1, <1>2, <1>3, <2>1 DEF SuccessMeansTransferred, Told
  <1>8. QuietBetweenTransfers'
    BY <1>1, <1>3 DEF QuietBetweenTransfers, BetweenTransfers, Resting
  <1> QED
    BY <1>1, <1>2, <1>3, <1>5, <1>6, <1>7, <1>8 DEF I2CInv

\* The handler, in a transfer and outside, where it only reads an error away.
LEMMA HandlerKeepsI2CInv ==
  ASSUME I2CInv, I2CInterruptHandler
  PROVE  I2CInv'
PROOF
  <1>1. /\ irqEnabled /\ irq' = FALSE /\ InterruptLocked(dev, ctl)
        /\ pc' = pc /\ op' = op /\ tries' = tries /\ ret' = ret /\ outcome' = outcome
        /\ irqEnabled' = irqEnabled /\ sent' = sent /\ fault' = fault
    BY DEF I2CInterruptHandler, foreground
  <1>2. TypeOK /\ ~ctl.invalid /\ (ctl.hung => "hang" \in Faults)
    BY DEF I2CInv
  <1>3. CASE pc = "wait"
    <2>1. InTransfer /\ op \in Ops /\ outcome = "none"
      BY <1>3 DEF I2CInv
    <2>2. Handled /\ InTransfer'
      BY <1>2, <2>1, HandlerKeepsTransfer
    <2>3. TypeOK'
      BY <1>1, <1>2, <2>2 DEF TypeOK, TransferState, ControllerState, Handled
    <2> QED
      BY <1>1, <1>2, <1>3, <2>1, <2>2, <2>3
         DEF I2CInv, Handled, SuccessMeansTransferred, QuietBetweenTransfers
  <1>4. CASE pc # "wait"
    <2>1. BetweenTransfers
      BY <1>4 DEF I2CInv
    <2>2. dev.msg = 0
      BY <2>1 DEF BetweenTransfers, Idle
    <2>3. dev' = dev /\ ctl' = [ctl EXCEPT !.err = FALSE] /\ timeout' = timeout /\ got' = got
      BY <1>1, <2>2, Zenon DEF InterruptLocked
    <2>4. /\ ctl' \in ControllerState /\ ctl'.err = FALSE /\ ctl'.active = ctl.active
          /\ ctl'.mode = ctl.mode /\ ctl'.wr = ctl.wr /\ ctl'.rd = ctl.rd
          /\ ctl'.hung = ctl.hung /\ ctl'.invalid = ctl.invalid
      BY <1>2, <2>3 DEF TypeOK, ControllerState
    <2>5. TypeOK'
      <3>1. dev' \in TransferState' /\ ctl' \in ControllerState'
        BY <1>1, <1>2, <2>3, <2>4 DEF TypeOK, TransferState, ControllerState
      <3> QED
        BY <1>1, <1>2, <2>3, <3>1 DEF TypeOK
    <2>6. BetweenTransfers'
      BY <2>1, <2>3, <2>4 DEF BetweenTransfers, Resting
    <2>7. pc = "notbusy" => Starting'
      BY <1>1, <2>3, <2>4 DEF I2CInv, Starting
    <2>8. Transferred' = Transferred
      BY <1>1, <2>3 DEF Transferred, Delivered, WriteBytes, ReadLength
    <2> QED
      BY <1>1, <1>2, <1>4, <2>4, <2>5, <2>6, <2>7, <2>8
         DEF I2CInv, SuccessMeansTransferred, QuietBetweenTransfers, Told
  <1> QED
    BY <1>3, <1>4

\* The controller and the bus move in a transfer only.
LEMMA ControllerRests ==
  ASSUME I2CInv, Controller \/ BusHangs
  PROVE  pc = "wait"
PROOF
  <1>1. /\ ~ctl.hung /\ (ctl.wr # NoWord \/ ctl.mode # "off" \/ ctl.active)
    BY DEF Controller, ControllerTakesWord, ControllerReceives, ControllerStops, BusHangs
  <1> QED
    BY <1>1 DEF I2CInv, BetweenTransfers, Resting

\* There they keep the invariant.
LEMMA ControllerKeepsI2CInv ==
  ASSUME I2CInv, Controller \/ BusHangs
  PROVE  I2CInv'
PROOF
  <1>1. pc = "wait"
    BY ControllerRests
  <1>2. /\ TypeOK /\ InTransfer /\ op \in Ops /\ outcome = "none"
        /\ ~ctl.invalid /\ (ctl.hung => "hang" \in Faults)
    BY <1>1 DEF I2CInv
  <1>3. /\ pc' = pc /\ op' = op /\ tries' = tries /\ ret' = ret /\ outcome' = outcome
        /\ dev' = dev /\ timeout' = timeout /\ irqEnabled' = irqEnabled /\ got' = got
    BY DEF Controller, ControllerTakesWord, ControllerReceives, ControllerStops, BusHangs,
       foreground
  <1>4. /\ ctl' \in ControllerState /\ irq' \in BOOLEAN /\ fault' \in {"none"} \cup Faults
        /\ ~ctl'.invalid /\ (ctl'.hung => "hang" \in Faults) /\ InTransfer'
    <2>1. CASE ControllerTakesWord
      BY <1>2, <2>1, ControllerTakes DEF Controlled
    <2>2. CASE ControllerReceives
      <3>1. fault' = fault
        BY <2>2 DEF ControllerReceives
      <3> QED
        BY <1>2, <2>2, <3>1, ControllerGetsByte DEF Controlled, TypeOK
    <2>3. CASE ControllerStops
      <3>1. fault' = fault /\ irq' = irq
        BY <2>3 DEF ControllerStops
      <3> QED
        BY <1>2, <2>3, <3>1, ControllerGoesIdle DEF TypeOK
    <2>4. CASE BusHangs
      <3>1. fault' = "hang" /\ irq' = irq /\ "hang" \in Faults
        BY <2>4 DEF BusHangs
      <3> QED
        BY <1>2, <2>4, <3>1, BusStopsInPhase DEF TypeOK
    <2> QED
      BY <2>1, <2>2, <2>3, <2>4 DEF Controller
  <1>5. TypeOK'
    BY <1>2, <1>3, <1>4 DEF TypeOK, TransferState, ControllerState
  <1> QED
    BY <1>1, <1>2, <1>3, <1>4, <1>5 DEF I2CInv, SuccessMeansTransferred, QuietBetweenTransfers

\* A step that changes nothing.
LEMMA StutterKeepsI2CInv ==
  ASSUME I2CInv, UNCHANGED vars
  PROVE  I2CInv'
PROOF
  <1>1. /\ pc' = pc /\ op' = op /\ tries' = tries /\ ret' = ret /\ outcome' = outcome
        /\ dev' = dev /\ timeout' = timeout /\ irqEnabled' = irqEnabled /\ irq' = irq
        /\ ctl' = ctl /\ sent' = sent /\ got' = got /\ fault' = fault
    BY DEF vars, foreground
  <1>2. TypeOK' = TypeOK
    BY <1>1 DEF TypeOK, TransferState, ControllerState
  <1>3. Transferred' = Transferred
    BY <1>1 DEF Transferred, Delivered, WriteBytes, ReadLength
  <1>4. BetweenTransfers' = BetweenTransfers /\ Starting' = Starting /\ Told' = Told
    BY <1>1, <1>3 DEF BetweenTransfers, Resting, Starting, Told
  <1>5. Moving' = Moving
    <2>1. Incoming' = Incoming /\ Outgoing' = Outgoing /\ Bytes(Outgoing)' = Bytes(Outgoing)
      BY <1>1 DEF Incoming, Outgoing, Bytes
    <2>2. Untroubled' = Untroubled /\ \A k : Wrote(k)' = Wrote(k)
      BY <1>1, <2>1 DEF Untroubled, Wrote
    <2>3. RequestsStop(dev)' = RequestsStop(dev)
      BY <1>1 DEF RequestsStop, Expecting, Reading
    <2>4. Addressing' = Addressing /\ AddressingRead' = AddressingRead
      BY <1>1, <2>1, <2>2 DEF Addressing, AddressingRead, AddressWord, AtRead
    <2>5. Writing' = Writing
      BY <1>1, <2>1, <2>2 DEF Writing, ByteWord, Bytes
    <2>6. ReadingBytes' = ReadingBytes
      BY <1>1, <2>1, <2>3 DEF ReadingBytes, AtRead, BytesStored, Pending, StopRequested, LastIsNext,
                              ReadStopped
    <2>7. AllWritten' = AllWritten
      BY <1>1, <2>1, <2>2 DEF AllWritten, Stopped
    <2> QED
      BY <2>4, <2>5, <2>6, <2>7 DEF Moving
  <1>6. InTransfer' = InTransfer
    BY <1>1, <1>5 DEF InTransfer, Refused, Stopped
  <1> QED
    BY <1>1, <1>2, <1>3, <1>4, <1>6 DEF I2CInv, SuccessMeansTransferred, QuietBetweenTransfers

\* It holds at the start.
LEMMA InitI2CInv == Init => I2CInv
PROOF
  <1> SUFFICES ASSUME Init PROVE I2CInv
    OBVIOUS
  <1>1. /\ pc = "idle" /\ op = << >> /\ tries = 0 /\ ret = "none" /\ outcome = "none"
        /\ dev = Idle /\ timeout = FALSE /\ irqEnabled = TRUE /\ irq \in BOOLEAN
        /\ ctl = Quiet /\ fault = "none"
    BY DEF Init
  <1>2. dev = [Idle EXCEPT !.needFlush = dev.needFlush] /\ dev.needFlush = FALSE
    BY <1>1 DEF Idle
  <1>3. dev \in TransferState /\ ctl \in ControllerState
    BY <1>1, <1>2, IdleIsAState
  <1>4. TypeOK
    <2>1. tries \in 0 .. Retries
      BY <1>1, RetriesAssumption
    <2> QED
      BY <1>1, <1>3, <2>1 DEF TypeOK
  <1>5. BetweenTransfers
    BY <1>1, <1>2 DEF BetweenTransfers, Resting, Quiet
  <1> QED
    BY <1>1, <1>4, <1>5 DEF I2CInv, SuccessMeansTransferred, QuietBetweenTransfers, Quiet

\* Every step keeps it.
LEMMA NextKeepsI2CInv == I2CInv /\ [Next]_vars => I2CInv'
PROOF
  <1> SUFFICES ASSUME I2CInv, [Next]_vars PROVE I2CInv'
    OBVIOUS
  <1>1. ASSUME NEW msgs \in Ops, Call(msgs) PROVE I2CInv'
    BY <1>1, CallKeepsI2CInv
  <1>2. CASE Foreground
    BY <1>2, EnableKeepsI2CInv, NotBusyKeepsI2CInv, TransferEndsKeepsI2CInv, LeaveKeepsI2CInv
       DEF Foreground
  <1>3. CASE I2CInterruptHandler
    BY <1>3, HandlerKeepsI2CInv
  <1>4. CASE Controller \/ BusHangs
    BY <1>4, ControllerKeepsI2CInv
  <1>5. CASE UNCHANGED vars
    BY <1>5, StutterKeepsI2CInv
  <1> QED
    BY <1>1, <1>2, <1>3, <1>4, <1>5 DEF Next

\* So the invariant holds throughout.
THEOREM I2CInvariant == Spec => []I2CInv
PROOF
  BY InitI2CInv, NextKeepsI2CInv, PTL DEF Spec

\* For any transfer of msm_i2c_read and msm_i2c_write: a caller told of success
\* has had its bytes moved, all of them, once and in order, unless the bus hung;
\* and a transfer on which nothing went wrong is reported as a success, whatever
\* happened to the ones before it.
THEOREM TransfersAreReported == Spec => []TransfersReported
PROOF
  <1>1. I2CInv => TransfersReported
    BY DEF I2CInv, TransfersReported, CleanTransferSucceeds, Told
  <1> QED
    BY <1>1, I2CInvariant, PTL

\* The handler never writes to a write buffer that is full, and after a call no
\* interrupt can come, the bus is free and the controller's buffers are empty,
\* unless the bus hangs.
THEOREM ControllerIsKept == Spec => []ControllerKept
PROOF
  <1>1. I2CInv => ControllerKept
    BY DEF I2CInv, ControllerKept, NoInvalidWrite
  <1> QED
    BY <1>1, I2CInvariant, PTL
=============================================================================
