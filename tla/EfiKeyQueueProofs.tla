------------------------- MODULE EfiKeyQueueProofs -------------------------
(***************************************************************************)
(* For every ring size: the indices of the key queue stay in range, and    *)
(* the ring buffer implements the drop-oldest FIFO of KeyFifo.             *)
(***************************************************************************)
EXTENDS EfiKeyQueue, SequenceTheorems, TLAPS

\* Reduction of a sum of two indices: what "% MaxCount" does to it.

LEMMA ModUnderTwice ==
  ASSUME NEW x \in Nat, x < 2 * MaxCount
  PROVE  x % MaxCount = IF x < MaxCount THEN x ELSE x - MaxCount
BY MaxCountAssumption

\* The successor of an index is an index: it wraps at the end of the array.
LEMMA NextSlotWraps ==
  ASSUME NEW i \in Slots
  PROVE  /\ NextSlot(i) = IF i + 1 = MaxCount THEN 0 ELSE i + 1
         /\ NextSlot(i) \in Slots
<1>1. i + 1 \in Nat /\ i + 1 < 2 * MaxCount
  BY MaxCountAssumption DEF Slots
<1>2. QED
  BY <1>1, ModUnderTwice, MaxCountAssumption DEF Slots, NextSlot

\* Head and Tail index the array in every reachable state, so no push or pop
\* of KeypadTextIn.c touches memory beside it.
THEOREM TypeCorrect == QueueSpec => []QueueTypeOK
<1>1. QueueInit => QueueTypeOK
  BY MaxCountAssumption DEF QueueInit, QueueTypeOK, Slots
<1>2. QueueTypeOK /\ [QueueNext]_queueVars => QueueTypeOK'
  <2> SUFFICES ASSUME QueueTypeOK, [QueueNext]_queueVars
               PROVE  QueueTypeOK'
    OBVIOUS
  <2> USE DEF QueueTypeOK
  <2>1. ASSUME NEW k \in Keys, PushEfikeyBufTail(k)
        PROVE  QueueTypeOK'
    BY <2>1, NextSlotWraps DEF PushEfikeyBufTail
  <2>2. CASE PopEfikeyBufHead
    BY <2>2, NextSlotWraps DEF PopEfikeyBufHead
  <2>3. CASE ClearQueue
    BY <2>3, MaxCountAssumption DEF ClearQueue, Slots
  <2>4. CASE UNCHANGED queueVars
    BY <2>4 DEF queueVars
  <2>5. QED
    BY <2>1, <2>2, <2>3, <2>4 DEF QueueNext
<1>3. QED
  BY <1>1, <1>2, PTL DEF QueueSpec

\* The i-th slot after an index lies at most one wrap behind it.
LEMMA SlotWraps ==
  ASSUME NEW h \in Slots, NEW i \in 1 .. MaxCount
  PROVE  /\ Slot(h, i) = IF h + i <= MaxCount THEN h + i - 1
                                              ELSE h + i - 1 - MaxCount
         /\ Slot(h, i) \in Slots
<1>1. h + (i - 1) \in Nat /\ h + (i - 1) < 2 * MaxCount
  BY MaxCountAssumption DEF Slots
<1>2. QED
  BY <1>1, ModUnderTwice, MaxCountAssumption DEF Slots, Slot

\* Advancing the index by one is the same as counting one slot further.
LEMMA SlotShift ==
  ASSUME NEW h \in Slots, NEW i \in 1 .. MaxCount - 1
  PROVE  Slot(NextSlot(h), i) = Slot(h, i + 1)
<1>1. i \in 1 .. MaxCount /\ i + 1 \in 1 .. MaxCount
  BY MaxCountAssumption
<1>2. NextSlot(h) \in Slots
  BY NextSlotWraps
<1>3. Slot(NextSlot(h), i) = IF NextSlot(h) + i <= MaxCount
                               THEN NextSlot(h) + i - 1
                               ELSE NextSlot(h) + i - 1 - MaxCount
  BY <1>1, <1>2, SlotWraps
<1>4. Slot(h, i + 1) = IF h + (i + 1) <= MaxCount
                         THEN h + (i + 1) - 1
                         ELSE h + (i + 1) - 1 - MaxCount
  BY <1>1, SlotWraps
<1>5. QED
  BY <1>3, <1>4, NextSlotWraps, MaxCountAssumption DEF Slots

\* Count never reaches MaxCount; both tests of the code can be read off it.
LEMMA CountBounds ==
  ASSUME QueueTypeOK
  PROVE  /\ Count \in 0 .. MaxCount - 1
         /\ IsEfikeyBufEmpty <=> Count = 0
         /\ IsFull <=> Count = MaxCount - 1
BY MaxCountAssumption, NextSlotWraps
   DEF QueueTypeOK, Slots, Count, IsEfikeyBufEmpty, IsFull

\* The queued keystrokes fill the slots from Head up to, not including, Tail.
LEMMA TailSlot ==
  ASSUME QueueTypeOK
  PROVE  /\ Slot(HeadIx, Count + 1) = TailIx
         /\ \A i \in 1 .. Count : Slot(HeadIx, i) # TailIx
<1>1. \A i \in 1 .. Count + 1 :
         Slot(HeadIx, i) = IF HeadIx + i <= MaxCount THEN HeadIx + i - 1
                                             ELSE HeadIx + i - 1 - MaxCount
  BY CountBounds, SlotWraps, MaxCountAssumption DEF QueueTypeOK
<1>2. QED
  BY <1>1, CountBounds, MaxCountAssumption DEF QueueTypeOK, Slots, Count

\* Contents is a sequence of keystrokes of length Count.
LEMMA ContentsIsSeq ==
  ASSUME QueueTypeOK
  PROVE  /\ Contents \in Seq(Keys)
         /\ Len(Contents) = Count
         /\ Contents = << >> <=> IsEfikeyBufEmpty
<1>1. Count \in Nat /\ Count < MaxCount
  BY CountBounds, MaxCountAssumption
<1>2. \A i \in 1 .. Count : Slot(HeadIx, i) \in Slots
  BY <1>1, SlotWraps, MaxCountAssumption DEF QueueTypeOK
<1>3. Contents \in Seq(Keys) /\ Len(Contents) = Count
  BY <1>1, <1>2 DEF Contents, QueueTypeOK
<1>4. QED
  BY <1>1, <1>3, CountBounds

\* A pop of a non-empty ring answers the oldest keystroke and removes it.
LEMMA PopStep ==
  ASSUME QueueTypeOK, PopEfikeyBufHead, ~IsEfikeyBufEmpty
  PROVE  Contents' = Tail(Contents) /\ last' = <<"pop", Head(Contents)>>
<1>1. Count \in 1 .. MaxCount - 1 /\ Count - 1 \in Nat
  BY CountBounds, MaxCountAssumption
<1>2. Count' = Count - 1
  <2>1. HeadIx' = IF HeadIx + 1 = MaxCount THEN 0 ELSE HeadIx + 1
    BY NextSlotWraps DEF PopEfikeyBufHead, QueueTypeOK
  <2>2. TailIx' = TailIx /\ HeadIx # TailIx
    BY DEF PopEfikeyBufHead, IsEfikeyBufEmpty
  <2>3. QED
    BY <2>1, <2>2, MaxCountAssumption DEF QueueTypeOK, Slots, Count
<1>3. \A i \in 1 .. Count - 1 : Slot(HeadIx', i) = Slot(HeadIx, i + 1)
  BY <1>1, SlotShift, MaxCountAssumption DEF PopEfikeyBufHead, QueueTypeOK
<1>4. Contents' = [i \in 1 .. Count - 1 |-> Buffer[Slot(HeadIx, i + 1)]]
  BY <1>2, <1>3 DEF Contents, PopEfikeyBufHead
<1>5. Tail(Contents) = [i \in 1 .. Count - 1 |-> Buffer[Slot(HeadIx, i + 1)]]
  BY <1>1, ContentsIsSeq DEF Contents
<1>6. Head(Contents) = Buffer[HeadIx]
  <2>1. 1 \in 1 .. Count /\ 1 \in 1 .. MaxCount
    BY <1>1, MaxCountAssumption
  <2>2. Slot(HeadIx, 1) = HeadIx
    BY <2>1, SlotWraps, MaxCountAssumption DEF QueueTypeOK, Slots
  <2>3. QED
    BY <2>1, <2>2, ContentsIsSeq DEF Contents
<1>7. QED
  BY <1>4, <1>5, <1>6 DEF PopEfikeyBufHead

\* A push appends its keystroke, after dropping the oldest if the ring is full.
LEMMA PushStep ==
  ASSUME QueueTypeOK, NEW k \in Keys, PushEfikeyBufTail(k)
  PROVE  Contents' = Fifo!Pushed(Contents, k)
<1> DEFINE At(i) == Buffer[Slot(HeadIx, i)]
<1>1. Count \in 0 .. MaxCount - 1 /\ Len(Contents) = Count
  BY CountBounds, ContentsIsSeq
<1>2. CASE ~IsFull
  <2>1. Count' = Count + 1
    <3>1. TailIx' = IF TailIx + 1 = MaxCount THEN 0 ELSE TailIx + 1
      BY NextSlotWraps DEF PushEfikeyBufTail, QueueTypeOK
    <3>2. HeadIx' = HeadIx /\ TailIx' # HeadIx
      BY <1>2 DEF PushEfikeyBufTail, IsFull
    <3>3. QED
      BY <3>1, <3>2, MaxCountAssumption DEF QueueTypeOK, Slots, Count
  <2>2. \A i \in 1 .. Count + 1 :
           Buffer'[Slot(HeadIx', i)] = IF i = Count + 1 THEN k ELSE At(i)
    BY <1>1, <1>2, TailSlot DEF PushEfikeyBufTail, QueueTypeOK
  <2>3. Contents' = [i \in 1 .. Count + 1 |->
                       IF i = Count + 1 THEN k ELSE At(i)]
    BY <2>1, <2>2 DEF Contents
  <2>4. Append(Contents, k) = [i \in 1 .. Count + 1 |->
                                 IF i = Count + 1 THEN k ELSE At(i)]
    BY <1>1, ContentsIsSeq DEF Contents
  <2>5. QED
    BY <1>1, <1>2, <2>3, <2>4, CountBounds DEF Fifo!Pushed
<1>3. CASE IsFull
  <2>1. Count = MaxCount - 1 /\ Count' = Count
    BY <1>3, CountBounds, NextSlotWraps, MaxCountAssumption
       DEF PushEfikeyBufTail, QueueTypeOK, Slots, Count, IsFull
  <2>2. \A i \in 1 .. Count : Slot(HeadIx', i) = Slot(HeadIx, i + 1)
    BY <1>3, <2>1, SlotShift DEF PushEfikeyBufTail, QueueTypeOK
  <2>3. \A i \in 1 .. Count :
           Buffer'[Slot(HeadIx', i)] = IF i = Count THEN k ELSE At(i + 1)
    BY <1>1, <2>2, TailSlot DEF PushEfikeyBufTail, QueueTypeOK
  <2>4. Contents' = [i \in 1 .. Count |-> IF i = Count THEN k ELSE At(i + 1)]
    BY <2>1, <2>3 DEF Contents
  <2>5. /\ Tail(Contents) \in Seq(Keys)
        /\ Len(Tail(Contents)) = Count - 1
        /\ \A i \in 1 .. Count - 1 : Tail(Contents)[i] = At(i + 1)
    BY <1>1, <2>1, ContentsIsSeq, MaxCountAssumption DEF Contents
  <2>6. /\ Append(Tail(Contents), k) \in Seq(Keys)
        /\ Len(Append(Tail(Contents), k)) = Count
        /\ \A i \in 1 .. Count :
              Append(Tail(Contents), k)[i] = IF i = Count THEN k ELSE At(i + 1)
    <3>1. (Count - 1) + 1 = Count /\ Count - 1 \in Nat
      BY <1>1, <2>1, MaxCountAssumption
    <3>2. \A i \in 1 .. Count : i # Count => i \in 1 .. Count - 1
      BY <1>1
    <3>3. /\ Append(Tail(Contents), k) \in Seq(Keys)
          /\ Len(Append(Tail(Contents), k)) = (Count - 1) + 1
          /\ \A i \in 1 .. Count - 1 :
                Append(Tail(Contents), k)[i] = Tail(Contents)[i]
          /\ Append(Tail(Contents), k)[(Count - 1) + 1] = k
      <4>1. /\ Append(Tail(Contents), k) \in Seq(Keys)
            /\ Len(Append(Tail(Contents), k)) = Len(Tail(Contents)) + 1
            /\ \A i \in 1 .. Len(Tail(Contents)) :
                  Append(Tail(Contents), k)[i] = Tail(Contents)[i]
            /\ Append(Tail(Contents), k)[Len(Tail(Contents)) + 1] = k
        BY <2>5, AppendProperties
      <4>2. QED
        BY <2>5, <4>1
    <3>4. QED
      BY <2>5, <3>1, <3>2, <3>3
  <2>7. Contents' \in Seq(Keys) /\ Len(Contents') = Count
    <3>1. \A i \in 1 .. Count : Contents'[i] \in Keys
      <4>1. \A i \in 1 .. Count : i # Count => Slot(HeadIx, i + 1) \in Slots
        <5>1. \A i \in 1 .. Count : i # Count => i + 1 \in 1 .. MaxCount
          BY <1>1, MaxCountAssumption
        <5>2. QED
          BY <5>1, SlotWraps DEF QueueTypeOK
      <4>2. QED
        BY <2>4, <4>1 DEF QueueTypeOK
    <3>2. QED
      BY <1>1, <2>4, <3>1
  <2>8. Contents' = Append(Tail(Contents), k)
    BY <2>4, <2>6, <2>7, SeqEqual
  <2>9. QED
    BY <1>1, <2>1, <2>8 DEF Fifo!Pushed
<1>4. QED
  BY <1>2, <1>3

\* The ring buffer of KeypadTextIn.c implements a FIFO that drops its oldest
\* keystroke when full, whatever KEYPAD_EFI_KEY_MAX_COUNT is.
THEOREM RingImplementsFifo == QueueSpec => ImplementsFifo
<1>1. QueueInit => Fifo!Init
  <2> SUFFICES ASSUME QueueInit PROVE Fifo!Init
    OBVIOUS
  <2>1. QueueTypeOK /\ IsEfikeyBufEmpty
    BY MaxCountAssumption DEF QueueInit, QueueTypeOK, Slots, IsEfikeyBufEmpty
  <2>2. QED
    BY <2>1, ContentsIsSeq DEF QueueInit, Fifo!Init
<1>2. QueueTypeOK /\ QueueTypeOK' /\ [QueueNext]_queueVars => [Fifo!Next]_(Fifo!vars)
  <2> SUFFICES ASSUME QueueTypeOK, QueueTypeOK', [QueueNext]_queueVars
               PROVE  [Fifo!Next]_(Fifo!vars)
    OBVIOUS
  <2>1. ASSUME NEW k \in Keys, PushEfikeyBufTail(k)
        PROVE  Fifo!Push(k)
    BY <2>1, PushStep DEF PushEfikeyBufTail, Fifo!Push
  <2>2. CASE PopEfikeyBufHead /\ ~IsEfikeyBufEmpty
    BY <2>2, PopStep, ContentsIsSeq DEF Fifo!Pop, Fifo!Next
  <2>3. CASE PopEfikeyBufHead /\ IsEfikeyBufEmpty
    BY <2>3, ContentsIsSeq
       DEF PopEfikeyBufHead, Contents, Count, Fifo!PopEmpty, Fifo!Next
  <2>4. CASE ClearQueue
    <3>1. IsEfikeyBufEmpty'
      BY <2>4 DEF ClearQueue, IsEfikeyBufEmpty
    <3>2. Contents' = << >>
      BY <2>4, MaxCountAssumption DEF ClearQueue, Contents, Count
    <3>3. QED
      BY <2>4, <3>2 DEF ClearQueue, Fifo!Clear, Fifo!Next
  <2>5. CASE UNCHANGED queueVars
    BY <2>5 DEF queueVars, Contents, Count, Fifo!vars
  <2>6. QED
    BY <2>1, <2>2, <2>3, <2>4, <2>5 DEF QueueNext, Fifo!Next
<1>3. QED
  BY <1>1, <1>2, TypeCorrect, PTL DEF QueueSpec, ImplementsFifo, Fifo!Spec
=============================================================================
