---------------------------- MODULE EfiKeyQueue ----------------------------
(***************************************************************************)
(* EFI_KEY_QUEUE of KeypadDxe: a ring buffer of KEYPAD_EFI_KEY_MAX_COUNT   *)
(* slots with a Head and a Tail index (Keypad.h).  One slot always stays   *)
(* free, so the queue is full with MaxCount - 1 keystrokes.  Every caller  *)
(* runs at TPL_NOTIFY, which makes each operation one atomic step.         *)
(***************************************************************************)
EXTENDS Naturals, Sequences

CONSTANTS Keys,      \* EFI_KEY_DATA values
          MaxCount,  \* KEYPAD_EFI_KEY_MAX_COUNT
          NotReady   \* EFI_NOT_READY

ASSUME MaxCountAssumption == MaxCount \in Nat /\ MaxCount >= 2

VARIABLES Buffer,    \* Queue->Buffer
          HeadIx,    \* Queue->Head
          TailIx,    \* Queue->Tail
          last       \* history: the last operation and its keystroke

queueVars == <<Buffer, HeadIx, TailIx, last>>

Slots == 0 .. MaxCount - 1

\* Mutant: the index is not wrapped.
NextSlotUnwrapped(i) == i + 1

NextSlot(i) == (i + 1) % MaxCount

IsEfikeyBufEmpty == HeadIx = TailIx

\* Mutant: the full ring is not noticed, and then looks empty.
IsFullNever == FALSE

IsFull == NextSlot(TailIx) = HeadIx

\* InitKeypad only resets the indices; AllocateZeroPool supplies the first
\* contents of the buffer, of which nothing is ever read.
QueueInit ==
  /\ Buffer \in [Slots -> Keys]
  /\ HeadIx = 0
  /\ TailIx = 0
  /\ last = <<"clear", NotReady>>

PopEfikeyBufHead ==
  IF IsEfikeyBufEmpty
    THEN last' = <<"pop", NotReady>> /\ UNCHANGED <<Buffer, HeadIx, TailIx>>
    ELSE /\ last' = <<"pop", Buffer[HeadIx]>>
         /\ HeadIx' = NextSlot(HeadIx)
         /\ UNCHANGED <<Buffer, TailIx>>

PushEfikeyBufTail(k) ==
  /\ HeadIx' = IF IsFull THEN NextSlot(HeadIx) ELSE HeadIx
  /\ Buffer' = [Buffer EXCEPT ![TailIx] = k]
  /\ TailIx' = NextSlot(TailIx)
  /\ last' = <<"push", k>>

ClearQueue ==
  /\ HeadIx' = 0
  /\ TailIx' = 0
  /\ last' = <<"clear", NotReady>>
  /\ UNCHANGED Buffer

QueueNext ==
  \/ \E k \in Keys : PushEfikeyBufTail(k)
  \/ PopEfikeyBufHead
  \/ ClearQueue

QueueSpec == QueueInit /\ [][QueueNext]_queueVars

----------------------------------------------------------------------------
\* The slots in use, as the sequence of keystrokes they stand for.

Count == IF HeadIx <= TailIx THEN TailIx - HeadIx
                             ELSE TailIx - HeadIx + MaxCount

Slot(h, i) == (h + (i - 1)) % MaxCount

Contents == [i \in 1 .. Count |-> Buffer[Slot(HeadIx, i)]]

Fifo == INSTANCE KeyFifo WITH Capacity <- MaxCount - 1, pending <- Contents

\* Indices stay inside the array, whatever is pushed, popped or reset.
QueueTypeOK ==
  /\ Buffer \in [Slots -> Keys]
  /\ HeadIx \in Slots
  /\ TailIx \in Slots
  /\ last \in {"push", "pop", "clear"} \X (Keys \cup {NotReady})

\* The ring buffer behaves like a FIFO that drops its oldest keystroke when
\* it is full: pushes never fail or reorder, pops answer in push order, and
\* a wrapped or full ring never looks empty (KeypadTextIn.c, the three
\* EfikeyBuf functions together with the index reset in InitKeypad).
ImplementsFifo == Fifo!Spec
=============================================================================
