------------------------- MODULE ConSplitterProofs --------------------------
(***************************************************************************)
(* One console over many: for every set of consoles, keystrokes and        *)
(* registrations, keys pass it whole and in order, and every console holds *)
(* the registrations of the list; and over two text outputs with any       *)
(* modes, a mode of the splitter is the same size on each of them.         *)
(***************************************************************************)
EXTENDS ConSplitterTextIn, ConSplitterTextOut, SequenceTheorems, FiniteSetTheorems,
        WellFoundedInduction, TLAPS

-----------------------------------------------------------------------------
(* Numbers.  The induction theorems of the library have an operator as      *)
(* parameter; with a set in its place they follow from the well-foundedness *)
(* of <.                                                                    *)

\* A set of natural numbers has a least element.
LEMMA LeastNumber ==
  ASSUME NEW T \in SUBSET Nat, T # {}
  PROVE  \E m \in T : \A k \in T : m <= k
<1>1. \E R : IsWellFoundedOn(R, Nat) /\ \A x, y \in Nat : <<y, x>> \in R <=> y < x
  <2>1. \A x, y \in Nat : <<y, x>> \in OpToRel(<, Nat) <=> y < x
    BY DEF OpToRel
  <2> QED BY <2>1, NatLessThanWellFounded
<1>2. PICK R : IsWellFoundedOn(R, Nat) /\ \A x, y \in Nat : <<y, x>> \in R <=> y < x
  BY <1>1
<1>3. \E x \in T : \A y \in T : ~ (<<y, x>> \in R)
  BY <1>2, WFMin
<1>4. PICK x \in T : \A y \in T : ~ (<<y, x>> \in R)
  BY <1>3
<1>5. ASSUME NEW k \in T PROVE x <= k
  <2>1. x \in Nat /\ k \in Nat
    OBVIOUS
  <2>2. ~ (k < x)
    BY <1>2, <1>4, <2>1, Zenon
  <2> QED BY <2>1, <2>2
<1> QED BY <1>4, <1>5

\* Induction: a set that has 0 and, with a number, the next, has them all.
LEMMA NumbersBelong ==
  ASSUME NEW T, 0 \in T, \A n \in Nat : n \in T => n + 1 \in T
  PROVE  Nat \subseteq T
<1> SUFFICES ASSUME Nat \ T # {} PROVE FALSE
  OBVIOUS
<1>1. PICK m \in Nat \ T : \A k \in Nat \ T : m <= k
  BY LeastNumber
<1>2. m # 0 /\ m \in Nat
  BY <1>1
<1>3. m - 1 \in Nat /\ ~(m <= m - 1) /\ (m - 1) + 1 = m
  BY <1>2
<1>4. m - 1 \in T
  BY <1>1, <1>3
<1> QED BY <1>1, <1>3, <1>4

-----------------------------------------------------------------------------
(* Sequences.                                                               *)

\* r is what is left of q when its first m elements are gone.
IsRest(r, q, m) ==
  /\ m \in 0 .. Len(q) /\ Len(r) = Len(q) - m
  /\ \A i \in Positions(r) : r[i] = q[i + m]

\* A sequence that is not empty: its head and its tail.
LEMMA TailIsRest ==
  ASSUME NEW S, NEW q \in Seq(S), q # << >>
  PROVE  Tail(q) \in Seq(S) /\ IsRest(Tail(q), q, 1) /\ Head(q) = q[1] /\ 1 \in Positions(q)
<1>1. Len(q) \in Nat /\ Len(q) > 0
  BY EmptySeq, LenProperties
<1>2. Tail(q) \in Seq(S) /\ Len(Tail(q)) = Len(q) - 1
      /\ \A i \in 1 .. Len(q) - 1 : Tail(q)[i] = q[i + 1]
  BY HeadTailProperties
<1>3. Head(q) = q[1]
  OBVIOUS
<1> QED BY <1>1, <1>2, <1>3 DEF IsRest, Positions

\* The whole is a rest.
LEMMA WholeIsRest ==
  ASSUME NEW S, NEW q \in Seq(S)
  PROVE  IsRest(q, q, 0)
BY LenProperties DEF IsRest, Positions

\* Nothing is a rest.
LEMMA NothingIsRest ==
  ASSUME NEW S, NEW q \in Seq(S)
  PROVE  IsRest(<< >>, q, Len(q)) /\ << >> \in Seq(S) /\ Len(<< >>) = 0 /\ Positions(<< >>) = {}
<1>1. Len(q) \in Nat /\ << >> \in Seq(S) /\ Len(<< >>) = 0
  BY EmptySeq, LenProperties
<1> QED BY <1>1 DEF IsRest, Positions

\* A rest of a rest is a rest.
LEMMA RestOfRest ==
  ASSUME NEW S, NEW q \in Seq(S), NEW r \in Seq(S), NEW t \in Seq(S), NEW m, NEW l,
         IsRest(r, q, m), IsRest(t, r, l)
  PROVE  IsRest(t, q, m + l)
<1>1. Len(q) \in Nat /\ Len(r) \in Nat /\ Len(t) \in Nat
  BY LenProperties
<1>2. m \in Nat /\ l \in Nat /\ Len(r) = Len(q) - m /\ Len(t) = Len(r) - l /\ m + l \in 0 .. Len(q)
  BY <1>1 DEF IsRest
<1>3. ASSUME NEW i \in Positions(t) PROVE t[i] = q[i + (m + l)]
  <2>1. i \in Nat /\ i + l \in Positions(r) /\ (i + l) + m = i + (m + l)
    BY <1>1, <1>2, <1>3 DEF Positions
  <2> QED BY <2>1 DEF IsRest
<1> QED BY <1>1, <1>2, <1>3 DEF IsRest

\* What a reader leaves that skips partial keystrokes: the rest of the queue
\* from its first keystroke that is not partial.
LEMMA ReadyIsRest ==
  ASSUME NEW q \in Seq(Key)
  PROVE  /\ Ready(q) \in Seq(Key)
         /\ \E m \in 0 .. Len(q) :
              IsRest(Ready(q), q, m) /\ \A i \in 1 .. m : IsPartial(q[i])
         /\ Ready(q) # << >> => ~IsPartial(Ready(q)[1])
<1> DEFINE real == {i \in Positions(q) : ~IsPartial(q[i])}
<1>1. Len(q) \in Nat /\ real \subseteq 1 .. Len(q) /\ real \subseteq Nat
  BY LenProperties DEF Positions
<1>2. CASE real = {}
  <2>1. Ready(q) = << >>
    BY <1>2 DEF Ready
  <2>2. \A i \in 1 .. Len(q) : IsPartial(q[i])
    BY <1>2 DEF Positions
  <2> QED BY <1>1, <2>1, <2>2, NothingIsRest
<1>3. CASE real # {}
  <2>1. \E i \in real : \A j \in real : i <= j
    BY <1>1, <1>3, LeastNumber
  <2> DEFINE first == CHOOSE i \in real : \A j \in real : i <= j
  <2>2. first \in real /\ \A j \in real : first <= j
    BY <2>1
  <2>3. Ready(q) = SubSeq(q, first, Len(q))
    BY <1>3 DEF Ready
  <2>4. first \in 1 .. Len(q) /\ ~IsPartial(q[first])
    BY <1>1, <2>2
  <2>5. \A i \in 1 .. first - 1 : IsPartial(q[i])
    BY <1>1, <2>2, <2>4 DEF Positions
  <2> HIDE DEF first, real
  <2> DEFINE r == SubSeq(q, first, Len(q))
  <2>6. /\ r \in Seq(Key) /\ Len(r) = Len(q) - first + 1
        /\ \A i \in 1 .. Len(q) - first + 1 : r[i] = q[first + i - 1]
    BY <1>1, <2>4, SubSeqProperties
  <2> HIDE DEF r
  <2>7. IsRest(r, q, first - 1) /\ first - 1 \in 0 .. Len(q)
    BY <1>1, <2>4, <2>6 DEF IsRest, Positions
  <2>8. r[1] = q[first]
    BY <1>1, <2>4, <2>6
  <2> QED BY <2>3, <2>4, <2>5, <2>6, <2>7, <2>8 DEF r
<1> QED BY <1>2, <1>3

-----------------------------------------------------------------------------
(* Keystrokes: their numbers are ordered from the last one read of a        *)
(* console, over those that were saved, to those that wait in it and to the *)
(* last one typed.                                                          *)

WaitingInOrder ==
  \A d \in Devices :
    /\ lastRead[d] <= typed
    /\ \A i \in Positions(pending[d]) :
         /\ pending[d][i].dev = d
         /\ lastRead[d] < pending[d][i].n /\ pending[d][i].n <= typed
    /\ \A i, j \in Positions(pending[d]) : i < j => pending[d][i].n < pending[d][j].n

SavedInOrder ==
  /\ \A i \in Positions(keyQueue) :
       lastRead[keyQueue[i].dev] < keyQueue[i].n /\ keyQueue[i].n <= typed
  /\ \A i, j \in Positions(keyQueue) :
       i < j /\ keyQueue[i].dev = keyQueue[j].dev => keyQueue[i].n < keyQueue[j].n

SavedBeforeWaiting ==
  \A d \in Devices : \A i \in Positions(keyQueue), j \in Positions(pending[d]) :
    keyQueue[i].dev = d => keyQueue[i].n < pending[d][j].n

\* A keystroke that a client is still to get is not partial, and is there.
Waits(n) ==
  \/ \E i \in Positions(keyQueue) : keyQueue[i].n = n /\ ~IsPartial(keyQueue[i])
  \/ \E d \in Devices : \E i \in Positions(pending[d]) :
       pending[d][i].n = n /\ ~IsPartial(pending[d][i])

UnreadWaits == \A n \in unread : Waits(n)

KeyTypes ==
  /\ keyQueue \in Seq(Key) /\ pending \in [Devices -> Seq(Key)]
  /\ typed \in 0 .. MaxKeys /\ unread \subseteq 1 .. MaxKeys
  /\ lastRead \in [Devices -> 0 .. MaxKeys]

KeyOrder == WaitingInOrder /\ SavedInOrder /\ SavedBeforeWaiting

KeyInv == KeyTypes /\ KeyOrder /\ UnreadWaits

\* The rest r of the keystrokes q when the first m are read, or partial and
\* dropped.
Shorter(r, q, m, left) ==
  /\ r \in Seq(Key) /\ IsRest(r, q, m)
  /\ \A i \in 1 .. m : IsPartial(q[i]) \/ q[i].n \notin left

\* Keystrokes are in order when some are taken from the front of their queues,
\* if those that stay are younger than those read last.
LEMMA FewerInOrder ==
  ASSUME KeyTypes, KeyOrder, typed' = typed,
         \A d \in Devices : \E m : IsRest(pending'[d], pending[d], m) /\ pending'[d] \in Seq(Key),
         \E m : IsRest(keyQueue', keyQueue, m), keyQueue' \in Seq(Key),
         \A d \in Devices : lastRead'[d] <= typed,
         \A d \in Devices : \A i \in Positions(pending'[d]) : lastRead'[d] < pending'[d][i].n,
         \A i \in Positions(keyQueue') : lastRead'[keyQueue'[i].dev] < keyQueue'[i].n
  PROVE  KeyOrder'
<1>1. ASSUME NEW d \in Devices
      PROVE  /\ \A i \in Positions(pending'[d]) :
                  pending'[d][i].dev = d /\ pending'[d][i].n <= typed'
             /\ \A i, j \in Positions(pending'[d]) : i < j => pending'[d][i].n < pending'[d][j].n
             /\ \A i \in Positions(pending'[d]) :
                  \E j \in Positions(pending[d]) : pending'[d][i] = pending[d][j]
  <2>1. PICK m : IsRest(pending'[d], pending[d], m) /\ pending'[d] \in Seq(Key)
    OBVIOUS
  <2>2. pending[d] \in Seq(Key) /\ Len(pending[d]) \in Nat /\ Len(pending'[d]) \in Nat
    BY <2>1, LenProperties DEF KeyTypes
  <2>3. m \in Nat /\ Len(pending'[d]) = Len(pending[d]) - m
        /\ \A i \in Positions(pending'[d]) : pending'[d][i] = pending[d][i + m]
    BY <2>1, <2>2 DEF IsRest
  <2>4. \A i \in Positions(pending'[d]) : i + m \in Positions(pending[d]) /\ i \in Nat
    BY <2>2, <2>3 DEF Positions
  <2>5. \A i, j \in Positions(pending'[d]) : i < j => i + m < j + m
    BY <2>3, <2>4
  <2>6. \A i \in Positions(pending'[d]) : pending'[d][i].dev = d /\ pending'[d][i].n <= typed'
    BY SMTT(30), <2>3, <2>4 DEF KeyOrder, WaitingInOrder
  <2>7. ASSUME NEW i \in Positions(pending'[d]), NEW j \in Positions(pending'[d]), i < j
        PROVE  pending'[d][i].n < pending'[d][j].n
    <3>1. pending[d][i + m].n < pending[d][j + m].n
      BY <2>4, <2>5, <2>7 DEF KeyOrder, WaitingInOrder
    <3> QED BY <2>3, <3>1
  <2>8. \A i \in Positions(pending'[d]) :
          \E j \in Positions(pending[d]) : pending'[d][i] = pending[d][j]
    BY <2>3, <2>4
  <2> QED BY <2>6, <2>7, <2>8
<1>2. PICK k : IsRest(keyQueue', keyQueue, k)
  OBVIOUS
<1>3. keyQueue \in Seq(Key) /\ Len(keyQueue) \in Nat /\ Len(keyQueue') \in Nat
  BY LenProperties DEF KeyTypes
<1>4. k \in Nat /\ Len(keyQueue') = Len(keyQueue) - k
      /\ \A i \in Positions(keyQueue') : keyQueue'[i] = keyQueue[i + k]
  BY <1>2, <1>3 DEF IsRest
<1>5. \A i \in Positions(keyQueue') : i + k \in Positions(keyQueue) /\ i \in Nat
  BY <1>3, <1>4 DEF Positions
<1>6. \A i, j \in Positions(keyQueue') : i < j => i + k < j + k
  BY <1>4, <1>5
<1>7. WaitingInOrder'
  BY <1>1 DEF WaitingInOrder
<1>8. SavedInOrder'
  BY <1>4, <1>5, <1>6 DEF KeyOrder, SavedInOrder
<1>9. SavedBeforeWaiting'
  BY <1>1, <1>4, <1>5 DEF KeyOrder, SavedBeforeWaiting
<1> QED BY <1>7, <1>8, <1>9 DEF KeyOrder

\* A keystroke that is still to be read stays when the others go.
LEMMA UnreadStays ==
  ASSUME KeyTypes, UnreadWaits, unread' \subseteq unread,
         \A d \in Devices : \E m : Shorter(pending'[d], pending[d], m, unread'),
         \E m : Shorter(keyQueue', keyQueue, m, unread')
  PROVE  UnreadWaits'
<1> SUFFICES ASSUME NEW n \in unread' PROVE Waits(n)'
  BY DEF UnreadWaits
<1>0. Waits(n)
  BY DEF UnreadWaits
<1>1. ASSUME NEW q \in Seq(Key), NEW r \in Seq(Key), NEW m, Shorter(r, q, m, unread'),
             NEW i \in Positions(q), q[i].n = n, ~IsPartial(q[i])
      PROVE  \E j \in Positions(r) : r[j] = q[i]
  <2>1. Len(q) \in Nat /\ Len(r) \in Nat /\ i \in Nat /\ i \in 1 .. Len(q)
    BY <1>1, LenProperties DEF Positions
  <2>2. m \in Nat /\ Len(r) = Len(q) - m /\ ~(i \in 1 .. m)
    BY <1>1, <2>1 DEF Shorter, IsRest
  <2>3. i - m \in Positions(r) /\ (i - m) + m = i
    BY <2>1, <2>2 DEF Positions
  <2> QED BY <1>1, <2>3 DEF Shorter, IsRest
<1>2. CASE \E i \in Positions(keyQueue) : keyQueue[i].n = n /\ ~IsPartial(keyQueue[i])
  <2>1. PICK i \in Positions(keyQueue) : keyQueue[i].n = n /\ ~IsPartial(keyQueue[i])
    BY <1>2
  <2>2. PICK m : Shorter(keyQueue', keyQueue, m, unread')
    OBVIOUS
  <2>3. keyQueue \in Seq(Key) /\ keyQueue' \in Seq(Key)
    BY <2>2 DEF KeyTypes, Shorter
  <2>4. \E j \in Positions(keyQueue') : keyQueue'[j] = keyQueue[i]
    BY <1>1, <2>1, <2>2, <2>3
  <2> QED BY <2>1, <2>4 DEF Waits, IsPartial
<1>3. CASE \E d \in Devices : \E i \in Positions(pending[d]) :
             pending[d][i].n = n /\ ~IsPartial(pending[d][i])
  <2>0. PICK d \in Devices : \E i \in Positions(pending[d]) :
             pending[d][i].n = n /\ ~IsPartial(pending[d][i])
    BY <1>3
  <2>1. PICK i \in Positions(pending[d]) :
             pending[d][i].n = n /\ ~IsPartial(pending[d][i])
    BY <2>0
  <2>2. PICK m : Shorter(pending'[d], pending[d], m, unread')
    OBVIOUS
  <2>3. pending[d] \in Seq(Key) /\ pending'[d] \in Seq(Key)
    BY <2>2 DEF KeyTypes, Shorter
  <2>4. \E j \in Positions(pending'[d]) : pending'[d][j] = pending[d][i]
    BY <1>1, <2>1, <2>2, <2>3
  <2> QED BY <2>1, <2>4 DEF Waits, IsPartial
<1> QED BY <1>0, <1>2, <1>3 DEF Waits

\* A key of a rest was one of the whole.
LEMMA RestIsPart ==
  ASSUME NEW q \in Seq(Key), NEW r, NEW m, NEW left, Shorter(r, q, m, left)
  PROVE  \A i \in Positions(r) : \E j \in Positions(q) : r[i] = q[j]
<1>1. Len(q) \in Nat /\ Len(r) \in Nat
  BY LenProperties DEF Shorter
<1>2. m \in Nat /\ Len(r) = Len(q) - m /\ \A i \in Positions(r) : r[i] = q[i + m]
  BY <1>1 DEF Shorter, IsRest
<1>3. \A i \in Positions(r) : i + m \in Positions(q)
  BY <1>1, <1>2 DEF Positions
<1> QED BY <1>2, <1>3

\* A key has a console and a number.
LEMMA KeyFields == \A key \in Key : key.dev \in Devices /\ key.n \in 1 .. MaxKeys
BY DEF Key

\* Steps that drop keystrokes, and return none.
LEMMA NothingDelivered ==
  ASSUME KeyInv, typed' = typed, lastRead' = lastRead, unread' \subseteq unread,
         pending' \in [Devices -> Seq(Key)],
         \A d \in Devices : \E m : Shorter(pending'[d], pending[d], m, unread'),
         \E m : Shorter(keyQueue', keyQueue, m, unread')
  PROVE  KeyInv'
<1> USE DEF KeyInv
<1>1. keyQueue' \in Seq(Key) /\ keyQueue \in Seq(Key)
  BY DEF Shorter, KeyTypes
<1>2. KeyTypes'
  BY <1>1 DEF KeyTypes
<1>3. ASSUME NEW d \in Devices
      PROVE  /\ \E m : IsRest(pending'[d], pending[d], m) /\ pending'[d] \in Seq(Key)
             /\ \A i \in Positions(pending'[d]) : lastRead'[d] < pending'[d][i].n
  <2>1. PICK m : Shorter(pending'[d], pending[d], m, unread')
    OBVIOUS
  <2>2. pending[d] \in Seq(Key)
    BY DEF KeyTypes
  <2>3. \A i \in Positions(pending'[d]) : \E j \in Positions(pending[d]) :
           pending'[d][i] = pending[d][j]
    BY <2>1, <2>2, RestIsPart
  <2>4. \A j \in Positions(pending[d]) : lastRead[d] < pending[d][j].n
    BY DEF KeyOrder, WaitingInOrder
  <2> QED BY <2>1, <2>3, <2>4 DEF Shorter
<1>4. PICK k : Shorter(keyQueue', keyQueue, k, unread')
  OBVIOUS
<1>5. \A i \in Positions(keyQueue') : \E j \in Positions(keyQueue) : keyQueue'[i] = keyQueue[j]
  BY <1>1, <1>4, RestIsPart
<1>6. \A i \in Positions(keyQueue') : lastRead'[keyQueue'[i].dev] < keyQueue'[i].n
  BY <1>5 DEF KeyOrder, SavedInOrder
<1>7. \A d \in Devices : lastRead'[d] <= typed
  BY DEF KeyOrder, WaitingInOrder
<1>8. KeyOrder'
  BY <1>1, <1>3, <1>4, <1>6, <1>7, FewerInOrder DEF Shorter
<1>9. UnreadWaits'
  BY UnreadStays
<1> QED BY <1>2, <1>8, <1>9

\* A step that returns a keystroke which is older than all that stay of its
\* console.
LEMMA OneDelivered ==
  ASSUME KeyInv, typed' = typed, NEW key \in Key, Delivered(key), key.n <= typed,
         pending' \in [Devices -> Seq(Key)],
         \A d \in Devices : \E m : Shorter(pending'[d], pending[d], m, unread'),
         \E m : Shorter(keyQueue', keyQueue, m, unread'),
         \A i \in Positions(pending'[key.dev]) : key.n < pending'[key.dev][i].n,
         \A i \in Positions(keyQueue') : keyQueue'[i].dev = key.dev => key.n < keyQueue'[i].n
  PROVE  KeyInv'
<1> USE DEF KeyInv
<1>1. keyQueue' \in Seq(Key) /\ keyQueue \in Seq(Key)
  BY DEF Shorter, KeyTypes
<1>2. /\ unread' \subseteq unread /\ lastRead' \in [Devices -> 0 .. MaxKeys]
      /\ key.dev \in Devices /\ lastRead'[key.dev] = key.n
      /\ \A d \in Devices : d # key.dev => lastRead'[d] = lastRead[d]
  <2>1. key.dev \in Devices /\ key.n \in 0 .. MaxKeys
    BY KeyFields, BoundsAssumption DEF BoundsAssumption
  <2>2. lastRead' = [lastRead EXCEPT ![key.dev] = key.n] /\ unread' = unread \ {key.n}
    BY DEF Delivered
  <2> QED BY <2>1, <2>2 DEF KeyTypes
<1>3. KeyTypes'
  BY <1>1, <1>2 DEF KeyTypes
<1>4. ASSUME NEW d \in Devices
      PROVE  /\ \E m : IsRest(pending'[d], pending[d], m) /\ pending'[d] \in Seq(Key)
             /\ \A i \in Positions(pending'[d]) : lastRead'[d] < pending'[d][i].n
  <2>1. PICK m : Shorter(pending'[d], pending[d], m, unread')
    OBVIOUS
  <2>2. pending[d] \in Seq(Key)
    BY DEF KeyTypes
  <2>3. \A i \in Positions(pending'[d]) : \E j \in Positions(pending[d]) :
           pending'[d][i] = pending[d][j]
    BY <2>1, <2>2, RestIsPart
  <2>4. \A j \in Positions(pending[d]) : lastRead[d] < pending[d][j].n
    BY DEF KeyOrder, WaitingInOrder
  <2>5. CASE d # key.dev
    BY <1>2, <2>1, <2>3, <2>4, <2>5 DEF Shorter
  <2>6. CASE d = key.dev
    BY <1>2, <2>1, <2>6 DEF Shorter
  <2> QED BY <2>5, <2>6
<1>5. PICK k : Shorter(keyQueue', keyQueue, k, unread')
  OBVIOUS
<1>6. \A i \in Positions(keyQueue') : \E j \in Positions(keyQueue) : keyQueue'[i] = keyQueue[j]
  BY <1>1, <1>5, RestIsPart
<1>7. ASSUME NEW i \in Positions(keyQueue')
      PROVE  lastRead'[keyQueue'[i].dev] < keyQueue'[i].n
  <2>1. PICK j \in Positions(keyQueue) : keyQueue'[i] = keyQueue[j]
    BY <1>6
  <2>2. lastRead[keyQueue[j].dev] < keyQueue[j].n
    BY DEF KeyOrder, SavedInOrder
  <2>3. keyQueue[j] \in Key /\ keyQueue[j].dev \in Devices
    BY <1>1, KeyFields, ElementOfSeq DEF Positions
  <2> QED BY <1>2, <2>1, <2>2, <2>3
<1>8. \A d \in Devices : lastRead'[d] <= typed
  BY <1>2 DEF KeyOrder, WaitingInOrder
<1>9. KeyOrder'
  BY <1>1, <1>4, <1>5, <1>7, <1>8, FewerInOrder DEF Shorter
<1>10. UnreadWaits'
  BY <1>2, UnreadStays
<1> QED BY <1>3, <1>9, <1>10

\* Queues that stay as they are.
LEMMA UnchangedIsShorter ==
  ASSUME NEW q \in Seq(Key), NEW left
  PROVE  Shorter(q, q, 0, left)
BY WholeIsRest DEF Shorter

\* Queues that a reader has skipped partial keystrokes of.
LEMMA ReadyIsShorter ==
  ASSUME NEW q \in Seq(Key), NEW left
  PROVE  \E m : Shorter(Ready(q), q, m, left)
BY ReadyIsRest DEF Shorter

\* Queues whose keystrokes are all partial or taken.
LEMMA EmptyIsShorter ==
  ASSUME NEW q \in Seq(Key), NEW left,
         \A i \in Positions(q) : IsPartial(q[i]) \/ q[i].n \notin left
  PROVE  Shorter(<< >>, q, Len(q), left)
BY NothingIsRest DEF Shorter, Positions

-----------------------------------------------------------------------------
(* The loop of ReadKeyStrokeEx over the consoles.                           *)

\* What the loop has collected after i consoles, if f says so for fewer.
CollectedAt(f, i) ==
  IF i = 0 THEN << >>
  ELSE IF pending[exList[i]] = << >> \/ (IsPartial(Head(pending[exList[i]])) /\ ~exported)
    THEN f[i - 1]
  ELSE Append(f[i - 1], Head(pending[exList[i]]))

Collects(f, n) == f = [i \in 0 .. n |-> CollectedAt(f, i)]

\* The loop's turns are a function.
LEMMA LoopCollects == \A n \in Nat : \E f : Collects(f, n)
<1> DEFINE T == {n \in Nat : \E f : Collects(f, n)}
<1>1. 0 \in T
  <2>1. Collects([i \in 0 .. 0 |-> << >>], 0)
    BY DEF Collects, CollectedAt
  <2> QED BY <2>1
<1>2. ASSUME NEW n \in Nat, n \in T PROVE n + 1 \in T
  <2>1. PICK f : Collects(f, n)
    BY <1>2
  <2> DEFINE g == [i \in 0 .. n + 1 |-> IF i = n + 1 THEN CollectedAt(f, i) ELSE f[i]]
  <2>2. ASSUME NEW i \in 0 .. n + 1 PROVE g[i] = CollectedAt(g, i)
    <3>1. CASE i = n + 1
      <4>1. g[i] = CollectedAt(f, i) /\ i # 0 /\ g[i - 1] = f[i - 1]
        BY <3>1
      <4> HIDE DEF g
      <4> QED BY <4>1 DEF CollectedAt
    <3>2. CASE i # n + 1
      <4>1. i \in 0 .. n /\ g[i] = f[i] /\ (i # 0 => g[i - 1] = f[i - 1])
        BY <3>2
      <4>2. f[i] = CollectedAt(f, i)
        BY <2>1, <4>1 DEF Collects
      <4> HIDE DEF g
      <4> QED BY <4>1, <4>2 DEF CollectedAt
    <3> QED BY <3>1, <3>2
  <2>3. g = [i \in 0 .. n + 1 |-> g[i]]
    OBVIOUS
  <2> HIDE DEF g
  <2>4. Collects(g, n + 1)
    BY <2>2, <2>3 DEF Collects
  <2> QED BY <2>4
<1>3. \A n \in Nat : n \in T => n + 1 \in T
  BY <1>2
<1> HIDE DEF T
<1>4. Nat \subseteq T
  BY <1>1, <1>3, NumbersBelong
<1> QED BY <1>4 DEF T

\* Collected is where the loop ends.
LEMMA CollectedIsLast ==
  ASSUME Len(exList) \in Nat
  PROVE  \E f : Collects(f, Len(exList)) /\ Collected = f[Len(exList)]
<1>1. \E f : Collects(f, Len(exList))
  BY LoopCollects
<1> QED BY <1>1 DEF Collected, Collects, CollectedAt

\* A list has each console once.
Distinct(s) == \A i, j \in Positions(s) : s[i] = s[j] => i = j

\* What i turns have collected: first keystrokes of as many consoles, and all
\* that are not partial.
LoopIsRight(s, i) ==
  /\ s \in Seq(Key) /\ Len(s) <= i
  /\ \A a \in Positions(s) : \E j \in 1 .. i :
       pending[exList[j]] # << >> /\ s[a] = Head(pending[exList[j]])
  /\ \A a, b \in Positions(s) : s[a].dev = s[b].dev => a = b
  /\ \A j \in 1 .. i : pending[exList[j]] # << >> /\ ~IsPartial(Head(pending[exList[j]]))
       => \E a \in Positions(s) : s[a] = Head(pending[exList[j]])

\* The first keystroke that waits in a console is that console's.
LEMMA HeadIsOfConsole ==
  ASSUME KeyTypes, WaitingInOrder, NEW d \in Devices, pending[d] # << >>
  PROVE  Head(pending[d]) \in Key /\ Head(pending[d]).dev = d
<1>1. pending[d] \in Seq(Key)
  BY DEF KeyTypes
<1>2. Head(pending[d]) = pending[d][1] /\ 1 \in Positions(pending[d])
  BY <1>1, TailIsRest
<1> QED BY <1>1, <1>2, ElementOfSeq DEF WaitingInOrder, Positions

\* One turn more.
LEMMA TurnIsRight ==
  ASSUME KeyTypes, WaitingInOrder, Distinct(exList), exList \in Seq(Devices),
         NEW i \in Nat, i + 1 <= Len(exList), NEW s, LoopIsRight(s, i), NEW t,
         t = IF pending[exList[i + 1]] = << >>
                \/ (IsPartial(Head(pending[exList[i + 1]])) /\ ~exported)
             THEN s ELSE Append(s, Head(pending[exList[i + 1]]))
  PROVE  LoopIsRight(t, i + 1)
<1> DEFINE d == exList[i + 1]
           key == Head(pending[d])
<1>0. Len(exList) \in Nat /\ i + 1 \in 1 .. Len(exList) /\ d \in Devices
  BY LenProperties, ElementOfSeq
<1>1. CASE pending[d] = << >> \/ (IsPartial(key) /\ ~exported)
  <2>1. t = s
    BY <1>1
  <2> HIDE DEF d, key
  <2>2. \A j \in 1 .. i + 1 : j \in 1 .. i \/ j = i + 1
    OBVIOUS
  <2>3. \A j \in 1 .. i : j \in 1 .. i + 1
    OBVIOUS
  <2>4. Len(s) \in Nat
    BY LenProperties DEF LoopIsRight
  <2>5. \A j \in 1 .. i + 1 : pending[exList[j]] # << >> /\ ~IsPartial(Head(pending[exList[j]]))
          => j \in 1 .. i
    BY <1>1, <2>2 DEF d, key
  <2> QED BY SMTT(30), <2>1, <2>3, <2>4, <2>5 DEF LoopIsRight
<1>2. CASE ~(pending[d] = << >> \/ (IsPartial(key) /\ ~exported))
  <2>1. t = Append(s, key) /\ pending[d] # << >>
    BY <1>2
  <2>2. key \in Key /\ key.dev = d
    BY <1>0, <2>1, HeadIsOfConsole
  <2>3. \A j \in 1 .. i : j # i + 1 /\ j \in 1 .. Len(exList)
    BY <1>0
  <2>4. \A j \in 1 .. i : exList[j] # d /\ exList[j] \in Devices
    BY <1>0, <2>3, ElementOfSeq DEF Distinct, Positions
  <2>5. key = Head(pending[exList[i + 1]]) /\ pending[exList[i + 1]] # << >>
    BY <2>1
  <2> HIDE DEF d, key
  <2>6. s \in Seq(Key) /\ Len(s) \in Nat /\ Len(s) <= i
    BY LenProperties DEF LoopIsRight
  <2>7. /\ t \in Seq(Key) /\ Len(t) = Len(s) + 1
        /\ \A a \in 1 .. Len(s) : t[a] = s[a]
        /\ t[Len(s) + 1] = key
    BY <2>1, <2>2, <2>6, AppendProperties
  <2>8. \A a \in Positions(t) : a \in Positions(s) \/ a = Len(s) + 1
    BY <2>6, <2>7 DEF Positions
  <2>9. \A a \in Positions(s) : a \in Positions(t) /\ t[a] = s[a]
    BY <2>6, <2>7 DEF Positions
  <2>10. Len(s) + 1 \in Positions(t)
    BY <2>6, <2>7 DEF Positions
  <2>11. ASSUME NEW a \in Positions(t)
         PROVE  \E j \in 1 .. i + 1 :
                  pending[exList[j]] # << >> /\ t[a] = Head(pending[exList[j]])
    <3>1. CASE a = Len(s) + 1
      <4>1. i + 1 \in 1 .. i + 1
        OBVIOUS
      <4> QED BY <2>5, <2>7, <3>1, <4>1
    <3>2. CASE a \in Positions(s)
      <4>1. PICK j \in 1 .. i : pending[exList[j]] # << >> /\ s[a] = Head(pending[exList[j]])
        BY <3>2 DEF LoopIsRight
      <4>2. j \in 1 .. i + 1
        OBVIOUS
      <4> QED BY <2>9, <3>2, <4>1, <4>2
    <3> QED BY <2>8, <3>1, <3>2
  <2>12. ASSUME NEW a \in Positions(s) PROVE s[a].dev # d
    <3>1. PICK j \in 1 .. i : pending[exList[j]] # << >> /\ s[a] = Head(pending[exList[j]])
      BY DEF LoopIsRight
    <3>2. s[a].dev = exList[j]
      BY <2>4, <3>1, HeadIsOfConsole
    <3> QED BY <2>4, <3>2
  <2>13. ASSUME NEW a \in Positions(t), NEW b \in Positions(t), t[a].dev = t[b].dev
         PROVE  a = b
    <3>1. CASE a \in Positions(s) /\ b \in Positions(s)
      <4>1. s[a].dev = s[b].dev
        BY <2>9, <2>13, <3>1
      <4> QED BY <3>1, <4>1 DEF LoopIsRight
    <3>2. CASE a = Len(s) + 1 /\ b \in Positions(s)
      BY <2>2, <2>7, <2>9, <2>12, <2>13, <3>2
    <3>3. CASE a \in Positions(s) /\ b = Len(s) + 1
      BY <2>2, <2>7, <2>9, <2>12, <2>13, <3>3
    <3> QED BY <2>8, <3>1, <3>2, <3>3
  <2>14. ASSUME NEW j \in 1 .. i + 1, pending[exList[j]] # << >>,
                ~IsPartial(Head(pending[exList[j]]))
         PROVE  \E a \in Positions(t) : t[a] = Head(pending[exList[j]])
    <3>1. CASE j = i + 1
      BY <2>5, <2>7, <2>10, <3>1
    <3>2. CASE j # i + 1
      <4>1. j \in 1 .. i
        BY <3>2
      <4>2. PICK a \in Positions(s) : s[a] = Head(pending[exList[j]])
        BY <2>14, <4>1 DEF LoopIsRight
      <4> QED BY <2>9, <4>2
    <3> QED BY <3>1, <3>2
  <2>15. Len(t) <= i + 1
    BY <2>6, <2>7
  <2> QED BY <2>7, <2>11, <2>13, <2>14, <2>15 DEF LoopIsRight
<1> QED BY <1>1, <1>2

\* All turns.
LEMMA CollectedIsRight ==
  ASSUME KeyTypes, WaitingInOrder, Distinct(exList), exList \in Seq(Devices)
  PROVE  LoopIsRight(Collected, Len(exList))
<1>0. Len(exList) \in Nat
  BY LenProperties
<1>1. PICK f : Collects(f, Len(exList)) /\ Collected = f[Len(exList)]
  BY <1>0, CollectedIsLast
<1> DEFINE T == {i \in Nat : i <= Len(exList) => LoopIsRight(f[i], i)}
<1>2. \A i \in 0 .. Len(exList) : f[i] = CollectedAt(f, i)
  BY <1>1 DEF Collects
<1>3. 0 \in T
  <2>1. 0 \in 0 .. Len(exList)
    BY <1>0
  <2>2. f[0] = << >>
    BY <1>2, <2>1 DEF CollectedAt
  <2>3. LoopIsRight(<< >>, 0)
    <3>1. << >> \in Seq(Key) /\ Len(<< >>) = 0 /\ Positions(<< >>) = {} /\ 1 .. 0 = {}
      BY EmptySeq DEF Positions
    <3> QED BY <3>1 DEF LoopIsRight
  <2> QED BY <2>2, <2>3
<1>4. ASSUME NEW i \in Nat, i \in T PROVE i + 1 \in T
  <2> SUFFICES ASSUME i + 1 <= Len(exList) PROVE LoopIsRight(f[i + 1], i + 1)
    OBVIOUS
  <2>1. LoopIsRight(f[i], i)
    BY <1>0, <1>4
  <2>2. i + 1 \in 0 .. Len(exList) /\ i + 1 # 0 /\ (i + 1) - 1 = i
    BY <1>0
  <2>3. f[i + 1] = CollectedAt(f, i + 1)
    BY <1>2, <2>2
  <2>4. f[i + 1] = IF pending[exList[i + 1]] = << >>
                      \/ (IsPartial(Head(pending[exList[i + 1]])) /\ ~exported)
                   THEN f[i] ELSE Append(f[i], Head(pending[exList[i + 1]]))
    BY <2>2, <2>3 DEF CollectedAt
  <2> HIDE DEF T
  <2> QED BY <2>1, <2>4, TurnIsRight
<1>5. \A i \in Nat : i \in T => i + 1 \in T
  BY <1>4
<1> HIDE DEF T
<1>6. Nat \subseteq T
  BY <1>3, <1>5, NumbersBelong
<1>7. Len(exList) \in T
  BY <1>0, <1>6
<1> QED BY <1>0, <1>1, <1>7 DEF T

-----------------------------------------------------------------------------
(* The steps, as far as they are about keystrokes.                          *)

\* A keystroke that is taken from behind the partial ones in front.
LEMMA TakenFrom ==
  ASSUME NEW q \in Seq(Key), Ready(q) # << >>, NEW left, Head(Ready(q)).n \notin left
  PROVE  /\ \E m \in Positions(q) : Shorter(Tail(Ready(q)), q, m, left) /\ Head(Ready(q)) = q[m]
         /\ Tail(Ready(q)) \in Seq(Key) /\ Head(Ready(q)) \in Key
<1> DEFINE r == Ready(q)
<1>1. r \in Seq(Key) /\ r # << >>
  BY ReadyIsRest
<1>2. PICK m \in 0 .. Len(q) : IsRest(r, q, m) /\ \A i \in 1 .. m : IsPartial(q[i])
  BY ReadyIsRest
<1> HIDE DEF r
<1>3. Tail(r) \in Seq(Key) /\ IsRest(Tail(r), r, 1) /\ Head(r) = r[1] /\ 1 \in Positions(r)
  BY <1>1, TailIsRest
<1>4. Len(q) \in Nat /\ Len(r) \in Nat
  BY <1>1, LenProperties
<1>5. r[1] = q[1 + m] /\ 1 + m \in Positions(q)
  BY <1>2, <1>3, <1>4 DEF IsRest, Positions
<1>6. IsRest(Tail(r), q, m + 1)
  BY <1>1, <1>2, <1>3, RestOfRest
<1>7. \A i \in 1 .. m + 1 : i \in 1 .. m \/ i = 1 + m
  BY <1>2
<1>8. q[1 + m].n \notin left
  BY <1>3, <1>5 DEF r
<1>9. \A i \in 1 .. m + 1 : IsPartial(q[i]) \/ q[i].n \notin left
  BY <1>2, <1>7, <1>8
<1>10. 1 + m = m + 1
  BY <1>2
<1>11. Shorter(Tail(r), q, m + 1, left)
  BY <1>3, <1>6, <1>9 DEF Shorter
<1>12. q[1 + m] \in Key
  BY <1>5, ElementOfSeq DEF Positions
<1> QED BY <1>3, <1>5, <1>10, <1>11, <1>12 DEF r

\* A keystroke that is taken from the front.
LEMMA TakenFirst ==
  ASSUME NEW q \in Seq(Key), q # << >>, NEW left, Head(q).n \notin left
  PROVE  /\ Shorter(Tail(q), q, 1, left) /\ Head(q) = q[1] /\ 1 \in Positions(q)
         /\ Head(q) \in Key
<1>1. Tail(q) \in Seq(Key) /\ IsRest(Tail(q), q, 1) /\ Head(q) = q[1] /\ 1 \in Positions(q)
  BY TailIsRest
<1>2. Head(q) \in Key
  BY <1>1, ElementOfSeq DEF Positions
<1>3. \A i \in 1 .. 1 : q[i].n \notin left
  BY <1>1
<1> QED BY <1>1, <1>2, <1>3 DEF Shorter

\* What is left of an ordered queue is younger than what was taken.
LEMMA RestIsYounger ==
  ASSUME NEW q \in Seq(Key), NEW r, NEW m \in Positions(q), NEW left, Shorter(r, q, m, left)
  PROVE  \A i \in Positions(r) : \E j \in Positions(q) : m < j /\ r[i] = q[j]
<1>1. Len(q) \in Nat /\ Len(r) \in Nat
  BY LenProperties DEF Shorter
<1>2. m \in Nat /\ Len(r) = Len(q) - m /\ \A i \in Positions(r) : r[i] = q[i + m]
  BY <1>1 DEF Shorter, IsRest, Positions
<1>3. \A i \in Positions(r) : i + m \in Positions(q) /\ m < i + m
  BY <1>1, <1>2 DEF Positions
<1> QED BY <1>2, <1>3

\* A console has a keystroke to read exactly if one of its is not partial.
LEMMA ReadyFinds ==
  ASSUME NEW q \in Seq(Key)
  PROVE  Ready(q) = << >> <=> \A i \in Positions(q) : IsPartial(q[i])
<1>1. PICK m \in 0 .. Len(q) : IsRest(Ready(q), q, m) /\ \A i \in 1 .. m : IsPartial(q[i])
  BY ReadyIsRest
<1>2. Len(q) \in Nat /\ Ready(q) \in Seq(Key)
  BY ReadyIsRest, LenProperties
<1>3. CASE Ready(q) = << >>
  <2>1. Len(Ready(q)) = 0
    BY <1>2, <1>3, EmptySeq
  <2>2. m = Len(q)
    BY <1>1, <1>2, <2>1 DEF IsRest
  <2> QED BY <1>1, <1>3, <2>2 DEF Positions
<1>4. CASE Ready(q) # << >>
  <2>1. 1 \in Positions(Ready(q))
    BY <1>2, <1>4, TailIsRest
  <2>2. Len(Ready(q)) \in Nat
    BY <1>2, LenProperties
  <2>3. 1 + m \in Positions(q) /\ Ready(q)[1] = q[1 + m]
    BY <1>1, <1>2, <2>1, <2>2 DEF IsRest, Positions
  <2>4. ~IsPartial(q[1 + m])
    BY <1>4, <2>3, ReadyIsRest
  <2> QED BY <1>4, <2>3, <2>4
<1> QED BY <1>3, <1>4

\* A console is added.
LEMMA AddKeepsKeys ==
  ASSUME KeyInv, NEW d \in Devices, pending' = [pending EXCEPT ![d] = Ready(@)],
         UNCHANGED <<keyQueue, typed, unread, lastRead>>
  PROVE  KeyInv'
<1>1. pending \in [Devices -> Seq(Key)] /\ keyQueue \in Seq(Key)
  BY DEF KeyInv, KeyTypes
<1>2. Ready(pending[d]) \in Seq(Key)
  BY <1>1, ReadyIsRest
<1>3. pending' \in [Devices -> Seq(Key)]
  BY <1>1, <1>2
<1>4. ASSUME NEW c \in Devices
      PROVE  \E m : Shorter(pending'[c], pending[c], m, unread')
  <2>1. CASE c = d
    <3>1. pending'[c] = Ready(pending[c]) /\ pending[c] \in Seq(Key)
      BY <1>1, <2>1
    <3> QED BY <3>1, ReadyIsShorter
  <2>2. CASE c # d
    <3>1. pending'[c] = pending[c] /\ pending[c] \in Seq(Key)
      BY <1>1, <2>2
    <3> QED BY <3>1, UnchangedIsShorter
  <2> QED BY <2>1, <2>2
<1>5. \E m : Shorter(keyQueue', keyQueue, m, unread')
  BY <1>1, UnchangedIsShorter
<1> QED BY <1>3, <1>4, <1>5, NothingDelivered

\* A console's driver goes.
LEMMA GoneKeepsKeys ==
  ASSUME KeyInv, NEW d \in Devices, DeviceGone(d)
  PROVE  KeyInv'
<1>1. /\ pending \in [Devices -> Seq(Key)] /\ keyQueue \in Seq(Key)
      /\ pending' = [pending EXCEPT ![d] = << >>]
      /\ unread' = unread \ {pending[d][i].n : i \in Positions(pending[d])}
      /\ UNCHANGED <<keyQueue, typed, lastRead>>
  BY DEF KeyInv, KeyTypes, DeviceGone, keys
<1>2. pending' \in [Devices -> Seq(Key)]
  BY <1>1, EmptySeq
<1>3. ASSUME NEW c \in Devices
      PROVE  \E m : Shorter(pending'[c], pending[c], m, unread')
  <2>1. CASE c = d
    <3>1. pending'[c] = << >> /\ pending[c] \in Seq(Key)
      BY <1>1, <2>1
    <3>2. \A i \in Positions(pending[c]) : pending[c][i].n \notin unread'
      BY <1>1, <2>1
    <3> QED BY <3>1, <3>2, EmptyIsShorter
  <2>2. CASE c # d
    <3>1. pending'[c] = pending[c] /\ pending[c] \in Seq(Key)
      BY <1>1, <2>2
    <3> QED BY <3>1, UnchangedIsShorter
  <2> QED BY <2>1, <2>2
<1>4. \E m : Shorter(keyQueue', keyQueue, m, unread')
  BY <1>1, UnchangedIsShorter
<1> QED BY <1>1, <1>2, <1>3, <1>4, NothingDelivered

\* A client waits.
LEMMA WaitKeepsKeys ==
  ASSUME KeyInv, WaitForKey
  PROVE  KeyInv'
<1>1. /\ pending \in [Devices -> Seq(Key)] /\ keyQueue \in Seq(Key)
      /\ pending' = [d \in Devices |->
           IF ~signalled /\ d \in Listed(textInList) THEN Ready(pending[d]) ELSE pending[d]]
      /\ UNCHANGED <<keyQueue, typed, unread, lastRead>>
  BY DEF KeyInv, KeyTypes, WaitForKey
<1>2. ASSUME NEW c \in Devices
      PROVE  pending'[c] \in Seq(Key) /\ \E m : Shorter(pending'[c], pending[c], m, unread')
  <2>1. pending'[c] \in {pending[c], Ready(pending[c])} /\ pending[c] \in Seq(Key)
    BY <1>1
  <2>2. Ready(pending[c]) \in Seq(Key)
    BY <2>1, ReadyIsRest
  <2> QED BY <2>1, <2>2, ReadyIsShorter, UnchangedIsShorter
<1>3. pending' \in [Devices -> Seq(Key)]
  BY <1>1, <1>2
<1>4. \E m : Shorter(keyQueue', keyQueue, m, unread')
  BY <1>1, UnchangedIsShorter
<1> QED BY <1>1, <1>2, <1>3, <1>4, NothingDelivered

\* The consoles are reset, or some of them.
LEMMA ResetKeepsKeys ==
  ASSUME KeyInv, NEW list, NEW broken, Reset(list, broken)
  PROVE  KeyInv' /\ Len(keyQueue') <= Len(keyQueue)
<1> DEFINE cleared == Listed(list) \ broken
           lost == (IF broken = {} THEN Listed(keyQueue) ELSE {}) \cup
                   UNION {Listed(pending[d]) : d \in cleared}
<1>1. /\ pending \in [Devices -> Seq(Key)] /\ keyQueue \in Seq(Key)
      /\ pending' = [d \in Devices |-> IF d \in cleared THEN << >> ELSE pending[d]]
      /\ unread' = unread \ {key.n : key \in lost}
      /\ typed' = typed /\ lastRead' = lastRead
      /\ broken = {} => keyQueue' = << >>
      /\ broken # {} => keyQueue' = keyQueue
  BY DEF KeyInv, KeyTypes, Reset, Read
<1>2. ASSUME NEW c \in cleared, c \in Devices, NEW i \in Positions(pending[c])
      PROVE  pending[c][i].n \notin unread'
  <2>1. pending[c][i] \in Listed(pending[c])
    BY DEF Listed
  <2>2. pending[c][i] \in lost
    BY <1>2, <2>1
  <2> HIDE DEF lost
  <2> QED BY <1>1, <2>2
<1>3. ASSUME broken = {}, NEW i \in Positions(keyQueue)
      PROVE  keyQueue[i].n \notin unread'
  <2>0. keyQueue[i] \in Listed(keyQueue)
    BY DEF Listed
  <2>1. keyQueue[i] \in lost
    BY <1>3, <2>0
  <2> HIDE DEF lost
  <2> QED BY <1>1, <2>1
<1> HIDE DEF lost, cleared
<1>4. ASSUME NEW c \in Devices
      PROVE  pending'[c] \in Seq(Key) /\ \E m : Shorter(pending'[c], pending[c], m, unread')
  <2>1. pending[c] \in Seq(Key)
    BY <1>1
  <2>2. CASE c \in cleared
    <3>1. pending'[c] = << >>
      BY <1>1, <2>2
    <3> QED BY <1>2, <2>1, <2>2, <3>1, EmptyIsShorter, EmptySeq
  <2>3. CASE c \notin cleared
    <3>1. pending'[c] = pending[c]
      BY <1>1, <2>3
    <3> QED BY <2>1, <3>1, UnchangedIsShorter
  <2> QED BY <2>2, <2>3
<1>5. pending' \in [Devices -> Seq(Key)]
  BY <1>1, <1>4
<1>6. \E m : Shorter(keyQueue', keyQueue, m, unread')
  <2>1. CASE broken = {}
    BY <1>1, <1>3, <2>1, EmptyIsShorter
  <2>2. CASE broken # {}
    BY <1>1, <2>2, UnchangedIsShorter
  <2> QED BY <2>1, <2>2
<1>7. unread' \subseteq unread
  BY <1>1
<1>8. KeyInv'
  BY <1>1, <1>4, <1>5, <1>6, <1>7, NothingDelivered
<1>9. Len(keyQueue') <= Len(keyQueue)
  <2>1. Len(keyQueue) \in Nat /\ Len(<< >>) = 0
    BY <1>1, LenProperties, EmptySeq
  <2> QED BY <1>1, <2>1
<1> QED BY <1>8, <1>9

\* Somebody types.
LEMMA TypingKeepsKeys ==
  ASSUME KeyInv, NEW d \in Devices, NEW code \in Codes \cup {Partial}, KeyTyped(d, code)
  PROVE  KeyInv'
<1> DEFINE key == [dev |-> d, code |-> code, n |-> typed + 1]
<1>1. /\ pending \in [Devices -> Seq(Key)] /\ keyQueue \in Seq(Key)
      /\ typed \in 0 .. MaxKeys /\ unread \subseteq 1 .. MaxKeys
      /\ lastRead \in [Devices -> 0 .. MaxKeys] /\ MaxKeys \in Nat
  BY BoundsAssumption DEF KeyInv, KeyTypes, BoundsAssumption
<1>2. /\ typed < MaxKeys /\ typed' = typed + 1
      /\ pending' = [pending EXCEPT ![d] = Append(pending[d], key)]
      /\ unread' = IF code = Partial THEN unread ELSE unread \cup {typed + 1}
      /\ keyQueue' = keyQueue /\ lastRead' = lastRead
  BY DEF KeyTyped, keys
<1>3. typed' \in 0 .. MaxKeys /\ typed + 1 \in 1 .. MaxKeys
  BY <1>1, <1>2
<1>4. key \in Key /\ key.n = typed + 1 /\ key.dev = d /\ (IsPartial(key) <=> code = Partial)
  BY <1>3 DEF Key, IsPartial
<1> HIDE DEF key
<1>5. /\ Append(pending[d], key) \in Seq(Key) /\ Len(pending[d]) \in Nat
      /\ Len(Append(pending[d], key)) = Len(pending[d]) + 1
      /\ \A i \in 1 .. Len(pending[d]) : Append(pending[d], key)[i] = pending[d][i]
      /\ Append(pending[d], key)[Len(pending[d]) + 1] = key
  BY <1>1, <1>4, AppendProperties, LenProperties
<1>6. /\ pending' \in [Devices -> Seq(Key)] /\ pending'[d] = Append(pending[d], key)
      /\ \A c \in Devices : c # d => pending'[c] = pending[c]
  BY <1>1, <1>2, <1>5
<1>7. /\ \A i \in Positions(pending'[d]) : i \in Positions(pending[d]) \/ i = Len(pending[d]) + 1
      /\ \A i \in Positions(pending[d]) :
           i \in Positions(pending'[d]) /\ pending'[d][i] = pending[d][i] /\ i < Len(pending[d]) + 1
      /\ Len(pending[d]) + 1 \in Positions(pending'[d])
      /\ pending'[d][Len(pending[d]) + 1] = key
      /\ \A i \in Positions(pending'[d]) : i <= Len(pending[d]) + 1 /\ i \in Nat
  BY <1>5, <1>6 DEF Positions
<1>8. KeyTypes'
  BY <1>1, <1>2, <1>3, <1>6 DEF KeyTypes
<1>9. ASSUME NEW c \in Devices
      PROVE  /\ lastRead'[c] <= typed'
             /\ \A i \in Positions(pending'[c]) :
                  /\ pending'[c][i].dev = c
                  /\ lastRead'[c] < pending'[c][i].n /\ pending'[c][i].n <= typed'
             /\ \A i, j \in Positions(pending'[c]) : i < j => pending'[c][i].n < pending'[c][j].n
  <2>1. /\ lastRead[c] <= typed /\ lastRead[c] \in Nat
        /\ \A i \in Positions(pending[c]) :
             /\ pending[c][i].dev = c
             /\ lastRead[c] < pending[c][i].n /\ pending[c][i].n <= typed
        /\ \A i, j \in Positions(pending[c]) : i < j => pending[c][i].n < pending[c][j].n
    BY <1>1 DEF KeyInv, KeyOrder, WaitingInOrder
  <2>2. \A i \in Positions(pending[c]) : pending[c][i] \in Key
    BY <1>1, ElementOfSeq DEF Positions
  <2>3. \A i \in Positions(pending[c]) : pending[c][i].n \in Nat
    BY <1>1, <2>2, KeyFields
  <2>4. CASE c # d
    <3>1. \A n \in Nat : n <= typed => n <= typed'
      BY <1>1, <1>2
    <3> QED BY <1>2, <1>6, <2>1, <2>3, <2>4, <3>1
  <2>5. CASE c = d
    <3>0. /\ lastRead[d] <= typed /\ lastRead[d] \in Nat /\ typed \in Nat
          /\ \A i \in Positions(pending[d]) :
               /\ pending[d][i].dev = d /\ pending[d][i].n \in Nat
               /\ lastRead[d] < pending[d][i].n /\ pending[d][i].n <= typed
          /\ \A i, j \in Positions(pending[d]) : i < j => pending[d][i].n < pending[d][j].n
      BY <1>1, <2>1, <2>3, <2>5
    <3>1. ASSUME NEW i \in Positions(pending'[d])
          PROVE  /\ pending'[d][i].dev = d
                 /\ lastRead[d] < pending'[d][i].n /\ pending'[d][i].n <= typed + 1
      <4>1. CASE i = Len(pending[d]) + 1
        <5>1. pending'[d][i] = key /\ lastRead[d] < typed + 1 /\ typed + 1 <= typed + 1
          BY <1>7, <3>0, <4>1
        <5> QED BY <1>4, <5>1
      <4>2. CASE i \in Positions(pending[d])
        <5>1. pending'[d][i] = pending[d][i]
          BY <1>7, <4>2
        <5>2. \A n \in Nat : n <= typed => n <= typed + 1
          BY <3>0
        <5> QED BY <3>0, <4>2, <5>1, <5>2
      <4> QED BY <1>7, <4>1, <4>2
    <3>2. ASSUME NEW i \in Positions(pending'[d]), NEW j \in Positions(pending'[d]), i < j
          PROVE  pending'[d][i].n < pending'[d][j].n
      <4>1. i # Len(pending[d]) + 1
        BY <1>5, <1>7, <3>2
      <4>2. i \in Positions(pending[d])
        BY <1>7, <4>1
      <4>3. pending'[d][i] = pending[d][i]
        BY <1>7, <4>2
      <4>4. CASE j = Len(pending[d]) + 1
        <5>1. pending[d][i].n < typed + 1
          BY <3>0, <4>2
        <5> QED BY <1>4, <1>7, <4>3, <4>4, <5>1
      <4>5. CASE j \in Positions(pending[d])
        <5>1. pending'[d][j] = pending[d][j]
          BY <1>7, <4>5
        <5> QED BY <3>0, <3>2, <4>2, <4>3, <4>5, <5>1
      <4> QED BY <1>7, <4>4, <4>5
    <3>3. lastRead[d] <= typed + 1
      BY <1>1, <2>1, <2>5
    <3> QED BY <1>2, <2>5, <3>1, <3>2, <3>3
  <2> QED BY <2>4, <2>5
<1>10. WaitingInOrder'
  BY <1>9 DEF WaitingInOrder
<1>11. \A i \in Positions(keyQueue) : keyQueue[i] \in Key /\ keyQueue[i].n \in Nat
  BY <1>1, ElementOfSeq, KeyFields DEF Positions
<1>12. SavedInOrder'
  BY <1>1, <1>2, <1>11 DEF KeyInv, KeyOrder, SavedInOrder
<1>13. ASSUME NEW c \in Devices, NEW i \in Positions(keyQueue), NEW j \in Positions(pending'[c]),
              keyQueue[i].dev = c
       PROVE  keyQueue[i].n < pending'[c][j].n
  <2>1. CASE c = d /\ j = Len(pending[d]) + 1
    <3>1. keyQueue[i].n <= typed
      BY DEF KeyInv, KeyOrder, SavedInOrder
    <3>2. keyQueue[i].n < typed + 1
      BY <1>1, <1>11, <3>1
    <3>3. pending'[c][j] = key
      BY <1>7, <2>1
    <3> QED BY <1>4, <3>2, <3>3
  <2>2. CASE ~(c = d /\ j = Len(pending[d]) + 1)
    <3>1. j \in Positions(pending[c]) /\ pending'[c][j] = pending[c][j]
      BY <1>6, <1>7, <1>13, <2>2
    <3> QED BY <1>13, <3>1 DEF KeyInv, KeyOrder, SavedBeforeWaiting
  <2> QED BY <2>1, <2>2
<1>14. SavedBeforeWaiting'
  BY <1>2, <1>13 DEF SavedBeforeWaiting
<1>15. ASSUME NEW n \in unread' PROVE Waits(n)'
  <2>1. CASE n \in unread
    <3>1. Waits(n)
      BY <2>1 DEF KeyInv, UnreadWaits
    <3>2. \A c \in Devices : \A i \in Positions(pending[c]) :
            i \in Positions(pending'[c]) /\ pending'[c][i] = pending[c][i]
      BY <1>6, <1>7
    <3>3. CASE \E i \in Positions(keyQueue) : keyQueue[i].n = n /\ ~IsPartial(keyQueue[i])
      BY <1>2, <3>3 DEF Waits, IsPartial
    <3>4. CASE \E c \in Devices : \E i \in Positions(pending[c]) :
                 pending[c][i].n = n /\ ~IsPartial(pending[c][i])
      <4>1. PICK c \in Devices : \E i \in Positions(pending[c]) :
              pending[c][i].n = n /\ ~IsPartial(pending[c][i])
        BY <3>4
      <4>2. PICK i \in Positions(pending[c]) : pending[c][i].n = n /\ ~IsPartial(pending[c][i])
        BY <4>1
      <4>3. i \in Positions(pending'[c]) /\ pending'[c][i] = pending[c][i]
        BY <3>2
      <4> QED BY <4>2, <4>3 DEF Waits, IsPartial
    <3> QED BY <3>1, <3>3, <3>4 DEF Waits
  <2>2. CASE n \notin unread
    <3>1. n = typed + 1 /\ code # Partial
      BY <1>2, <1>15, <2>2
    <3> QED BY <1>4, <1>7, <3>1 DEF Waits, IsPartial
  <2> QED BY <2>1, <2>2
<1>16. UnreadWaits'
  BY <1>15 DEF UnreadWaits
<1> QED BY <1>8, <1>10, <1>12, <1>14, <1>16 DEF KeyInv, KeyOrder

\* A rest is not longer than the whole.
LEMMA ShorterIsNotLonger ==
  ASSUME NEW q \in Seq(Key), NEW r, NEW m, NEW left, Shorter(r, q, m, left)
  PROVE  Len(r) <= Len(q)
<1>1. Len(q) \in Nat /\ Len(r) \in Nat
  BY LenProperties DEF Shorter
<1> QED BY <1>1 DEF Shorter, IsRest

\* The consoles that are passed over have nothing to read, and the one after
\* them does.
LEMMA PassedIsRight ==
  ASSUME textInList \in Seq(Devices)
  PROVE  /\ Passed \in 0 .. Len(textInList)
         /\ \A j \in 1 .. Passed : ~HasKey(textInList[j])
         /\ Passed < Len(textInList) => HasKey(textInList[Passed + 1])
<1>0. Len(textInList) \in Nat
  BY LenProperties
<1> DEFINE T == {i \in 0 .. Len(textInList) :
                   i < Len(textInList) => HasKey(textInList[i + 1])}
<1>1. Len(textInList) \in T /\ T \subseteq Nat
  BY <1>0
<1>2. PICK m \in T : \A k \in T : m <= k
  BY <1>1, LeastNumber
<1>3. ASSUME NEW j \in 1 .. m PROVE ~HasKey(textInList[j])
  <2>1. j - 1 \in 0 .. Len(textInList) /\ ~(m <= j - 1) /\ (j - 1) + 1 = j
    BY <1>0, <1>2
  <2>2. j - 1 \notin T
    BY <1>2, <2>1
  <2> QED BY <2>1, <2>2
<1>4. m \in 0 .. Len(textInList) /\ (m < Len(textInList) => HasKey(textInList[m + 1]))
  BY <1>2
<1> QED BY <1>3, <1>4 DEF Passed

\* The consoles are asked one after the other.
LEMMA ConsolesKeepKeys ==
  ASSUME KeyInv, textInList \in Seq(Devices), ReadConsoles, typed' = typed,
         keyQueue' = << >>, \A i \in Positions(keyQueue) : IsPartial(keyQueue[i])
  PROVE  KeyInv'
<1>1. /\ pending \in [Devices -> Seq(Key)] /\ keyQueue \in Seq(Key)
      /\ pending' = [d \in Devices |->
           IF \E j \in 1 .. Passed : d = textInList[j] THEN << >>
           ELSE IF Passed < Len(textInList) /\ d = textInList[Passed + 1]
             THEN Tail(Ready(pending[d])) ELSE pending[d]]
      /\ IF Passed < Len(textInList)
           THEN Delivered(Head(Ready(pending[textInList[Passed + 1]]))) ELSE NotReady
  BY DEF KeyInv, KeyTypes, ReadConsoles
<1>2. PICK n : n = Passed
  OBVIOUS
<1>3. PICK c : c = textInList[n + 1]
  OBVIOUS
<1>4. /\ Len(textInList) \in Nat /\ n \in 0 .. Len(textInList)
      /\ \A j \in 1 .. n : ~HasKey(textInList[j])
      /\ n < Len(textInList) => HasKey(c)
  BY <1>2, <1>3, PassedIsRight, LenProperties
<1>5. ASSUME NEW d \in Devices
      PROVE  /\ (\E j \in 1 .. n : d = textInList[j]) => ~HasKey(d) /\ pending'[d] = << >>
             /\ ~(\E j \in 1 .. n : d = textInList[j]) /\ n < Len(textInList) /\ d = c
                  => pending'[d] = Tail(Ready(pending[d]))
             /\ ~(\E j \in 1 .. n : d = textInList[j]) /\ ~(n < Len(textInList) /\ d = c)
                  => pending'[d] = pending[d]
  BY <1>1, <1>2, <1>3, <1>4
<1>6. ASSUME NEW d \in Devices, pending'[d] # Tail(Ready(pending[d])) \/ d # c
      \/ n >= Len(textInList)
      PROVE  pending'[d] \in Seq(Key) /\ \E m : Shorter(pending'[d], pending[d], m, unread')
  <2>0. pending[d] \in Seq(Key)
    BY <1>1
  <2>1. CASE \E j \in 1 .. n : d = textInList[j]
    <3>1. pending'[d] = << >> /\ Ready(pending[d]) = << >>
      BY <1>5, <2>1 DEF HasKey
    <3> QED BY <2>0, <3>1, ReadyFinds, EmptyIsShorter, EmptySeq
  <2>2. CASE ~(\E j \in 1 .. n : d = textInList[j])
    <3>1. ~(n < Len(textInList) /\ d = c)
      BY <1>4, <1>5, <1>6, <2>2
    <3>2. pending'[d] = pending[d]
      BY <1>5, <2>2, <3>1
    <3> QED BY <2>0, <3>2, UnchangedIsShorter
  <2> QED BY <2>1, <2>2
<1>7. \E m : Shorter(keyQueue', keyQueue, m, unread')
  BY <1>1, EmptyIsShorter
<1>8. CASE n = Len(textInList)
  <2>1. unread' = unread /\ lastRead' = lastRead
    BY <1>1, <1>2, <1>4, <1>8 DEF NotReady
  <2>2. \A d \in Devices :
          pending'[d] \in Seq(Key) /\ \E m : Shorter(pending'[d], pending[d], m, unread')
    BY <1>4, <1>6, <1>8
  <2>3. pending' \in [Devices -> Seq(Key)]
    BY <1>1, <2>2
  <2> QED BY <1>7, <2>1, <2>2, <2>3, NothingDelivered
<1>9. CASE n < Len(textInList)
  <2>1. c \in Devices
    BY <1>3, <1>4, <1>9, ElementOfSeq
  <2>2. HasKey(c) /\ ~(\E j \in 1 .. n : c = textInList[j])
    BY <1>4, <1>9
  <2> DEFINE q == pending[c]
             key == Head(Ready(q))
  <2>3. q \in Seq(Key) /\ Ready(q) # << >>
    BY <1>1, <2>1, <2>2 DEF HasKey
  <2>4. Delivered(key)
    BY <1>1, <1>2, <1>3, <1>9
  <2>5. pending'[c] = Tail(Ready(q))
    BY <1>5, <1>9, <2>1, <2>2
  <2>6. key.n \notin unread'
    BY <2>4 DEF Delivered
  <2>7. PICK m \in Positions(q) : Shorter(pending'[c], q, m, unread') /\ key = q[m]
    BY <2>3, <2>5, <2>6, TakenFrom
  <2>8. pending'[c] \in Seq(Key) /\ key \in Key
    BY <2>3, <2>5, <2>6, TakenFrom
  <2> HIDE DEF key
  <2>9. \A d \in Devices :
          pending'[d] \in Seq(Key) /\ \E l : Shorter(pending'[d], pending[d], l, unread')
    BY <1>6, <2>7, <2>8
  <2>10. pending' \in [Devices -> Seq(Key)]
    BY <1>1, <2>9
  <2>11. key.dev = c /\ key.n <= typed
         /\ \A i, j \in Positions(q) : i < j => q[i].n < q[j].n
    BY <2>1, <2>7 DEF KeyInv, KeyOrder, WaitingInOrder
  <2>12. \A i \in Positions(pending'[c]) : \E j \in Positions(q) : m < j /\ pending'[c][i] = q[j]
    BY <2>3, <2>7, RestIsYounger
  <2> HIDE DEF q
  <2>13. \A i \in Positions(pending'[key.dev]) : key.n < pending'[key.dev][i].n
    BY <2>7, <2>11, <2>12
  <2>14. Positions(keyQueue') = {}
    BY NothingIsRest
  <2> QED BY <1>7, <2>4, <2>8, <2>9, <2>10, <2>11, <2>13, <2>14, OneDelivered
<1> QED BY <1>4, <1>8, <1>9

\* A keystroke is read.
LEMMA ReadKeepsKeys ==
  ASSUME KeyInv, textInList \in Seq(Devices), ReadKeyStroke
  PROVE  KeyInv' /\ Len(keyQueue') <= Len(keyQueue)
<1>1. /\ pending \in [Devices -> Seq(Key)] /\ keyQueue \in Seq(Key) /\ typed' = typed
      /\ IF Ready(keyQueue) # << >>
           THEN /\ keyQueue' = Tail(Ready(keyQueue))
                /\ Delivered(Head(Ready(keyQueue)))
                /\ pending' = pending
           ELSE keyQueue' = << >> /\ ReadConsoles
  BY DEF KeyInv, KeyTypes, ReadKeyStroke, Read
<1>2. CASE Ready(keyQueue) # << >>
  <2> DEFINE key == Head(Ready(keyQueue))
  <2>1. keyQueue' = Tail(Ready(keyQueue)) /\ Delivered(key) /\ pending' = pending
    BY <1>1, <1>2
  <2>2. key.n \notin unread'
    BY <2>1 DEF Delivered
  <2>3. PICK m \in Positions(keyQueue) :
          Shorter(keyQueue', keyQueue, m, unread') /\ key = keyQueue[m]
    BY <1>1, <1>2, <2>1, <2>2, TakenFrom
  <2>4. key \in Key
    BY <1>1, <1>2, <2>2, TakenFrom
  <2> HIDE DEF key
  <2>5. \A d \in Devices : \E l : Shorter(pending'[d], pending[d], l, unread')
    BY <1>1, <2>1, UnchangedIsShorter
  <2>6. key.n <= typed /\ key.dev \in Devices
    BY <2>3, <2>4, KeyFields DEF KeyInv, KeyOrder, SavedInOrder
  <2>7. \A i \in Positions(pending'[key.dev]) : key.n < pending'[key.dev][i].n
    BY <2>1, <2>3, <2>6 DEF KeyInv, KeyOrder, SavedBeforeWaiting
  <2>8. \A i \in Positions(keyQueue') : \E j \in Positions(keyQueue) : m < j
        /\ keyQueue'[i] = keyQueue[j]
    BY <1>1, <2>3, RestIsYounger
  <2>9. \A i \in Positions(keyQueue') : keyQueue'[i].dev = key.dev => key.n < keyQueue'[i].n
    BY <2>3, <2>8 DEF KeyInv, KeyOrder, SavedInOrder
  <2>10. KeyInv'
    BY <1>1, <2>1, <2>3, <2>4, <2>5, <2>6, <2>7, <2>9, OneDelivered
  <2> QED BY <1>1, <2>3, <2>10, ShorterIsNotLonger
<1>3. CASE Ready(keyQueue) = << >>
  <2>1. keyQueue' = << >> /\ ReadConsoles
    BY <1>1, <1>3
  <2>2. \A i \in Positions(keyQueue) : IsPartial(keyQueue[i])
    BY <1>1, <1>3, ReadyFinds
  <2>3. Len(<< >>) = 0 /\ Len(keyQueue) \in Nat
    BY <1>1, LenProperties, EmptySeq
  <2> QED BY <1>1, <2>1, <2>2, <2>3, ConsolesKeepKeys
<1> QED BY <1>2, <1>3

\* What is left of a console's keystrokes is the console's, and in order.
LEMMA RestIsOfConsole ==
  ASSUME KeyTypes, WaitingInOrder, NEW d \in Devices, NEW r, NEW m, NEW left,
         Shorter(r, pending[d], m, left)
  PROVE  /\ \A i \in Positions(r) :
              /\ r[i].dev = d /\ lastRead[d] < r[i].n /\ r[i].n <= typed
              /\ m >= 1 => pending[d][1].n < r[i].n
         /\ \A i, j \in Positions(r) : i < j => r[i].n < r[j].n
<1> DEFINE q == pending[d]
<1>1. /\ \A i \in Positions(q) : q[i].dev = d /\ lastRead[d] < q[i].n /\ q[i].n <= typed
      /\ \A i, j \in Positions(q) : i < j => q[i].n < q[j].n
  BY DEF WaitingInOrder
<1>2. q \in Seq(Key) /\ Shorter(r, q, m, left)
  BY DEF KeyTypes
<1> HIDE DEF q
<1>3. Len(q) \in Nat /\ Len(r) \in Nat
  BY <1>2, LenProperties DEF Shorter
<1>4. m \in Nat /\ Len(r) = Len(q) - m /\ \A i \in Positions(r) : r[i] = q[i + m]
  BY <1>2, <1>3 DEF Shorter, IsRest
<1>5. \A i \in Positions(r) :
        /\ i + m \in Positions(q) /\ i \in Nat
        /\ m >= 1 => 1 \in Positions(q) /\ 1 < i + m
  BY <1>3, <1>4 DEF Positions
<1>6. \A i, j \in Positions(r) : i < j => i + m < j + m
  BY <1>4, <1>5
<1>7. \A i \in Positions(r) : m >= 1 => q[1].n < r[i].n
  BY <1>1, <1>4, <1>5
<1>8. \A i \in Positions(r) : r[i].dev = d /\ lastRead[d] < r[i].n /\ r[i].n <= typed
  BY <1>1, <1>4, <1>5
<1>9. \A i, j \in Positions(r) : i < j => r[i].n < r[j].n
  BY <1>1, <1>4, <1>5, <1>6
<1> QED BY <1>7, <1>8, <1>9 DEF q

\* A key is taken from what one turn round the Ex consoles has collected; the
\* rest is saved.
LEMMA TurnKeepsKeys ==
  ASSUME KeyInv, Distinct(exList), exList \in Seq(Devices), keyQueue = << >>,
         typed' = typed, Collected # << >>, Delivered(Head(Collected)),
         keyQueue' = Tail(Collected),
         pending' = [d \in Devices |->
           IF d \in Listed(exList) /\ pending[d] # << >> THEN Tail(pending[d])
           ELSE pending[d]]
  PROVE  KeyInv'
<1>1. PICK C : C = Collected
  OBVIOUS
<1>2. LoopIsRight(C, Len(exList))
  BY <1>1, CollectedIsRight DEF KeyInv, KeyOrder
<1>3. PICK key : key = C[1]
  OBVIOUS
<1>4. C \in Seq(Key) /\ C # << >> /\ keyQueue' = Tail(C)
  BY <1>1, <1>2 DEF LoopIsRight
<1>5. /\ Tail(C) \in Seq(Key) /\ IsRest(Tail(C), C, 1) /\ Head(C) = key /\ 1 \in Positions(C)
      /\ Len(C) \in Nat /\ Len(Tail(C)) \in Nat
  BY <1>3, <1>4, TailIsRest, LenProperties
<1>6. /\ Delivered(key)
      /\ \A i \in Positions(keyQueue') : i + 1 \in Positions(C) /\ i + 1 # 1
        /\ keyQueue'[i] = C[i + 1]
      /\ \A i \in Positions(C) : i # 1 =>
           i - 1 \in Positions(keyQueue') /\ keyQueue'[i - 1] = C[i]
  BY <1>1, <1>4, <1>5 DEF IsRest, Positions
<1>7. ASSUME NEW a \in Positions(C)
      PROVE  /\ C[a] \in Key /\ C[a].dev \in Devices
             /\ C[a].dev \in Listed(exList)
             /\ pending[C[a].dev] # << >> /\ C[a] = pending[C[a].dev][1]
             /\ 1 \in Positions(pending[C[a].dev])
  <2>1. PICK j \in 1 .. Len(exList) : pending[exList[j]] # << >> /\ C[a] = Head(pending[exList[j]])
    BY <1>2 DEF LoopIsRight
  <2>2. exList[j] \in Devices /\ exList[j] \in Listed(exList)
    BY <2>1, ElementOfSeq DEF Listed, Positions
  <2>3. C[a] \in Key /\ C[a].dev = exList[j]
    BY <2>1, <2>2, HeadIsOfConsole DEF KeyInv, KeyOrder
  <2>4. pending[exList[j]] \in Seq(Key)
    BY <2>2 DEF KeyInv, KeyTypes
  <2>5. Head(pending[exList[j]]) = pending[exList[j]][1] /\ 1 \in Positions(pending[exList[j]])
    BY <2>1, <2>4, TailIsRest
  <2> QED BY <2>1, <2>2, <2>3, <2>5
<1>8. \A a, b \in Positions(C) : C[a].dev = C[b].dev => a = b
  BY <1>2 DEF LoopIsRight
<1>9. ASSUME NEW d \in Devices, d \in Listed(exList), pending[d] # << >>, ~IsPartial(pending[d][1])
      PROVE  \E a \in Positions(C) : C[a] = pending[d][1]
  <2>1. PICK j \in 1 .. Len(exList) : d = exList[j]
    BY <1>9 DEF Listed, Positions
  <2>2. Head(pending[d]) = pending[d][1]
    BY <1>9
  <2> QED BY <1>2, <1>9, <2>1, <2>2 DEF LoopIsRight
<1>10. /\ key.dev \in Devices /\ key \in Key /\ key = pending[key.dev][1]
       /\ key.n \in 1 .. MaxKeys /\ key.n <= typed
  <2>1. key.dev \in Devices /\ key \in Key /\ key = pending[key.dev][1]
        /\ 1 \in Positions(pending[key.dev])
    BY <1>3, <1>5, <1>7
  <2> QED BY <2>1, KeyFields DEF KeyInv, KeyOrder, WaitingInOrder
<1>11. /\ unread' = unread \ {key.n}
       /\ lastRead' = [lastRead EXCEPT ![key.dev] = key.n]
  BY <1>6 DEF Delivered
<1>12. /\ lastRead' \in [Devices -> 0 .. MaxKeys] /\ lastRead'[key.dev] = key.n
       /\ \A d \in Devices : d # key.dev => lastRead'[d] = lastRead[d]
  BY <1>10, <1>11 DEF KeyInv, KeyTypes
<1>13. ASSUME NEW d \in Devices
       PROVE  /\ d \in Listed(exList) /\ pending[d] # << >>
                 => Shorter(pending'[d], pending[d], 1, {})
              /\ ~(d \in Listed(exList) /\ pending[d] # << >>) =>
                   pending'[d] = pending[d] /\ Shorter(pending'[d], pending[d], 0, {})
              /\ pending'[d] \in Seq(Key)
  <2>1. pending[d] \in Seq(Key)
    BY DEF KeyInv, KeyTypes
  <2>2. CASE d \in Listed(exList) /\ pending[d] # << >>
    <3>1. pending'[d] = Tail(pending[d])
      BY <2>2
    <3>2. Tail(pending[d]) \in Seq(Key) /\ IsRest(Tail(pending[d]), pending[d], 1)
      BY <2>1, <2>2, TailIsRest
    <3> QED BY <2>2, <3>1, <3>2 DEF Shorter
  <2>3. CASE ~(d \in Listed(exList) /\ pending[d] # << >>)
    <3>1. pending'[d] = pending[d]
      BY <2>3
    <3> QED BY <2>1, <2>3, <3>1, UnchangedIsShorter
  <2> QED BY <2>2, <2>3
<1>14. KeyTypes'
  <2>1. pending' \in [Devices -> Seq(Key)]
    BY <1>13
  <2> QED BY <1>4, <1>5, <1>11, <1>12, <2>1 DEF KeyInv, KeyTypes
<1>15. ASSUME NEW d \in Devices
       PROVE  /\ lastRead'[d] <= typed'
              /\ \A i \in Positions(pending'[d]) :
                   /\ pending'[d][i].dev = d
                   /\ lastRead'[d] < pending'[d][i].n /\ pending'[d][i].n <= typed'
              /\ \A i, j \in Positions(pending'[d]) : i < j => pending'[d][i].n < pending'[d][j].n
  <2>0. PICK m : Shorter(pending'[d], pending[d], m, {})
                 /\ (d \in Listed(exList) /\ pending[d] # << >> => m >= 1)
    BY <1>13
  <2>1. /\ \A i \in Positions(pending'[d]) :
             /\ pending'[d][i].dev = d /\ lastRead[d] < pending'[d][i].n
               /\ pending'[d][i].n <= typed
             /\ m >= 1 => pending[d][1].n < pending'[d][i].n
        /\ \A i, j \in Positions(pending'[d]) : i < j => pending'[d][i].n < pending'[d][j].n
    BY <2>0, RestIsOfConsole DEF KeyInv, KeyOrder
  <2>2. CASE d = key.dev
    <3>1. m >= 1 /\ pending[d][1] = key
      BY <1>3, <1>5, <1>7, <1>10, <2>0, <2>2
    <3>2. \A i \in Positions(pending'[d]) : key.n < pending'[d][i].n
      BY <2>1, <3>1
    <3>3. lastRead'[d] = key.n /\ key.n <= typed'
      BY <1>10, <1>12, <2>2
    <3> QED BY <2>1, <3>2, <3>3
  <2>3. CASE d # key.dev
    <3>1. lastRead'[d] = lastRead[d] /\ lastRead[d] <= typed
      BY <1>12, <2>3 DEF KeyInv, KeyOrder, WaitingInOrder
    <3> QED BY <2>1, <3>1
  <2> QED BY <2>2, <2>3
<1>16. WaitingInOrder'
  BY <1>15 DEF WaitingInOrder
<1>17. ASSUME NEW i \in Positions(keyQueue')
       PROVE  lastRead'[keyQueue'[i].dev] < keyQueue'[i].n /\ keyQueue'[i].n <= typed'
  <2> DEFINE d == C[i + 1].dev
  <2>1. i + 1 \in Positions(C) /\ i + 1 # 1 /\ keyQueue'[i] = C[i + 1]
    BY <1>6
  <2>2. d \in Devices /\ C[i + 1] = pending[d][1] /\ 1 \in Positions(pending[d])
    BY <1>7, <2>1
  <2>3. d # key.dev
    BY <1>3, <1>5, <1>8, <2>1
  <2> HIDE DEF d
  <2>4. lastRead[d] < pending[d][1].n /\ pending[d][1].n <= typed
    BY <2>2 DEF KeyInv, KeyOrder, WaitingInOrder
  <2> QED BY <1>12, <2>1, <2>2, <2>3, <2>4 DEF d
<1>18. ASSUME NEW i \in Positions(keyQueue'), NEW j \in Positions(keyQueue'),
              i < j, keyQueue'[i].dev = keyQueue'[j].dev
       PROVE  FALSE
  <2>0. C[i + 1].dev = C[j + 1].dev
    BY <1>6, <1>18
  <2>1. i + 1 = j + 1
    BY <1>6, <1>8, <2>0
  <2> QED BY <1>18, <2>1 DEF Positions
<1>19. SavedInOrder'
  BY <1>17, <1>18 DEF SavedInOrder
<1>20. ASSUME NEW d \in Devices, NEW i \in Positions(keyQueue'), NEW j \in Positions(pending'[d]),
              keyQueue'[i].dev = d
       PROVE  keyQueue'[i].n < pending'[d][j].n
  <2>1. i + 1 \in Positions(C) /\ keyQueue'[i] = C[i + 1]
    BY <1>6
  <2>2. d \in Listed(exList) /\ pending[d] # << >> /\ C[i + 1] = pending[d][1]
    BY <1>7, <1>20, <2>1
  <2>3. Shorter(pending'[d], pending[d], 1, {})
    BY <1>13, <2>2
  <2>4. 1 >= 1 => pending[d][1].n < pending'[d][j].n
    BY ZenonT(30), <2>3, RestIsOfConsole DEF KeyInv, KeyOrder
  <2>5. 1 >= 1
    OBVIOUS
  <2>6. pending[d][1].n < pending'[d][j].n
    BY <2>4, <2>5, Zenon
  <2>7. keyQueue'[i].n = pending[d][1].n
    BY <2>1, <2>2
  <2> QED BY <2>6, <2>7
<1>21. SavedBeforeWaiting'
  BY <1>20 DEF SavedBeforeWaiting
<1>22. ASSUME NEW n \in unread' PROVE Waits(n)'
  <2>1. n \in unread /\ n # key.n
    BY <1>11, <1>22
  <2>2. Positions(keyQueue) = {}
    BY NothingIsRest
  <2>3. \E d \in Devices : \E i \in Positions(pending[d]) :
          pending[d][i].n = n /\ ~IsPartial(pending[d][i])
    BY <2>1, <2>2 DEF KeyInv, UnreadWaits, Waits
  <2>4. PICK d \in Devices : \E i \in Positions(pending[d]) :
          pending[d][i].n = n /\ ~IsPartial(pending[d][i])
    BY <2>3
  <2>5. PICK i \in Positions(pending[d]) : pending[d][i].n = n /\ ~IsPartial(pending[d][i])
    BY <2>4
  <2>6. CASE ~(d \in Listed(exList) /\ pending[d] # << >>)
    BY <1>13, <2>5, <2>6 DEF Waits, IsPartial
  <2>7. CASE d \in Listed(exList) /\ pending[d] # << >> /\ i = 1
    <3>1. PICK a \in Positions(C) : C[a] = pending[d][1]
      BY <1>9, <2>5, <2>7
    <3>2. a # 1
      BY <1>3, <2>1, <2>5, <2>7, <3>1
    <3>3. a - 1 \in Positions(keyQueue') /\ keyQueue'[a - 1] = C[a]
      BY <1>6, <3>2
    <3>4. keyQueue'[a - 1] = pending[d][i]
      BY <2>7, <3>1, <3>3
    <3>5. keyQueue'[a - 1].n = n /\ ~IsPartial(keyQueue'[a - 1])
      BY <2>5, <3>4
    <3> QED BY <3>3, <3>5 DEF Waits, IsPartial
  <2>8. CASE d \in Listed(exList) /\ pending[d] # << >> /\ i # 1
    <3>1. IsRest(pending'[d], pending[d], 1)
      BY <1>13, <2>8 DEF Shorter
    <3>2. Len(pending[d]) \in Nat /\ Len(pending'[d]) \in Nat
      BY <1>13, LenProperties DEF KeyInv, KeyTypes
    <3>3. i - 1 \in Positions(pending'[d]) /\ (i - 1) + 1 = i
      BY <2>8, <3>1, <3>2 DEF IsRest, Positions
    <3>4. pending'[d][i - 1] = pending[d][i]
      BY <3>1, <3>3 DEF IsRest
    <3> QED BY ZenonT(30), <2>5, <3>3, <3>4 DEF Waits, IsPartial
  <2> QED BY <2>6, <2>7, <2>8
<1>23. UnreadWaits'
  BY <1>22 DEF UnreadWaits
<1> QED BY <1>14, <1>16, <1>19, <1>21, <1>23 DEF KeyInv, KeyOrder

\* A keystroke is read with its shift state.  The queue has room for the keys
\* of all Ex consoles but the one that is returned.
LEMMA ReadExKeepsKeys ==
  ASSUME KeyInv, Distinct(exList), exList \in Seq(Devices), ReadKeyStrokeEx
  PROVE  KeyInv' /\ (Len(keyQueue') <= Len(keyQueue) \/ Len(keyQueue') < Len(exList))
<1>1. /\ pending \in [Devices -> Seq(Key)] /\ keyQueue \in Seq(Key) /\ typed' = typed
      /\ IF keyQueue # << >>
           THEN Delivered(Head(keyQueue)) /\ keyQueue' = Saved(keyQueue) /\ pending' = pending
           ELSE /\ pending' = [d \in Devices |->
                     IF d \in Listed(exList) /\ pending[d] # << >> THEN Tail(pending[d])
                     ELSE pending[d]]
                /\ keyQueue' = Saved(Collected)
                /\ IF Collected = << >> THEN NotReady ELSE Delivered(Head(Collected))
  BY DEF KeyInv, KeyTypes, ReadKeyStrokeEx, Read
<1>2. CASE keyQueue # << >>
  <2> DEFINE key == Head(keyQueue)
  <2>1. keyQueue' = Tail(keyQueue) /\ Delivered(key) /\ pending' = pending
    BY <1>1, <1>2 DEF Saved
  <2>2. key.n \notin unread'
    BY <2>1 DEF Delivered
  <2>3. Shorter(keyQueue', keyQueue, 1, unread') /\ key = keyQueue[1] /\ 1 \in Positions(keyQueue)
        /\ key \in Key
    BY <1>1, <1>2, <2>1, <2>2, TakenFirst
  <2> HIDE DEF key
  <2>5. \A d \in Devices : \E l : Shorter(pending'[d], pending[d], l, unread')
    BY <1>1, <2>1, UnchangedIsShorter
  <2>6. key.n <= typed /\ key.dev \in Devices
    BY <2>3, KeyFields DEF KeyInv, KeyOrder, SavedInOrder
  <2>7. \A i \in Positions(pending'[key.dev]) : key.n < pending'[key.dev][i].n
    BY <2>1, <2>3, <2>6 DEF KeyInv, KeyOrder, SavedBeforeWaiting
  <2>8. \A i \in Positions(keyQueue') : \E j \in Positions(keyQueue) : 1 < j
        /\ keyQueue'[i] = keyQueue[j]
    BY <1>1, <2>3, RestIsYounger
  <2>9. \A i \in Positions(keyQueue') : keyQueue'[i].dev = key.dev => key.n < keyQueue'[i].n
    BY <2>3, <2>8 DEF KeyInv, KeyOrder, SavedInOrder
  <2>10. KeyInv'
    BY <1>1, <2>1, <2>3, <2>5, <2>6, <2>7, <2>9, OneDelivered
  <2> QED BY <1>1, <2>3, <2>10, ShorterIsNotLonger
<1>3. CASE keyQueue = << >> /\ Collected # << >>
  <2>1. keyQueue' = Tail(Collected) /\ Delivered(Head(Collected))
    BY <1>1, <1>3 DEF Saved
  <2>2. KeyInv'
    BY <1>1, <1>3, <2>1, TurnKeepsKeys
  <2>3. Collected \in Seq(Key) /\ Len(Collected) <= Len(exList)
    BY CollectedIsRight DEF LoopIsRight, KeyInv, KeyOrder
  <2>4. Len(keyQueue') = Len(Collected) - 1 /\ Len(Collected) \in Nat /\ Len(exList) \in Nat
    BY <1>3, <2>1, <2>3, TailIsRest, LenProperties DEF IsRest
  <2> QED BY <2>2, <2>3, <2>4
<1>4. CASE keyQueue = << >> /\ Collected = << >>
  <2>1. keyQueue' = << >> /\ unread' = unread /\ lastRead' = lastRead
    BY <1>1, <1>4 DEF Saved, NotReady
  <2>2. LoopIsRight(Collected, Len(exList))
    BY CollectedIsRight DEF KeyInv, KeyOrder
  <2>3. Positions(Collected) = {}
    BY <1>4, NothingIsRest
  <2>4. ASSUME NEW d \in Devices
        PROVE  pending'[d] \in Seq(Key) /\ \E m : Shorter(pending'[d], pending[d], m, unread')
    <3>0. pending[d] \in Seq(Key)
      BY <1>1
    <3>1. CASE d \in Listed(exList) /\ pending[d] # << >>
      <4>1. PICK j \in 1 .. Len(exList) : d = exList[j]
        BY <3>1 DEF Listed, Positions
      <4>2. IsPartial(Head(pending[d]))
        BY <2>2, <2>3, <3>1, <4>1 DEF LoopIsRight
      <4>3. Tail(pending[d]) \in Seq(Key) /\ IsRest(Tail(pending[d]), pending[d], 1)
            /\ Head(pending[d]) = pending[d][1]
        BY <3>0, <3>1, TailIsRest
      <4>4. pending'[d] = Tail(pending[d])
        BY <1>1, <1>4, <3>1
      <4>5. Shorter(pending'[d], pending[d], 1, unread')
        BY <4>2, <4>3, <4>4 DEF Shorter
      <4> QED BY <4>3, <4>4, <4>5
    <3>2. CASE ~(d \in Listed(exList) /\ pending[d] # << >>)
      <4>1. pending'[d] = pending[d]
        BY <1>1, <1>4, <3>2
      <4> QED BY <3>0, <4>1, UnchangedIsShorter
    <3> QED BY <3>1, <3>2
  <2>5. pending' \in [Devices -> Seq(Key)]
    BY <1>1, <1>4, <2>4
  <2>6. \E m : Shorter(keyQueue', keyQueue, m, unread')
    BY <1>1, <1>4, <2>1, UnchangedIsShorter
  <2>7. KeyInv'
    BY <1>1, <2>1, <2>4, <2>5, <2>6, NothingDelivered
  <2>8. Len(keyQueue') <= Len(keyQueue)
    <3>1. Len(<< >>) = 0
      BY EmptySeq
    <3> QED BY <1>4, <2>1, <3>1
  <2> QED BY <2>7, <2>8
<1> QED BY <1>2, <1>3, <1>4

-----------------------------------------------------------------------------
(* The lists of consoles.                                                   *)

\* A function over 1 .. n is a sequence of n elements.
LEMMA FunctionIsSeq ==
  ASSUME NEW S, NEW n \in Nat, NEW f \in [1 .. n -> S]
  PROVE  f \in Seq(S) /\ Len(f) = n
<1>1. f \in Seq(S)
  BY SeqDef
<1>2. Len(f) \in Nat /\ DOMAIN f = 1 .. Len(f) /\ DOMAIN f = 1 .. n
  BY <1>1, LenProperties
<1>3. Len(f) = n
  <2>1. \A i \in Nat : i \in 1 .. Len(f) <=> i \in 1 .. n
    BY <1>2
  <2>2. CASE Len(f) < n
    <3>1. n \in 1 .. n /\ ~(n \in 1 .. Len(f))
      BY <1>2, <2>2
    <3> QED BY <2>1, <3>1
  <2>3. CASE n < Len(f)
    <3>1. Len(f) \in 1 .. Len(f) /\ ~(Len(f) \in 1 .. n)
      BY <1>2, <2>3
    <3> QED BY <1>2, <2>1, <3>1
  <2> QED BY <1>2, <2>2, <2>3
<1> QED BY <1>1, <1>3

\* A list without the element at a position, and where its elements were.
Dropped(s, at) == [i \in 1 .. Len(s) - 1 |-> s[IF i < at THEN i ELSE i + 1]]
Was(i, at) == IF i < at THEN i ELSE i + 1

\* The others stay, in order.
LEMMA DroppedIsRight ==
  ASSUME NEW S, NEW s \in Seq(S), NEW at \in Positions(s)
  PROVE  /\ Dropped(s, at) \in Seq(S) /\ Len(Dropped(s, at)) = Len(s) - 1
         /\ \A i \in Positions(Dropped(s, at)) :
              /\ Was(i, at) \in Positions(s) /\ Was(i, at) # at
              /\ Dropped(s, at)[i] = s[Was(i, at)]
         /\ \A i, j \in Positions(Dropped(s, at)) : i < j => Was(i, at) < Was(j, at)
         /\ \A j \in Positions(s) : j # at =>
              \E i \in Positions(Dropped(s, at)) : Was(i, at) = j
<1>1. Len(s) \in Nat /\ at \in 1 .. Len(s) /\ Len(s) - 1 \in Nat
  BY LenProperties DEF Positions
<1>2. \A i \in 1 .. Len(s) - 1 : Was(i, at) \in 1 .. Len(s) /\ Was(i, at) # at
  BY <1>1 DEF Was
<1>3. \A i \in 1 .. Len(s) - 1 : s[Was(i, at)] \in S
  BY <1>2, ElementOfSeq
<1>4. Dropped(s, at) = [i \in 1 .. Len(s) - 1 |-> s[Was(i, at)]]
  BY DEF Dropped, Was
<1>5. Dropped(s, at) \in [1 .. Len(s) - 1 -> S]
  BY <1>3, <1>4
<1>6. Dropped(s, at) \in Seq(S) /\ Len(Dropped(s, at)) = Len(s) - 1
  BY <1>1, <1>5, FunctionIsSeq
<1>7. \A i, j \in 1 .. Len(s) - 1 : i < j => Was(i, at) < Was(j, at)
  BY <1>1 DEF Was
<1>8. ASSUME NEW j \in 1 .. Len(s), j # at
      PROVE  \E i \in 1 .. Len(s) - 1 : Was(i, at) = j
  <2>1. CASE j < at
    <3>1. j \in 1 .. Len(s) - 1 /\ Was(j, at) = j
      BY <1>1, <2>1 DEF Was
    <3> QED BY <3>1
  <2>2. CASE j > at
    <3>1. j - 1 \in 1 .. Len(s) - 1 /\ Was(j - 1, at) = j
      BY <1>1, <2>2 DEF Was
    <3> QED BY <3>1
  <2> QED BY <1>1, <1>8, <2>1, <2>2
<1> QED BY <1>2, <1>4, <1>6, <1>7, <1>8 DEF Positions

\* Deleting takes an element out of a list, and nothing else.
LEMMA DeleteIsRight ==
  ASSUME NEW S, NEW s \in Seq(S), NEW x, Distinct(s)
  PROVE  /\ Delete(s, x) \in Seq(S) /\ Len(Delete(s, x)) <= Len(s)
         /\ Distinct(Delete(s, x)) /\ Listed(Delete(s, x)) = Listed(s) \ {x}
<1>0. Len(s) \in Nat
  BY LenProperties
<1>1. CASE x \notin Listed(s)
  <2>1. Delete(s, x) = s
    BY <1>1 DEF Delete
  <2> QED BY <1>0, <1>1, <2>1
<1>2. CASE x \in Listed(s)
  <2>1. \E i \in Positions(s) : s[i] = x
    BY <1>2 DEF Listed
  <2>2. PICK at : at = CHOOSE i \in Positions(s) : s[i] = x
    OBVIOUS
  <2>3. at \in Positions(s) /\ s[at] = x
    BY <2>1, <2>2
  <2>4. PICK r : r = Dropped(s, at)
    OBVIOUS
  <2>5. Delete(s, x) = r
    BY <1>2, <2>2, <2>4 DEF Delete, Dropped
  <2>6. /\ r \in Seq(S) /\ Len(r) = Len(s) - 1
        /\ \A i \in Positions(r) :
              /\ Was(i, at) \in Positions(s) /\ Was(i, at) # at
              /\ r[i] = s[Was(i, at)]
        /\ \A i, j \in Positions(r) : i < j => Was(i, at) < Was(j, at)
        /\ \A j \in Positions(s) : j # at => \E i \in Positions(r) : Was(i, at) = j
    BY <2>3, <2>4, DroppedIsRight
  <2>7. ASSUME NEW i \in Positions(r), NEW j \in Positions(r), r[i] = r[j]
        PROVE  i = j
    <3>1. Was(i, at) = Was(j, at)
      BY <2>6, <2>7 DEF Distinct
    <3>2. i \in Nat /\ j \in Nat /\ Was(i, at) \in Nat /\ Was(j, at) \in Nat
      BY <2>6 DEF Positions
    <3>3. ~(i < j) /\ ~(j < i)
      BY <2>6, <3>1, <3>2
    <3> QED BY <3>2, <3>3
  <2>8. \A y \in Listed(r) : y \in Listed(s) /\ y # x
    BY <2>3, <2>6 DEF Listed, Distinct
  <2>9. \A y \in Listed(s) : y # x => y \in Listed(r)
    BY <2>3, <2>6 DEF Listed
  <2>10. Listed(r) = Listed(s) \ {x}
    BY <2>8, <2>9
  <2> QED BY <1>0, <2>5, <2>6, <2>7, <2>10 DEF Distinct
<1> QED BY <1>1, <1>2

\* A console joins a list.
LEMMA AppendIsRight ==
  ASSUME NEW S, NEW s \in Seq(S), NEW x \in S, Distinct(s), x \notin Listed(s)
  PROVE  /\ Append(s, x) \in Seq(S) /\ Len(Append(s, x)) = Len(s) + 1
         /\ Distinct(Append(s, x)) /\ Listed(Append(s, x)) = Listed(s) \cup {x}
<1> DEFINE r == Append(s, x)
<1>1. /\ r \in Seq(S) /\ Len(r) = Len(s) + 1 /\ Len(s) \in Nat
      /\ \A i \in 1 .. Len(s) : r[i] = s[i]
      /\ r[Len(s) + 1] = x
  BY AppendProperties, LenProperties
<1> HIDE DEF r
<1>2. /\ \A i \in Positions(r) : i \in Positions(s) \/ i = Len(s) + 1
      /\ \A i \in Positions(s) : i \in Positions(r) /\ r[i] = s[i] /\ s[i] # x
      /\ Len(s) + 1 \in Positions(r)
  BY <1>1 DEF Positions, Listed
<1>3. Distinct(r)
  BY <1>1, <1>2 DEF Distinct
<1>4. Listed(r) = Listed(s) \cup {x}
  BY <1>1, <1>2 DEF Listed
<1> QED BY <1>1, <1>2, <1>3, <1>4 DEF r

\* The lists: a console is in the list of all if it is in that of the Ex
\* consoles, and open if it is in either; the lists have room.
ListInv ==
  /\ opened \subseteq Devices
  /\ textInList \in Seq(Devices) /\ Len(textInList) <= inCount /\ inCount \in Nat
  /\ exList \in Seq(ExDevices) /\ Len(exList) <= exCount /\ exCount \in Nat
  /\ Listed(exList) \subseteq Listed(textInList) /\ Listed(textInList) \subseteq opened
  /\ Distinct(textInList) /\ Distinct(exList)

\* The room grows when the list is full.
LEMMA RoomIsRight ==
  ASSUME NEW S, NEW s \in Seq(S), NEW n \in Nat, Len(s) <= n
  PROVE  Room(s, n) \in Nat /\ Room(s, n) >= n /\ Len(s) + 1 <= Room(s, n)
<1>1. Len(s) \in Nat /\ AllocUnit \in Nat \ {0}
  BY LenProperties, BoundsAssumption DEF BoundsAssumption
<1> QED BY <1>1 DEF Room

\* A console is added to the list of all.
LEMMA AddKeepsLists ==
  ASSUME ListInv, NEW d \in Devices, TextInAddDevice(d)
  PROVE  /\ opened' \subseteq Devices
         /\ textInList' \in Seq(Devices) /\ Len(textInList') <= inCount' /\ inCount' \in Nat
         /\ Listed(textInList') = Listed(textInList) \cup {d} /\ d \notin Listed(textInList)
         /\ opened' = opened \cup {d} /\ Distinct(textInList')
         /\ Listed(exList) \subseteq Listed(textInList') /\ Listed(textInList') \subseteq opened'
<1>1. /\ d \notin opened /\ opened' = opened \cup {d} /\ textInList' = Append(textInList, d)
      /\ inCount' = Room(textInList, inCount)
  BY DEF TextInAddDevice
<1>2. /\ opened \subseteq Devices
      /\ textInList \in Seq(Devices) /\ Len(textInList) <= inCount /\ inCount \in Nat
      /\ Listed(exList) \subseteq Listed(textInList) /\ Listed(textInList) \subseteq opened
      /\ Distinct(textInList)
  BY DEF ListInv
<1>3. d \notin Listed(textInList)
  BY <1>1, <1>2
<1>4. /\ textInList' \in Seq(Devices) /\ Len(textInList') = Len(textInList) + 1
      /\ Distinct(textInList') /\ Listed(textInList') = Listed(textInList) \cup {d}
  BY <1>1, <1>2, <1>3, AppendIsRight
<1>5. inCount' \in Nat /\ Len(textInList) + 1 <= inCount'
  BY <1>1, <1>2, RoomIsRight
<1>6. Len(textInList') <= inCount'
  BY <1>4, <1>5
<1> QED BY <1>1, <1>2, <1>3, <1>4, <1>5, <1>6

\* Skipping partial keystrokes again changes nothing about what there is.
LEMMA ReadyTwice ==
  ASSUME NEW q \in Seq(Key), Ready(q) # << >>
  PROVE  Ready(Ready(q)) # << >>
<1>1. Ready(q) \in Seq(Key) /\ ~IsPartial(Ready(q)[1])
  BY ReadyIsRest
<1>2. 1 \in Positions(Ready(q))
  BY <1>1, TailIsRest
<1> QED BY <1>1, <1>2, ReadyFinds

\* The queue of saved keys is shorter than the room of the list of Ex consoles.
QueueFits == Len(keyQueue) < exCount

Flags ==
  /\ signalled \in BOOLEAN /\ exported \in BOOLEAN
  /\ everStopped \in BOOLEAN /\ stale \in BOOLEAN /\ faults \in 0 .. MaxFaults

ConsolesInv == KeyInv /\ ListInv /\ QueueFits /\ SignalHasKey /\ Flags

\* A call that fails counts.
LEMMA FaultCounts ==
  ASSUME Fault, faults \in 0 .. MaxFaults
  PROVE  faults' \in 0 .. MaxFaults
<1>1. MaxFaults \in Nat
  BY BoundsAssumption DEF BoundsAssumption
<1> QED BY <1>1 DEF Fault

\* The event stays right as long as no keystroke goes that is not partial.
LEMMA SignalStays ==
  ASSUME SignalHasKey, signalled' => signalled, stale' = stale,
         Listed(textInList) \subseteq Devices,
         \A d \in Listed(textInList) :
           d \in Listed(textInList)' /\ (Ready(pending[d]) # << >> => Ready(pending'[d]) # << >>)
  PROVE  SignalHasKey'
BY DEF SignalHasKey, HasKey

\* The consoles of a list are consoles.
LEMMA ListedAreConsoles ==
  ASSUME ListInv
  PROVE  /\ Listed(textInList) \subseteq Devices /\ Listed(exList) \subseteq ExDevices
         /\ exList \in Seq(Devices) /\ Listed(exList) \subseteq Devices
         /\ Len(exList) \in Nat
<1>1. Listed(textInList) \subseteq Devices /\ Listed(exList) \subseteq Devices
  BY DEF ListInv
<1>2. \A i \in Positions(exList) : exList[i] \in ExDevices
  BY ElementOfSeq DEF ListInv, Positions
<1>3. exList \in Seq(Devices)
  BY SeqMonotonic, DevicesAssumption DEF ListInv, DevicesAssumption
<1>4. Len(exList) \in Nat
  BY LenProperties DEF ListInv
<1> QED BY <1>1, <1>2, <1>3, <1>4 DEF Listed

\* A console is added to the list of all, whatever becomes of the Ex list.
LEMMA AddKeepsConsoles ==
  ASSUME ConsolesInv, NEW d \in Devices, TextInAddDevice(d), ConnectionsOnly,
         stale' = stale
  PROVE  KeyInv' /\ SignalHasKey'
<1>1. /\ pending' = [pending EXCEPT ![d] = Ready(@)]
      /\ UNCHANGED <<keyQueue, typed, unread, lastRead, signalled>>
  BY DEF TextInAddDevice, ConnectionsOnly
<1>2. KeyInv'
  BY <1>1, AddKeepsKeys DEF ConsolesInv
<1>3. pending \in [Devices -> Seq(Key)]
  BY DEF ConsolesInv, KeyInv, KeyTypes
<1>4. Listed(textInList)' = Listed(textInList) \cup {d} /\ Listed(textInList) \subseteq Devices
  BY AddKeepsLists, ListedAreConsoles DEF ConsolesInv
<1>5. ASSUME NEW c \in Listed(textInList)
      PROVE  Ready(pending[c]) # << >> => Ready(pending'[c]) # << >>
  <2>1. c \in Devices /\ pending[c] \in Seq(Key)
    BY <1>3, <1>4
  <2>2. pending'[c] \in {pending[c], Ready(pending[c])}
    BY <1>1, <1>3, <2>1
  <2> QED BY <2>1, <2>2, ReadyTwice
<1>6. SignalHasKey'
  BY <1>1, <1>4, <1>5, SignalStays DEF ConsolesInv
<1> QED BY <1>2, <1>6

\* A console joins the Ex list too.
LEMMA ExAddKeepsLists ==
  ASSUME ListInv, NEW d \in ExDevices, TextInAddDevice(d),
         exCount' = Room(exList, exCount), exList' = Append(exList, d)
  PROVE  ListInv' /\ exCount' >= exCount
         /\ Len(exList') = Len(exList) + 1 /\ Listed(exList') = Listed(exList) \cup {d}
         /\ exList'[Len(exList) + 1] = d /\ \A i \in Positions(exList) : exList'[i] = exList[i]
<1>0. d \in Devices
  BY DevicesAssumption DEF DevicesAssumption
<1>1. /\ opened' \subseteq Devices
      /\ textInList' \in Seq(Devices) /\ Len(textInList') <= inCount' /\ inCount' \in Nat
      /\ Listed(textInList') = Listed(textInList) \cup {d} /\ d \notin Listed(textInList)
      /\ Distinct(textInList') /\ Listed(textInList') \subseteq opened'
  BY <1>0, AddKeepsLists
<1>2. /\ exList \in Seq(ExDevices) /\ Len(exList) <= exCount /\ exCount \in Nat
      /\ Listed(exList) \subseteq Listed(textInList) /\ Distinct(exList)
  BY DEF ListInv
<1>3. /\ exList' \in Seq(ExDevices) /\ Len(exList') = Len(exList) + 1
      /\ Distinct(exList') /\ Listed(exList') = Listed(exList) \cup {d}
      /\ exList'[Len(exList) + 1] = d /\ \A i \in Positions(exList) : exList'[i] = exList[i]
  <2>1. d \notin Listed(exList)
    BY <1>1, <1>2
  <2>2. PICK r : r = Append(exList, d)
    OBVIOUS
  <2>3. /\ r \in Seq(ExDevices) /\ Len(r) = Len(exList) + 1
        /\ Distinct(r) /\ Listed(r) = Listed(exList) \cup {d}
    BY <1>2, <2>1, <2>2, AppendIsRight
  <2>4. r[Len(exList) + 1] = d /\ \A i \in 1 .. Len(exList) : r[i] = exList[i]
    BY <1>2, <2>2, AppendProperties
  <2>5. exList' = r
    BY <2>2
  <2> QED BY <2>3, <2>4, <2>5 DEF Positions
<1>4. exCount' \in Nat /\ exCount' >= exCount /\ Len(exList) + 1 <= exCount'
  BY <1>2, RoomIsRight
<1>5. Len(exList') <= exCount'
  BY <1>3, <1>4
<1>6. Listed(exList') \subseteq Listed(textInList')
  BY <1>1, <1>2, <1>3
<1> QED BY <1>1, <1>3, <1>4, <1>5, <1>6 DEF ListInv

\* A console is connected.
LEMMA StartKeepsConsoles ==
  ASSUME ConsolesInv, NEW d \in Devices, ConInStart(d)
  PROVE  ConsolesInv' /\ exCount' >= exCount
<1>1. /\ TextInAddDevice(d) /\ ConnectionsOnly /\ UNCHANGED <<faults, everStopped, stale>>
      /\ IF d \in ExDevices THEN TextInExAddDevice(d)
         ELSE UNCHANGED <<notifyList, registered, exCount, exList>>
  BY DEF ConInStart
<1>2. KeyInv' /\ SignalHasKey'
  BY <1>1, AddKeepsConsoles
<1>3. ListInv' /\ exCount' >= exCount /\ exCount \in Nat /\ exCount' \in Nat
  <2>1. CASE d \in ExDevices
    BY <1>1, <2>1, ExAddKeepsLists DEF TextInExAddDevice, ConsolesInv, ListInv
  <2>2. CASE d \notin ExDevices
    BY <1>1, <2>2, AddKeepsLists DEF ConsolesInv, ListInv
  <2> QED BY <2>1, <2>2
<1>4. QueueFits'
  <2>1. keyQueue' = keyQueue /\ Len(keyQueue) \in Nat /\ Len(keyQueue) < exCount
    BY <1>1, LenProperties DEF ConnectionsOnly, ConsolesInv, QueueFits, KeyInv, KeyTypes
  <2> QED BY <1>3, <2>1 DEF QueueFits
<1>5. Flags'
  BY <1>1 DEF Flags, ConsolesInv, ConnectionsOnly
<1> QED BY <1>2, <1>3, <1>4, <1>5 DEF ConsolesInv

\* A console is refused half way: it stays in the list of all alone.
LEMMA RefusalKeepsConsoles ==
  ASSUME ConsolesInv, NEW d \in Devices, TextInAddDevice(d), Fault, ConnectionsOnly,
         UNCHANGED <<exList, everStopped, stale>>,
         exCount' = exCount \/ exCount' = Room(exList, exCount)
  PROVE  ConsolesInv' /\ exCount' >= exCount
<1>1. KeyInv' /\ SignalHasKey'
  BY AddKeepsConsoles
<1>2. exCount' \in Nat /\ exCount' >= exCount /\ exCount \in Nat /\ Len(exList) <= exCount'
  <2>1. exList \in Seq(ExDevices) /\ exCount \in Nat /\ Len(exList) <= exCount
        /\ Len(exList) \in Nat
    BY LenProperties DEF ConsolesInv, ListInv
  <2>2. Room(exList, exCount) \in Nat /\ Room(exList, exCount) >= exCount
    BY <2>1, RoomIsRight
  <2> QED BY <2>1, <2>2
<1>3. ListInv'
  BY <1>2, AddKeepsLists DEF ConsolesInv, ListInv
<1>4. QueueFits'
  <2>1. keyQueue' = keyQueue /\ Len(keyQueue) \in Nat /\ Len(keyQueue) < exCount
    BY LenProperties DEF ConnectionsOnly, ConsolesInv, QueueFits, KeyInv, KeyTypes
  <2> QED BY <1>2, <2>1 DEF QueueFits
<1>5. Flags'
  BY FaultCounts DEF Flags, ConsolesInv, ConnectionsOnly
<1> QED BY <1>1, <1>2, <1>3, <1>4, <1>5 DEF ConsolesInv

\* A step that touches no keystroke.
LEMMA KeysStay ==
  ASSUME KeyInv, keyQueue' = keyQueue, pending' = pending, typed' = typed,
         unread' = unread, lastRead' = lastRead
  PROVE  KeyInv'
<1>1. KeyTypes'
  BY DEF KeyInv, KeyTypes
<1>2. WaitingInOrder'
  BY DEF KeyInv, KeyOrder, WaitingInOrder
<1>3. SavedInOrder'
  BY DEF KeyInv, KeyOrder, SavedInOrder
<1>4. SavedBeforeWaiting'
  BY DEF KeyInv, KeyOrder, SavedBeforeWaiting
<1>5. ASSUME NEW n PROVE Waits(n)' = Waits(n)
  BY DEF Waits, IsPartial
<1>6. UnreadWaits'
  BY <1>5 DEF KeyInv, UnreadWaits
<1> QED BY <1>1, <1>2, <1>3, <1>4, <1>6 DEF KeyInv, KeyOrder

\* A console is opened and gets no place in the list.
LEMMA NoRoomKeepsConsoles ==
  ASSUME ConsolesInv, NEW d \in Devices, StartWithoutRoom(d)
  PROVE  ConsolesInv'
<1>1. /\ Fault /\ opened' = opened \cup {d}
      /\ UNCHANGED <<keyQueue, signalled, exported, typed, unread, lastRead, textInList,
                     inCount, exList, exCount, pending, everStopped, stale>>
  BY DEF StartWithoutRoom, ConnectionsOnly, consoles
<1>2. KeyInv'
  <2>1. keyQueue' = keyQueue /\ pending' = pending /\ typed' = typed
        /\ unread' = unread /\ lastRead' = lastRead
    BY <1>1
  <2> QED BY <2>1, KeysStay DEF ConsolesInv
<1>3. ListInv'
  BY <1>1 DEF ConsolesInv, ListInv
<1>4. SignalHasKey'
  BY <1>1 DEF ConsolesInv, SignalHasKey, HasKey
<1>5. QueueFits' /\ Flags'
  BY <1>1, FaultCounts DEF ConsolesInv, QueueFits, Flags
<1> QED BY <1>2, <1>3, <1>4, <1>5 DEF ConsolesInv

\* A console is taken away.
LEMMA StopKeepsConsoles ==
  ASSUME ConsolesInv, NEW d \in Devices, ConInStop(d)
  PROVE  ConsolesInv' /\ everStopped'
<1>1. /\ d \in opened /\ (d \in ExDevices => d \in Listed(exList))
      /\ opened' = opened \ {d}
      /\ exList' = Delete(exList, d)
      /\ textInList' = Delete(textInList, d)
      /\ everStopped' = TRUE /\ stale' = (stale \/ signalled)
      /\ UNCHANGED <<keyQueue, signalled, exported, typed, unread, lastRead,
                     inCount, exCount, pending, faults>>
  BY DEF ConInStop, ConnectionsOnly, consoles
<1>2. KeyInv'
  <2>1. keyQueue' = keyQueue /\ pending' = pending /\ typed' = typed
        /\ unread' = unread /\ lastRead' = lastRead
    BY <1>1
  <2> QED BY <2>1, KeysStay DEF ConsolesInv
<1>3. /\ textInList \in Seq(Devices) /\ exList \in Seq(ExDevices)
      /\ Distinct(textInList) /\ Distinct(exList)
      /\ Len(textInList) <= inCount /\ Len(exList) <= exCount
      /\ inCount \in Nat /\ exCount \in Nat
      /\ Len(textInList) \in Nat /\ Len(exList) \in Nat
  BY LenProperties DEF ConsolesInv, ListInv
<1>4. /\ textInList' \in Seq(Devices) /\ Len(textInList') <= Len(textInList)
      /\ Distinct(textInList') /\ Listed(textInList') = Listed(textInList) \ {d}
  BY <1>1, <1>3, DeleteIsRight
<1>5. /\ exList' \in Seq(ExDevices) /\ Len(exList') <= Len(exList)
      /\ Distinct(exList') /\ Listed(exList') = Listed(exList) \ {d}
  BY <1>1, <1>3, DeleteIsRight
<1>6. Len(textInList') \in Nat /\ Len(exList') \in Nat
  BY <1>4, <1>5, LenProperties
<1>7. Len(textInList') <= inCount' /\ Len(exList') <= exCount'
  BY <1>1, <1>3, <1>4, <1>5, <1>6
<1>8. ListInv'
  BY <1>1, <1>3, <1>4, <1>5, <1>7 DEF ConsolesInv, ListInv
<1>9. SignalHasKey'
  BY <1>1 DEF SignalHasKey
<1>10. QueueFits'
  BY <1>1 DEF ConsolesInv, QueueFits
<1>11. Flags'
  <2>1. stale' \in BOOLEAN /\ everStopped' \in BOOLEAN
    BY <1>1, Zenon DEF ConsolesInv, Flags
  <2> QED BY <1>1, <2>1 DEF ConsolesInv, Flags
<1> QED BY <1>1, <1>2, <1>8, <1>9, <1>10, <1>11 DEF ConsolesInv

\* A console's driver goes.
LEMMA GoneKeepsConsoles ==
  ASSUME ConsolesInv, NEW d \in Devices, DeviceGone(d)
  PROVE  ConsolesInv'
<1>1. /\ d \notin opened /\ pending' = [pending EXCEPT ![d] = << >>]
      /\ UNCHANGED <<opened, textInList, inCount, exList, exCount, keyQueue, signalled,
                     exported, faults, everStopped, stale>>
  BY DEF DeviceGone, lists, keys
<1>2. KeyInv'
  BY GoneKeepsKeys DEF ConsolesInv
<1>3. ListInv' /\ QueueFits' /\ Flags'
  BY <1>1 DEF ConsolesInv, ListInv, QueueFits, Flags
<1>4. pending \in [Devices -> Seq(Key)]
  BY DEF ConsolesInv, KeyInv, KeyTypes
<1>5. \A c \in Listed(textInList) : c \in Devices /\ c # d
  BY <1>1, ListedAreConsoles DEF ConsolesInv, ListInv
<1>6. \A c \in Listed(textInList) : pending'[c] = pending[c] /\ c \in Listed(textInList)'
  BY <1>1, <1>4, <1>5
<1>7. SignalHasKey'
  BY <1>1, <1>5, <1>6, SignalStays DEF ConsolesInv
<1> QED BY <1>2, <1>3, <1>7 DEF ConsolesInv

\* A key is typed.
LEMMA TypingKeepsConsoles ==
  ASSUME ConsolesInv, NEW d \in Devices, NEW code \in Codes \cup {Partial}, KeyTyped(d, code)
  PROVE  ConsolesInv'
<1>1. /\ pending' = [pending EXCEPT
           ![d] = Append(@, [dev |-> d, code |-> code, n |-> typed + 1])]
      /\ UNCHANGED <<opened, textInList, inCount, exList, exCount, keyQueue, signalled,
                     exported, faults, everStopped, stale>>
  BY DEF KeyTyped, lists, keys
<1>2. KeyInv'
  BY TypingKeepsKeys DEF ConsolesInv
<1>3. ListInv' /\ QueueFits' /\ Flags'
  BY <1>1 DEF ConsolesInv, ListInv, QueueFits, Flags
<1>4. pending \in [Devices -> Seq(Key)] /\ pending' \in [Devices -> Seq(Key)]
  BY <1>2 DEF ConsolesInv, KeyInv, KeyTypes
<1>5. ASSUME NEW c \in Listed(textInList)
      PROVE  Ready(pending[c]) # << >> => Ready(pending'[c]) # << >>
  <2>1. c \in Devices /\ pending[c] \in Seq(Key) /\ pending'[c] \in Seq(Key)
    BY <1>4, ListedAreConsoles DEF ConsolesInv
  <2>2. CASE c # d
    BY <1>1, <1>4, <2>1, <2>2
  <2>3. CASE c = d
    <3> DEFINE key == [dev |-> d, code |-> code, n |-> typed + 1]
    <3>1. pending'[c] = Append(pending[c], key)
      BY <1>1, <1>4, <2>1, <2>3
    <3> HIDE DEF key
    <3>2. pending[c] \in Seq(Key \cup {key})
      BY <2>1, SeqMonotonic
    <3>3. /\ Len(pending'[c]) = Len(pending[c]) + 1 /\ Len(pending[c]) \in Nat
          /\ \A i \in 1 .. Len(pending[c]) : pending'[c][i] = pending[c][i]
      BY <3>1, <3>2, AppendProperties, LenProperties
    <3>4. \A i \in Positions(pending[c]) :
            i \in Positions(pending'[c]) /\ pending'[c][i] = pending[c][i]
      BY <3>3 DEF Positions
    <3> QED BY <2>1, <3>4, ReadyFinds
  <2> QED BY <2>2, <2>3
<1>6. SignalHasKey'
  BY <1>1, <1>5, SignalStays, ListedAreConsoles DEF ConsolesInv
<1> QED BY <1>2, <1>3, <1>6 DEF ConsolesInv

\* What a call that reads leaves alone.
LEMMA ReadKeepsLists ==
  ASSUME ConsolesInv, Read, ClearSignal, KeyInv', QueueFits',
         exported' \in BOOLEAN, faults' \in 0 .. MaxFaults
  PROVE  ConsolesInv'
<1>1. /\ UNCHANGED <<opened, textInList, inCount, exList, exCount, everStopped>>
      /\ signalled' = FALSE /\ stale' = FALSE
  BY DEF Read, lists, ClearSignal
<1>2. ListInv' /\ SignalHasKey' /\ Flags'
  BY <1>1 DEF ConsolesInv, ListInv, SignalHasKey, Flags
<1> QED BY <1>2 DEF ConsolesInv

\* The queue of saved keys fits if it does not grow beyond the Ex consoles.
LEMMA QueueStillFits ==
  ASSUME ConsolesInv, KeyInv', exCount' = exCount,
         Len(keyQueue') <= Len(keyQueue) \/ Len(keyQueue') < Len(exList)
  PROVE  QueueFits'
<1>1. /\ Len(keyQueue) \in Nat /\ Len(keyQueue') \in Nat /\ Len(exList) \in Nat
      /\ exCount \in Nat /\ Len(exList) <= exCount /\ Len(keyQueue) < exCount
  BY LenProperties DEF ConsolesInv, KeyInv, KeyTypes, ListInv, QueueFits
<1> QED BY <1>1 DEF QueueFits

\* The calls that read.
LEMMA ReadsKeepConsoles ==
  ASSUME ConsolesInv, ReadKeyStroke \/ ReadKeyStrokeEx
  PROVE  ConsolesInv'
<1>1. Read /\ ClearSignal /\ exported' = exported /\ faults' = faults /\ exCount' = exCount
  BY DEF ReadKeyStroke, ReadKeyStrokeEx, Read, lists
<1>2. textInList \in Seq(Devices) /\ exList \in Seq(Devices) /\ Distinct(exList)
  BY ListedAreConsoles DEF ConsolesInv, ListInv
<1>3. KeyInv' /\ (Len(keyQueue') <= Len(keyQueue) \/ Len(keyQueue') < Len(exList))
  BY <1>2, ReadKeepsKeys, ReadExKeepsKeys DEF ConsolesInv
<1>4. QueueFits'
  BY <1>1, <1>3, QueueStillFits
<1> QED BY <1>1, <1>3, <1>4, ReadKeepsLists DEF ConsolesInv, Flags

\* A reset.
LEMMA ResetKeepsConsoles ==
  ASSUME ConsolesInv, NEW list, NEW broken, Reset(list, broken)
  PROVE  ConsolesInv'
<1>1. /\ Read /\ ClearSignal /\ exCount' = exCount
      /\ broken = {} => exported' = FALSE /\ faults' = faults
      /\ broken # {} => Fault /\ exported' = exported
  BY DEF Reset, Read, lists
<1>2. KeyInv' /\ Len(keyQueue') <= Len(keyQueue)
  BY ResetKeepsKeys DEF ConsolesInv
<1>3. QueueFits'
  BY <1>1, <1>2, QueueStillFits
<1>4. exported' \in BOOLEAN /\ faults' \in 0 .. MaxFaults
  BY <1>1, FaultCounts DEF ConsolesInv, Flags
<1> QED BY <1>1, <1>2, <1>3, <1>4, ReadKeepsLists

\* A client waits.
LEMMA WaitKeepsConsoles ==
  ASSUME ConsolesInv, WaitForKey
  PROVE  ConsolesInv'
<1>1. /\ signalled' = EventIsSignalled
      /\ pending' = [d \in Devices |->
           IF ~signalled /\ d \in Listed(textInList) THEN Ready(pending[d]) ELSE pending[d]]
      /\ UNCHANGED <<opened, textInList, inCount, exList, exCount, keyQueue, exported,
                     faults, everStopped, stale>>
  BY DEF WaitForKey, lists
<1>2. KeyInv'
  BY WaitKeepsKeys DEF ConsolesInv
<1>3. ListInv' /\ QueueFits'
  BY <1>1 DEF ConsolesInv, ListInv, QueueFits
<1>4. Flags'
  <2>1. signalled' \in BOOLEAN
    BY <1>1, Zenon DEF EventIsSignalled, ConsolesInv, Flags
  <2> QED BY <1>1, <2>1 DEF ConsolesInv, Flags
<1>5. SignalHasKey'
  <2>1. CASE signalled
    <3>1. pending' = pending
      BY <1>1, <2>1 DEF ConsolesInv, KeyInv, KeyTypes
    <3> QED BY <1>1, <2>1, <3>1 DEF ConsolesInv, SignalHasKey, HasKey
  <2>2. CASE ~signalled
    <3> SUFFICES ASSUME signalled' PROVE \E d \in Listed(textInList)' : Ready(pending'[d]) # << >>
      BY DEF SignalHasKey, HasKey
    <3>1. PICK d \in Listed(textInList) : Ready(pending[d]) # << >>
      BY <1>1, <2>2 DEF EventIsSignalled, HasKey
    <3>2. d \in Devices /\ pending[d] \in Seq(Key) /\ d \in Listed(textInList)'
      BY <1>1, ListedAreConsoles DEF ConsolesInv, KeyInv, KeyTypes
    <3>3. pending'[d] = Ready(pending[d])
      BY <1>1, <2>2, <3>2
    <3> QED BY <3>1, <3>2, <3>3, ReadyTwice
  <2> QED BY <2>1, <2>2
<1> QED BY <1>2, <1>3, <1>4, <1>5 DEF ConsolesInv

\* Steps that leave the consoles and the keystrokes alone.
LEMMA OthersKeepConsoles ==
  ASSUME ConsolesInv,
         UNCHANGED <<opened, textInList, inCount, exList, exCount, keyQueue, signalled,
                     pending, typed, unread, lastRead, everStopped, stale>>,
         exported' \in BOOLEAN, faults' \in 0 .. MaxFaults
  PROVE  ConsolesInv'
<1>1. /\ opened' = opened /\ textInList' = textInList /\ inCount' = inCount /\ exList' = exList
      /\ exCount' = exCount /\ keyQueue' = keyQueue /\ signalled' = signalled
      /\ pending' = pending /\ typed' = typed /\ unread' = unread /\ lastRead' = lastRead
      /\ everStopped' = everStopped /\ stale' = stale
  OBVIOUS
<1>2. KeyInv'
  BY <1>1, KeysStay DEF ConsolesInv
<1>3. ListInv' /\ QueueFits' /\ Flags'
  BY <1>1 DEF ConsolesInv, ListInv, QueueFits, Flags
<1>4. SignalHasKey'
  BY <1>1 DEF ConsolesInv, SignalHasKey, HasKey
<1> QED BY <1>2, <1>3, <1>4 DEF ConsolesInv

-----------------------------------------------------------------------------
(* The registrations.                                                       *)

Entry == [reg : Registration, handles : Seq(Handles \cup {NoHandle})]
Regs(list) == {list[i].reg : i \in Positions(list)}

\* Nothing is registered twice.
NotifiesDiffer ==
  \A i, j \in Positions(notifyList) :
    i < j => ~SameNotify(notifyList[i].reg, notifyList[j].reg)

\* Until a console is taken away, the handle stored j-th is the j-th console's.
HandlesMatch ==
  ~everStopped =>
    \A i \in Positions(notifyList), j \in Positions(exList) :
      notifyList[i].handles[j] = [dev |-> exList[j], reg |-> notifyList[i].reg]

NotifyTypes ==
  /\ notifyList \in Seq(Entry)
  /\ \A i \in Positions(notifyList) : Len(notifyList[i].handles) >= exCount
  /\ registered \in [Devices -> SUBSET Registration]

NotifyInv == NotifyTypes /\ NotifiesDiffer /\ HandlesMatch /\ RegistrationsMatch

\* What the loop over NotifyList has registered with console d after i turns,
\* if f says so for fewer.
RegisteredAt(f, d, i) ==
  IF i = 0 THEN registered[d]
  ELSE f[i - 1] \cup {Kept(f[i - 1], notifyList[i].reg)}

Registers(f, d, n) == f = [i \in 0 .. n |-> RegisteredAt(f, d, i)]

\* The loop's turns are a function.
LEMMA LoopRegisters ==
  ASSUME NEW d
  PROVE  \A n \in Nat : \E f : Registers(f, d, n)
<1> DEFINE T == {n \in Nat : \E f : Registers(f, d, n)}
<1>1. 0 \in T
  <2>1. Registers([i \in 0 .. 0 |-> registered[d]], d, 0)
    BY DEF Registers, RegisteredAt
  <2> QED BY <2>1
<1>2. ASSUME NEW n \in Nat, n \in T PROVE n + 1 \in T
  <2>1. PICK f : Registers(f, d, n)
    BY <1>2
  <2> DEFINE g == [i \in 0 .. n + 1 |-> IF i = n + 1 THEN RegisteredAt(f, d, i) ELSE f[i]]
  <2>2. ASSUME NEW i \in 0 .. n + 1 PROVE g[i] = RegisteredAt(g, d, i)
    <3>1. CASE i = n + 1
      <4>1. g[i] = RegisteredAt(f, d, i) /\ i # 0 /\ g[i - 1] = f[i - 1]
        BY <3>1
      <4> HIDE DEF g
      <4> QED BY <4>1 DEF RegisteredAt
    <3>2. CASE i # n + 1
      <4>1. i \in 0 .. n /\ g[i] = f[i] /\ (i # 0 => g[i - 1] = f[i - 1])
        BY <3>2
      <4>2. f[i] = RegisteredAt(f, d, i)
        BY <2>1, <4>1 DEF Registers
      <4> HIDE DEF g
      <4> QED BY <4>1, <4>2 DEF RegisteredAt
    <3> QED BY <3>1, <3>2
  <2>3. g = [i \in 0 .. n + 1 |-> g[i]]
    OBVIOUS
  <2> HIDE DEF g
  <2>4. Registers(g, d, n + 1)
    BY <2>2, <2>3 DEF Registers
  <2> QED BY <2>4
<1>3. \A n \in Nat : n \in T => n + 1 \in T
  BY <1>2
<1> HIDE DEF T
<1>4. Nat \subseteq T
  BY <1>1, <1>3, NumbersBelong
<1> QED BY <1>4 DEF T

\* RegisteredAfter is what the loop does.
LEMMA RegisteredAfterTurns ==
  ASSUME NEW d, Len(notifyList) \in Nat
  PROVE  /\ RegisteredAfter(d, 0) = registered[d]
         /\ \A k \in 1 .. Len(notifyList) :
              RegisteredAfter(d, k) =
                RegisteredAfter(d, k - 1) \cup {Kept(RegisteredAfter(d, k - 1), notifyList[k].reg)}
<1> DEFINE g == CHOOSE f : Registers(f, d, Len(notifyList))
<1>1. Registers(g, d, Len(notifyList))
  BY LoopRegisters
<1>2. \A k : RegisteredAfter(d, k) = g[k]
  BY DEF RegisteredAfter, Registers, RegisteredAt
<1> HIDE DEF g
<1>3. \A k \in 0 .. Len(notifyList) : g[k] = RegisteredAt(g, d, k)
  BY <1>1 DEF Registers
<1>4. g[0] = registered[d]
  <2>1. 0 \in 0 .. Len(notifyList)
    OBVIOUS
  <2> QED BY <1>3, <2>1 DEF RegisteredAt
<1>5. ASSUME NEW k \in 1 .. Len(notifyList)
      PROVE  g[k] = g[k - 1] \cup {Kept(g[k - 1], notifyList[k].reg)}
  <2>1. k \in 0 .. Len(notifyList) /\ k # 0
    OBVIOUS
  <2> QED BY <1>3, <2>1 DEF RegisteredAt
<1> QED BY <1>2, <1>4, <1>5

\* A console keeps a registration.
LEMMA KeptIsRegistration ==
  ASSUME NEW regs \in SUBSET Registration, NEW reg \in Registration
  PROVE  Kept(regs, reg) \in Registration
<1>1. CASE reg \in regs \/ ~ \E r \in regs : SameNotify(r, reg)
  BY <1>1 DEF Kept
<1>2. CASE ~(reg \in regs \/ ~ \E r \in regs : SameNotify(r, reg))
  <2>1. \E r \in regs : SameNotify(r, reg)
    BY <1>2
  <2>2. Kept(regs, reg) = CHOOSE r \in regs : SameNotify(r, reg)
    BY <1>2 DEF Kept
  <2>3. (CHOOSE r \in regs : SameNotify(r, reg)) \in regs
    BY <2>1
  <2> QED BY <2>2, <2>3
<1> QED BY <1>1, <1>2

\* One that is like no other it keeps as it is.
LEMMA KeptIfNew ==
  ASSUME NEW regs, NEW reg, \A r \in regs : ~SameNotify(r, reg)
  PROVE  Kept(regs, reg) = reg
BY DEF Kept

\* A registration is like itself.
LEMMA SameAsItself == \A reg : SameNotify(reg, reg)
BY DEF SameNotify, IsKeyRegistered

\* Whatever a console had, registrations are what it keeps.
LEMMA TurnsRegister ==
  ASSUME NotifyTypes, NEW d \in Devices
  PROVE  \A k \in 0 .. Len(notifyList) : RegisteredAfter(d, k) \in SUBSET Registration
<1>0. Len(notifyList) \in Nat
  BY LenProperties DEF NotifyTypes
<1> DEFINE T == {k \in Nat : k <= Len(notifyList) => RegisteredAfter(d, k) \in SUBSET Registration}
<1>1. 0 \in T
  <2>1. RegisteredAfter(d, 0) \in SUBSET Registration
    BY <1>0, RegisteredAfterTurns DEF NotifyTypes
  <2> QED BY <2>1
<1>2. ASSUME NEW k \in Nat, k \in T PROVE k + 1 \in T
  <2> SUFFICES ASSUME k + 1 <= Len(notifyList)
               PROVE  RegisteredAfter(d, k + 1) \in SUBSET Registration
    OBVIOUS
  <2>1. RegisteredAfter(d, k) \in SUBSET Registration
    BY <1>0, <1>2
  <2>2. k + 1 \in 1 .. Len(notifyList) /\ (k + 1) - 1 = k
    BY <1>0
  <2>3. notifyList[k + 1] \in Entry
    BY <2>2, ElementOfSeq DEF NotifyTypes
  <2>4. Kept(RegisteredAfter(d, k), notifyList[k + 1].reg) \in Registration
    BY <2>1, <2>3, KeptIsRegistration DEF Entry
  <2>5. RegisteredAfter(d, k + 1) = RegisteredAfter(d, k)
          \cup {Kept(RegisteredAfter(d, k), notifyList[k + 1].reg)}
    <3>1. \A j \in 1 .. Len(notifyList) :
            RegisteredAfter(d, j) =
              RegisteredAfter(d, j - 1) \cup {Kept(RegisteredAfter(d, j - 1), notifyList[j].reg)}
      BY <1>0, RegisteredAfterTurns
    <3>2. PICK j \in 1 .. Len(notifyList) : j = k + 1 /\ j - 1 = k
      BY <2>2
    <3>3. RegisteredAfter(d, j) =
            RegisteredAfter(d, k) \cup {Kept(RegisteredAfter(d, k), notifyList[j].reg)}
      BY <3>1, <3>2
    <3> QED BY <3>2, <3>3
  <2>6. \A A, B, x : A \in SUBSET B /\ x \in B => A \cup {x} \in SUBSET B
    OBVIOUS
  <2> HIDE DEF T
  <2> QED BY <2>1, <2>4, <2>5, <2>6
<1>3. \A k \in Nat : k \in T => k + 1 \in T
  BY <1>2
<1> HIDE DEF T
<1>4. Nat \subseteq T
  BY <1>1, <1>3, NumbersBelong
<1> QED BY <1>0, <1>4 DEF T

\* A console that has no registrations gets those of the list, one by one.
LEMMA FreshConsole ==
  ASSUME NotifyTypes, NotifiesDiffer, NEW d \in Devices, registered[d] = {}
  PROVE  /\ \A k \in 0 .. Len(notifyList) :
              RegisteredAfter(d, k) = {notifyList[i].reg : i \in 1 .. k}
         /\ \A i \in 1 .. Len(notifyList) :
              NewHandle(d, i) = [dev |-> d, reg |-> notifyList[i].reg]
<1>0. Len(notifyList) \in Nat
  BY LenProperties DEF NotifyTypes
<1> DEFINE First(k) == {notifyList[i].reg : i \in 1 .. k}
           T == {k \in Nat : k <= Len(notifyList) => RegisteredAfter(d, k) = First(k)}
<1>1. ASSUME NEW k \in Nat, k + 1 <= Len(notifyList)
      PROVE  Kept(First(k), notifyList[k + 1].reg) = notifyList[k + 1].reg
  <2>1. ASSUME NEW r \in First(k) PROVE ~SameNotify(r, notifyList[k + 1].reg)
    <3>1. PICK i \in 1 .. k : r = notifyList[i].reg
      BY <2>1
    <3>2. i \in Positions(notifyList) /\ k + 1 \in Positions(notifyList) /\ i < k + 1
      BY <1>0, <1>1 DEF Positions
    <3> QED BY <3>1, <3>2 DEF NotifiesDiffer
  <2> HIDE DEF First
  <2> QED BY <2>1, KeptIfNew
<1>2. 0 \in T
  <2>1. RegisteredAfter(d, 0) = {}
    BY <1>0, RegisteredAfterTurns
  <2>2. First(0) = {}
    OBVIOUS
  <2> HIDE DEF First
  <2> QED BY <2>1, <2>2
<1>3. ASSUME NEW k \in Nat, k \in T PROVE k + 1 \in T
  <2> SUFFICES ASSUME k + 1 <= Len(notifyList) PROVE RegisteredAfter(d, k + 1) = First(k + 1)
    OBVIOUS
  <2>1. RegisteredAfter(d, k) = First(k)
    BY <1>0, <1>3
  <2>2. k + 1 \in 1 .. Len(notifyList) /\ (k + 1) - 1 = k
    BY <1>0
  <2>3. First(k + 1) = First(k) \cup {notifyList[k + 1].reg}
    <3>1. \A i : i \in 1 .. k + 1 <=> i \in 1 .. k \/ i = k + 1
      OBVIOUS
    <3> QED BY <3>1, Zenon
  <2> HIDE DEF T, First
  <2>4. RegisteredAfter(d, k + 1) = RegisteredAfter(d, k)
          \cup {Kept(RegisteredAfter(d, k), notifyList[k + 1].reg)}
    <3>1. \A i \in 1 .. Len(notifyList) :
            RegisteredAfter(d, i) = RegisteredAfter(d, i - 1)
              \cup {Kept(RegisteredAfter(d, i - 1), notifyList[i].reg)}
      BY <1>0, RegisteredAfterTurns
    <3> QED BY <2>2, <3>1
  <2> QED BY <1>1, <2>1, <2>3, <2>4
<1>4. \A k \in Nat : k \in T => k + 1 \in T
  BY <1>3
<1> HIDE DEF T
<1>5. Nat \subseteq T
  BY <1>2, <1>4, NumbersBelong
<1>6. \A k \in 0 .. Len(notifyList) : RegisteredAfter(d, k) = First(k)
  BY <1>0, <1>5 DEF T
<1> HIDE DEF First
<1>7. ASSUME NEW i \in 1 .. Len(notifyList)
      PROVE  NewHandle(d, i) = [dev |-> d, reg |-> notifyList[i].reg]
  <2>1. i - 1 \in 0 .. Len(notifyList) /\ i - 1 \in Nat /\ (i - 1) + 1 = i /\ i <= Len(notifyList)
    BY <1>0
  <2>2. RegisteredAfter(d, i - 1) = First(i - 1)
    BY <1>6, <2>1
  <2>3. Kept(First(i - 1), notifyList[i].reg) = notifyList[i].reg
    BY <1>1, <2>1
  <2> QED BY <2>2, <2>3 DEF NewHandle, Handle
<1> QED BY <1>6, <1>7 DEF First

\* A handle list that is grown keeps its handles.
LEMMA GrownIsRight ==
  ASSUME ListInv, NEW entry \in Entry, Len(entry.handles) >= exCount
  PROVE  /\ Grown(entry) \in Entry /\ Grown(entry).reg = entry.reg
         /\ Len(Grown(entry).handles) = Room(exList, exCount)
         /\ Len(Grown(entry).handles) >= exCount
         /\ \A j \in Positions(exList) : Grown(entry).handles[j] = entry.handles[j]
<1>1. /\ exList \in Seq(ExDevices) /\ exCount \in Nat /\ Len(exList) <= exCount
      /\ Len(exList) \in Nat /\ Len(entry.handles) \in Nat
  BY LenProperties DEF ListInv, Entry
<1>2. PICK n : n = Room(exList, exCount)
  OBVIOUS
<1>3. n \in Nat /\ n >= exCount
  BY <1>1, <1>2, RoomIsRight
<1> DEFINE h == [i \in 1 .. n |-> IF i <= exCount THEN entry.handles[i] ELSE NoHandle]
<1>4. \A i \in 1 .. n : i <= exCount => entry.handles[i] \in Handles \cup {NoHandle}
  <2>1. \A i \in 1 .. Len(entry.handles) : entry.handles[i] \in Handles \cup {NoHandle}
    BY ElementOfSeq DEF Entry
  <2>2. \A i \in 1 .. n : i <= exCount => i \in 1 .. Len(entry.handles)
    BY <1>1, <1>3
  <2> QED BY <2>1, <2>2
<1>5. h \in [1 .. n -> Handles \cup {NoHandle}]
  BY <1>4
<1>6. h \in Seq(Handles \cup {NoHandle}) /\ Len(h) = n
  BY <1>3, <1>5, FunctionIsSeq
<1>7. \A j \in Positions(exList) : h[j] = entry.handles[j]
  BY <1>1, <1>3 DEF Positions
<1>8. Grown(entry) = [entry EXCEPT !.handles = h]
  BY <1>2 DEF Grown
<1> HIDE DEF h
<1>9. Grown(entry) = [reg |-> entry.reg, handles |-> h] /\ entry.reg \in Registration
  BY <1>8 DEF Entry
<1> QED BY <1>2, <1>3, <1>6, <1>7, <1>9 DEF Entry

\* Some handle lists grow and some do not.
LEMMA EntriesAre ==
  ASSUME NotifyTypes
  PROVE  /\ Len(notifyList) \in Nat
         /\ \A i \in Positions(notifyList) :
              /\ notifyList[i] \in Entry /\ Len(notifyList[i].handles) >= exCount
              /\ notifyList[i].reg \in Registration
<1>1. Len(notifyList) \in Nat /\ \A i \in Positions(notifyList) : notifyList[i] \in Entry
  BY LenProperties, ElementOfSeq DEF NotifyTypes, Positions
<1> QED BY <1>1 DEF NotifyTypes, Entry

\* A list of entries with the registrations of NotifyList and with its handles
\* for the consoles there are.
SameEntries(list, room) ==
  /\ list \in Seq(Entry) /\ Len(list) = Len(notifyList)
  /\ \A i \in Positions(notifyList) :
       /\ list[i].reg = notifyList[i].reg /\ Len(list[i].handles) >= room
       /\ \A j \in Positions(exList) : list[i].handles[j] = notifyList[i].handles[j]

\* Entries that are right one by one make a list.
LEMMA EntriesMakeList ==
  ASSUME NotifyTypes, NEW room, NEW list, DOMAIN list = Positions(notifyList),
         list = [i \in Positions(notifyList) |-> list[i]],
         \A i \in Positions(notifyList) :
           /\ list[i] \in Entry /\ list[i].reg = notifyList[i].reg
           /\ Len(list[i].handles) >= room
           /\ \A j \in Positions(exList) : list[i].handles[j] = notifyList[i].handles[j]
  PROVE  SameEntries(list, room)
<1>1. Len(notifyList) \in Nat
  BY EntriesAre
<1>2. list \in [1 .. Len(notifyList) -> Entry]
  BY DEF Positions
<1>3. list \in Seq(Entry) /\ Len(list) = Len(notifyList)
  BY <1>1, <1>2, FunctionIsSeq
<1> QED BY <1>3 DEF SameEntries

\* The handle lists that could grow have.
LEMMA GrownList ==
  ASSUME ListInv, NotifyTypes, NEW k,
         notifyList' = [i \in Positions(notifyList) |->
           IF i <= k THEN Grown(notifyList[i]) ELSE notifyList[i]]
  PROVE  SameEntries(notifyList', exCount)
<1> DEFINE list == [i \in Positions(notifyList) |->
                      IF i <= k THEN Grown(notifyList[i]) ELSE notifyList[i]]
<1>1. DOMAIN list = Positions(notifyList) /\ list = [i \in Positions(notifyList) |-> list[i]]
  OBVIOUS
<1>2. ASSUME NEW i \in Positions(notifyList)
      PROVE  /\ list[i] \in Entry /\ list[i].reg = notifyList[i].reg
             /\ Len(list[i].handles) >= exCount
             /\ \A j \in Positions(exList) : list[i].handles[j] = notifyList[i].handles[j]
  <2>1. notifyList[i] \in Entry /\ Len(notifyList[i].handles) >= exCount
    BY EntriesAre
  <2>2. list[i] = Grown(notifyList[i]) \/ list[i] = notifyList[i]
    OBVIOUS
  <2> HIDE DEF list
  <2>3. CASE list[i] = notifyList[i]
    BY <2>1, <2>3
  <2>4. CASE list[i] = Grown(notifyList[i])
    BY <2>1, <2>4, GrownIsRight
  <2> QED BY <2>2, <2>3, <2>4
<1> HIDE DEF list
<1>3. SameEntries(list, exCount)
  BY <1>1, <1>2, EntriesMakeList
<1> QED BY <1>3 DEF list

\* The handles of a new console are stored behind those of the others.
LEMMA ListWithConsole ==
  ASSUME ListInv, NotifyTypes, NEW d \in ExDevices, NEW k \in 0 .. Len(notifyList)
  PROVE  /\ SameEntries(NotifyListWith(d, k), Room(exList, exCount))
         /\ \A i \in Positions(notifyList) :
              i <= k => NotifyListWith(d, k)[i].handles[Len(exList) + 1] = NewHandle(d, i)
<1>0. /\ exList \in Seq(ExDevices) /\ exCount \in Nat /\ Len(exList) <= exCount
      /\ Len(exList) \in Nat
  BY LenProperties DEF ListInv
<1>1. PICK n : n = Room(exList, exCount)
  OBVIOUS
<1>2. n \in Nat /\ n >= exCount /\ Len(exList) + 1 \in 1 .. n
  <2>1. n \in Nat /\ n >= exCount /\ Len(exList) + 1 <= n
    BY <1>0, <1>1, RoomIsRight
  <2> QED BY <1>0, <2>1
<1> DEFINE list == NotifyListWith(d, k)
<1>3. DOMAIN list = Positions(notifyList) /\ list = [i \in Positions(notifyList) |-> list[i]]
  BY DEF NotifyListWith
<1>4. ASSUME NEW i \in Positions(notifyList)
      PROVE  /\ list[i] \in Entry /\ list[i].reg = notifyList[i].reg
             /\ Len(list[i].handles) >= n
             /\ \A j \in Positions(exList) : list[i].handles[j] = notifyList[i].handles[j]
             /\ i <= k => list[i].handles[Len(exList) + 1] = NewHandle(d, i)
  <2>1. notifyList[i] \in Entry /\ Len(notifyList[i].handles) >= exCount
    BY EntriesAre
  <2>2. PICK g : g = Grown(notifyList[i])
    OBVIOUS
  <2>3. /\ g \in Entry /\ g.reg = notifyList[i].reg /\ Len(g.handles) = n
        /\ \A j \in Positions(exList) : g.handles[j] = notifyList[i].handles[j]
    BY <1>1, <2>1, <2>2, GrownIsRight
  <2>4. CASE i <= k
    <3>1. PICK h : h = NewHandle(d, i)
      OBVIOUS
    <3>2. h \in Handles
      <4>1. d \in Devices /\ i \in 1 .. Len(notifyList) /\ i - 1 \in 0 .. Len(notifyList)
        BY DevicesAssumption, EntriesAre DEF DevicesAssumption, Positions
      <4>2. RegisteredAfter(d, i - 1) \in SUBSET Registration
        BY <4>1, TurnsRegister
      <4>3. Kept(RegisteredAfter(d, i - 1), notifyList[i].reg) \in Registration
        BY <2>1, <4>2, KeptIsRegistration DEF Entry
      <4> QED BY <3>1, <4>3 DEF NewHandle, Handle, Handles
    <3>3. list[i] = [g EXCEPT !.handles[Len(exList) + 1] = h]
      BY <2>2, <2>4, <3>1 DEF NotifyListWith
    <3>4. g.handles \in Seq(Handles \cup {NoHandle}) /\ g.reg \in Registration
          /\ g = [reg |-> g.reg, handles |-> g.handles]
      BY <2>3 DEF Entry
    <3> DEFINE hs == [g.handles EXCEPT ![Len(exList) + 1] = h]
    <3>5. list[i] = [reg |-> g.reg, handles |-> hs]
      <4>1. [g EXCEPT !.handles[Len(exList) + 1] = h] = [g EXCEPT !.handles = hs]
        OBVIOUS
      <4> HIDE DEF hs, list
      <4> QED BY <3>3, <3>4, <4>1
    <3>6. /\ hs \in Seq(Handles \cup {NoHandle}) /\ Len(hs) = n
          /\ hs[Len(exList) + 1] = h
          /\ \A j \in 1 .. n : j # Len(exList) + 1 => hs[j] = g.handles[j]
      BY <1>2, <2>3, <3>2, <3>4, ExceptSeq
    <3> HIDE DEF hs, list
    <3>7. \A j \in Positions(exList) : hs[j] = g.handles[j]
      BY <1>0, <1>2, <3>6 DEF Positions
    <3> QED BY <1>2, <2>3, <3>1, <3>4, <3>5, <3>6, <3>7 DEF Entry
  <2>5. CASE ~(i <= k)
    <3>1. list[i] = g
      BY <2>2, <2>5 DEF NotifyListWith
    <3> HIDE DEF list
    <3> QED BY <1>2, <2>3, <2>5, <3>1
  <2> QED BY <2>4, <2>5
<1> HIDE DEF list
<1>5. SameEntries(list, n)
  BY <1>3, <1>4, EntriesMakeList
<1> QED BY <1>1, <1>4, <1>5 DEF list

\* Entries that have changed in their room only register the same.
LEMMA SameEntriesRegister ==
  ASSUME NotifyTypes, NotifiesDiffer, NEW room, SameEntries(notifyList', room)
  PROVE  /\ NotifiesDiffer' /\ Positions(notifyList') = Positions(notifyList)
         /\ {notifyList'[i].reg : i \in Positions(notifyList')} =
              {notifyList[i].reg : i \in Positions(notifyList)}
<1>1. Positions(notifyList') = Positions(notifyList)
  BY DEF SameEntries, Positions
<1>2. \A i \in Positions(notifyList) : notifyList'[i].reg = notifyList[i].reg
  BY DEF SameEntries
<1> QED BY <1>1, <1>2 DEF NotifiesDiffer

\* Steps that change the room of the handle lists, and no list of consoles.
LEMMA RoomKeepsNotifies ==
  ASSUME NotifyInv, SameEntries(notifyList', exCount'), UNCHANGED <<exList, everStopped>>,
         registered' \in [Devices -> SUBSET Registration],
         ~everStopped => \A d \in ExDevices : registered'[d] = registered[d]
  PROVE  NotifyInv'
<1>1. /\ NotifiesDiffer' /\ Positions(notifyList') = Positions(notifyList)
      /\ {notifyList'[i].reg : i \in Positions(notifyList')} =
           {notifyList[i].reg : i \in Positions(notifyList)}
  BY SameEntriesRegister DEF NotifyInv
<1>2. NotifyTypes'
  BY <1>1 DEF NotifyTypes, SameEntries
<1>3. HandlesMatch'
  <2> SUFFICES ASSUME ~everStopped, NEW i \in Positions(notifyList), NEW j \in Positions(exList)
               PROVE  notifyList'[i].handles[j] = [dev |-> exList[j], reg |-> notifyList'[i].reg]
    BY <1>1 DEF HandlesMatch
  <2>1. notifyList'[i].reg = notifyList[i].reg
        /\ notifyList'[i].handles[j] = notifyList[i].handles[j]
    BY DEF SameEntries
  <2>2. notifyList[i].handles[j] = [dev |-> exList[j], reg |-> notifyList[i].reg]
    BY DEF HandlesMatch, NotifyInv
  <2> QED BY <2>1, <2>2
<1>4. RegistrationsMatch'
  <2> SUFFICES ASSUME ~everStopped, NEW d \in ExDevices
               PROVE  registered'[d] = IF d \in Listed(exList')
                        THEN {notifyList'[i].reg : i \in Positions(notifyList')} ELSE {}
    BY DEF RegistrationsMatch
  <2>1. registered[d] = IF d \in Listed(exList)
                        THEN {notifyList[i].reg : i \in Positions(notifyList)} ELSE {}
    BY DEF RegistrationsMatch, NotifyInv
  <2>2. exList' = exList /\ registered'[d] = registered[d]
    OBVIOUS
  <2> QED BY <1>1, <2>1, <2>2
<1> QED BY <1>1, <1>2, <1>3, <1>4 DEF NotifyInv

\* A console that is not connected has no registrations, until one is taken
\* away.
LEMMA NewIsFresh ==
  ASSUME ListInv, NotifyInv, ~everStopped, NEW d \in ExDevices, d \notin opened
  PROVE  registered[d] = {}
<1>1. d \notin Listed(exList)
  BY DEF ListInv
<1> QED BY <1>1 DEF NotifyInv, RegistrationsMatch

\* Steps that leave the registrations alone.
LEMMA OthersKeepNotifies ==
  ASSUME NotifyInv, UNCHANGED <<exList, exCount, notifyList, registered, everStopped>>
  PROVE  NotifyInv'
BY ZenonT(30) DEF NotifyInv, NotifyTypes, NotifiesDiffer, HandlesMatch, RegistrationsMatch

\* A console is connected.
LEMMA StartKeepsNotifies ==
  ASSUME ListInv, NotifyInv, NEW d \in Devices, ConInStart(d)
  PROVE  NotifyInv'
<1>1. /\ TextInAddDevice(d) /\ everStopped' = everStopped /\ d \notin opened
      /\ IF d \in ExDevices THEN TextInExAddDevice(d)
         ELSE UNCHANGED <<notifyList, registered, exCount, exList>>
  BY DEF ConInStart, TextInAddDevice
<1>2. CASE d \notin ExDevices
  BY <1>1, <1>2, OthersKeepNotifies
<1>3. CASE d \in ExDevices
  <2> DEFINE L == Len(notifyList)
  <2>1. /\ notifyList' = NotifyListWith(d, L)
        /\ registered' = [registered EXCEPT ![d] = RegisteredAfter(d, L)]
        /\ exCount' = Room(exList, exCount)
        /\ exList' = Append(exList, d)
    BY <1>1, <1>3 DEF TextInExAddDevice
  <2>2. /\ Len(exList') = Len(exList) + 1 /\ Listed(exList') = Listed(exList) \cup {d}
        /\ exList'[Len(exList) + 1] = d /\ \A i \in Positions(exList) : exList'[i] = exList[i]
        /\ Len(exList) \in Nat /\ exList \in Seq(ExDevices)
    BY <1>1, <1>3, <2>1, ExAddKeepsLists, LenProperties DEF ListInv
  <2>3. \A j \in Positions(exList') : j \in Positions(exList) \/ j = Len(exList) + 1
    BY <2>2 DEF Positions
  <2>4. L \in Nat /\ L \in 0 .. L /\ \A i \in Positions(notifyList) : i <= L /\ i \in 1 .. L
    BY EntriesAre DEF NotifyInv, Positions
  <2> HIDE DEF L
  <2>5. SameEntries(notifyList', exCount')
        /\ \A i \in Positions(notifyList) : notifyList'[i].handles[Len(exList) + 1] = NewHandle(d,
          i)
    <3>1. /\ SameEntries(NotifyListWith(d, L), Room(exList, exCount))
          /\ \A i \in Positions(notifyList) :
              i <= L => NotifyListWith(d, L)[i].handles[Len(exList) + 1] = NewHandle(d, i)
      BY <1>3, <2>4, ListWithConsole DEF NotifyInv, L
    <3> QED BY <2>1, <2>4, <3>1
  <2>6. /\ NotifiesDiffer' /\ Positions(notifyList') = Positions(notifyList)
        /\ {notifyList'[i].reg : i \in Positions(notifyList')} =
             {notifyList[i].reg : i \in Positions(notifyList)}
    BY <2>5, SameEntriesRegister DEF NotifyInv
  <2>7. registered \in [Devices -> SUBSET Registration]
        /\ RegisteredAfter(d, L) \in SUBSET Registration
    BY <2>4, TurnsRegister DEF NotifyInv, NotifyTypes, L
  <2>8. /\ registered' \in [Devices -> SUBSET Registration]
           /\ registered'[d] = RegisteredAfter(d, L)
        /\ \A c \in Devices : c # d => registered'[c] = registered[c]
    BY <2>1, <2>7
  <2>9. NotifyTypes'
    BY <2>5, <2>6, <2>8 DEF NotifyTypes, SameEntries
  <2>10. ~everStopped =>
           /\ RegisteredAfter(d, L) = {notifyList[i].reg : i \in Positions(notifyList)}
           /\ \A i \in Positions(notifyList) : NewHandle(d, i) = [dev |-> d,
             reg |-> notifyList[i].reg]
    <3> SUFFICES ASSUME ~everStopped
                 PROVE  /\ RegisteredAfter(d, L) = {notifyList[i].reg : i \in Positions(notifyList)}
                        /\ \A i \in Positions(notifyList) :
                             NewHandle(d, i) = [dev |-> d, reg |-> notifyList[i].reg]
      OBVIOUS
    <3>1. registered[d] = {}
      BY <1>1, <1>3, NewIsFresh
    <3>2. RegisteredAfter(d, L) = {notifyList[i].reg : i \in 1 .. L}
          /\ \A i \in 1 .. L : NewHandle(d, i) = [dev |-> d, reg |-> notifyList[i].reg]
      BY <2>4, <3>1, FreshConsole DEF NotifyInv, L
    <3> QED BY <3>2 DEF Positions, L
  <2>11. HandlesMatch'
    <3> SUFFICES ASSUME ~everStopped, NEW i \in Positions(notifyList), NEW j \in Positions(exList')
                 PROVE  notifyList'[i].handles[j] = [dev |-> exList'[j], reg |-> notifyList'[i].reg]
      BY <1>1, <2>6 DEF HandlesMatch
    <3>1. notifyList'[i].reg = notifyList[i].reg
      BY <2>5 DEF SameEntries
    <3>2. CASE j \in Positions(exList)
      <4>1. notifyList'[i].handles[j] = notifyList[i].handles[j] /\ exList'[j] = exList[j]
        BY <2>2, <2>5, <3>2 DEF SameEntries
      <4>2. notifyList[i].handles[j] = [dev |-> exList[j], reg |-> notifyList[i].reg]
        BY <3>2 DEF NotifyInv, HandlesMatch
      <4> QED BY <3>1, <4>1, <4>2
    <3>3. CASE j = Len(exList) + 1
      BY <2>2, <2>5, <2>10, <3>1, <3>3
    <3> QED BY <2>3, <3>2, <3>3
  <2>12. RegistrationsMatch'
    <3> SUFFICES ASSUME ~everStopped, NEW c \in ExDevices
                 PROVE  registered'[c] = IF c \in Listed(exList')
                          THEN {notifyList'[i].reg : i \in Positions(notifyList')} ELSE {}
      BY <1>1 DEF RegistrationsMatch
    <3>1. CASE c = d
      BY <2>2, <2>6, <2>8, <2>10, <3>1
    <3>2. CASE c # d
      <4>1. registered'[c] = registered[c]
        BY <2>8, <3>2, DevicesAssumption DEF DevicesAssumption
      <4>2. registered[c] = IF c \in Listed(exList)
                        THEN {notifyList[i].reg : i \in Positions(notifyList)} ELSE {}
        BY DEF RegistrationsMatch, NotifyInv
      <4>3. c \in Listed(exList') <=> c \in Listed(exList)
        BY <2>2, <3>2
      <4> QED BY <2>6, <4>1, <4>2, <4>3
    <3> QED BY <3>1, <3>2
  <2> QED BY <2>6, <2>9, <2>11, <2>12 DEF NotifyInv
<1> QED BY <1>2, <1>3

\* The lists of the Ex consoles cannot grow.
LEMMA NoExRoomKeepsNotifies ==
  ASSUME ListInv, NotifyInv, NEW d \in Devices, NEW k, StartWithoutExRoom(d, k)
  PROVE  NotifyInv'
<1>1. /\ notifyList' = [i \in Positions(notifyList) |->
           IF i <= k THEN Grown(notifyList[i]) ELSE notifyList[i]]
      /\ UNCHANGED <<exList, exCount, registered, everStopped>>
  BY DEF StartWithoutExRoom
<1>2. SameEntries(notifyList', exCount')
  BY <1>1, GrownList DEF NotifyInv
<1> QED BY <1>1, <1>2, RoomKeepsNotifies DEF NotifyInv, NotifyTypes

\* A console refuses a registration: what it has accepted is taken back.
LEMMA RefusalKeepsNotifies ==
  ASSUME ListInv, NotifyInv, NEW d \in Devices, NEW k \in 0 .. Len(notifyList), StartRefused(d, k)
  PROVE  NotifyInv'
<1>1. /\ d \in ExDevices /\ d \notin opened
      /\ notifyList' = NotifyListWith(d, k)
      /\ registered' = [registered EXCEPT ![d] = RolledBack(d, k)]
      /\ exCount' = Room(exList, exCount)
      /\ UNCHANGED <<exList, everStopped>>
  BY DEF StartRefused, TextInAddDevice
<1>2. SameEntries(notifyList', exCount')
  BY <1>1, ListWithConsole DEF NotifyInv
<1>3. registered \in [Devices -> SUBSET Registration]
      /\ RegisteredAfter(d, k) \in SUBSET Registration
  BY TurnsRegister DEF NotifyInv, NotifyTypes
<1>4. RolledBack(d, k) \in SUBSET Registration
  BY <1>3 DEF RolledBack
<1>5. /\ registered' \in [Devices -> SUBSET Registration] /\ registered'[d] = RolledBack(d, k)
      /\ \A c \in Devices : c # d => registered'[c] = registered[c]
  BY <1>1, <1>3, <1>4
<1>6. ~everStopped => RolledBack(d, k) = registered[d]
  <2> SUFFICES ASSUME ~everStopped PROVE RolledBack(d, k) = registered[d]
    OBVIOUS
  <2>1. registered[d] = {}
    BY <1>1, NewIsFresh
  <2>2. /\ RegisteredAfter(d, k) = {notifyList[i].reg : i \in 1 .. k}
        /\ \A i \in 1 .. Len(notifyList) : NewHandle(d, i) = [dev |-> d, reg |-> notifyList[i].reg]
    BY <2>1, FreshConsole DEF NotifyInv
  <2>3. \A i \in 1 .. k : i \in 1 .. Len(notifyList)
    BY EntriesAre DEF NotifyInv
  <2>4. \A i \in 1 .. k : NewHandle(d, i).reg = notifyList[i].reg
    BY <2>2, <2>3
  <2> QED BY <2>1, <2>2, <2>4 DEF RolledBack
<1>7. ~everStopped => \A c \in ExDevices : registered'[c] = registered[c]
  BY <1>5, <1>6, DevicesAssumption DEF DevicesAssumption
<1> QED BY <1>1, <1>2, <1>5, <1>7, RoomKeepsNotifies

\* A console is taken away: its registrations stay.
LEMMA StopKeepsNotifies ==
  ASSUME NotifyInv, NEW d \in Devices, ConInStop(d)
  PROVE  NotifyInv'
<1>1. everStopped' = TRUE /\ UNCHANGED <<exCount, notifyList, registered>>
  BY DEF ConInStop, consoles
<1> QED BY <1>1 DEF NotifyInv, NotifyTypes, NotifiesDiffer, HandlesMatch, RegistrationsMatch

\* A console's driver goes, and its registrations with it.
LEMMA GoneKeepsNotifies ==
  ASSUME ListInv, NotifyInv, NEW d \in Devices, DeviceGone(d)
  PROVE  NotifyInv'
<1>1. /\ d \notin opened /\ registered' = [registered EXCEPT ![d] = {}]
      /\ UNCHANGED <<exList, exCount, notifyList, everStopped>>
  BY DEF DeviceGone, lists
<1>2. registered \in [Devices -> SUBSET Registration]
  BY DEF NotifyInv, NotifyTypes
<1>3. /\ registered' \in [Devices -> SUBSET Registration] /\ registered'[d] = {}
      /\ \A c \in Devices : c # d => registered'[c] = registered[c]
  BY <1>1, <1>2
<1>4. NotifyTypes' /\ NotifiesDiffer' /\ HandlesMatch'
  BY <1>1, <1>3 DEF NotifyInv, NotifyTypes, NotifiesDiffer, HandlesMatch
<1>5. RegistrationsMatch'
  <2>1. d \notin Listed(exList)
    BY <1>1 DEF ListInv
  <2> QED BY <1>1, <1>3, <2>1, DevicesAssumption DEF NotifyInv, RegistrationsMatch,
      DevicesAssumption
<1> QED BY <1>4, <1>5 DEF NotifyInv

\* What a call about registrations leaves alone.
LEMMA NotifiesKeepConsoles ==
  ASSUME ConsolesInv, NotifiesOnly, faults' \in 0 .. MaxFaults
  PROVE  ConsolesInv'
BY OthersKeepConsoles DEF NotifiesOnly, keys, ConsolesInv, Flags

\* A client registers.
LEMMA RegisterKeepsNotifies ==
  ASSUME ListInv, NotifyInv, NEW reg \in Registration, RegisterKeyNotify(reg)
  PROVE  NotifyInv'
<1> DEFINE h == [i \in 1 .. exCount |->
                   IF i <= Len(exList) THEN Handle(exList[i], registered[exList[i]], reg)
                   ELSE NoHandle]
           new == [reg |-> reg, handles |-> h]
<1>1. /\ notifyList' = Append(notifyList, new)
      /\ registered' = [d \in Devices |->
           IF d \in Listed(exList) THEN registered[d] \cup {Kept(registered[d], reg)}
           ELSE registered[d]]
      /\ \A i \in Positions(notifyList) : ~SameNotify(notifyList[i].reg, reg)
      /\ UNCHANGED <<exList, exCount, everStopped>>
  BY DEF RegisterKeyNotify, NotifiesOnly, AlreadyRegistered
<1>2. /\ exList \in Seq(ExDevices) /\ exCount \in Nat /\ Len(exList) <= exCount
      /\ Len(exList) \in Nat /\ registered \in [Devices -> SUBSET Registration]
      /\ notifyList \in Seq(Entry) /\ Len(notifyList) \in Nat
  BY LenProperties DEF ListInv, NotifyInv, NotifyTypes
<1>3. \A i \in 1 .. Len(exList) : exList[i] \in ExDevices /\ exList[i] \in Devices
                                  /\ exList[i] \in Listed(exList)
  BY <1>2, ElementOfSeq, DevicesAssumption DEF DevicesAssumption, Listed, Positions
<1>4. \A d \in Devices : Kept(registered[d], reg) \in Registration
  BY <1>2, KeptIsRegistration
<1>5. \A i \in 1 .. exCount : h[i] \in Handles \cup {NoHandle}
  BY <1>2, <1>3, <1>4 DEF Handle, Handles
<1>6. h \in Seq(Handles \cup {NoHandle}) /\ Len(h) = exCount
  <2>1. h \in [1 .. exCount -> Handles \cup {NoHandle}]
    BY <1>5
  <2> HIDE DEF h
  <2> QED BY <1>2, <2>1, FunctionIsSeq
<1>7. \A i \in 1 .. Len(exList) : h[i] = [dev |-> exList[i],
      reg |-> Kept(registered[exList[i]], reg)]
  BY <1>2 DEF Handle
<1> HIDE DEF h
<1>8. new \in Entry /\ new.reg = reg /\ new.handles = h
  BY <1>6 DEF Entry
<1> HIDE DEF new
<1>9. /\ notifyList' \in Seq(Entry) /\ Len(notifyList') = Len(notifyList) + 1
      /\ \A i \in 1 .. Len(notifyList) : notifyList'[i] = notifyList[i]
      /\ notifyList'[Len(notifyList) + 1] = new
  BY <1>1, <1>2, <1>8, AppendProperties
<1>10. /\ \A i \in Positions(notifyList') : i \in Positions(notifyList) \/ i = Len(notifyList) + 1
       /\ \A i \in Positions(notifyList) :
            i \in Positions(notifyList') /\ notifyList'[i] = notifyList[i]
              /\ i < Len(notifyList) + 1
       /\ Len(notifyList) + 1 \in Positions(notifyList')
       /\ \A i \in Positions(notifyList') : i \in Nat /\ i <= Len(notifyList) + 1
  BY <1>2, <1>9 DEF Positions
<1>11. /\ registered' \in [Devices -> SUBSET Registration]
       /\ \A d \in Devices : registered'[d] =
            IF d \in Listed(exList) THEN registered[d] \cup {Kept(registered[d], reg)}
            ELSE registered[d]
  BY <1>1, <1>2, <1>4
<1>12. NotifyTypes'
  <2>1. ASSUME NEW i \in Positions(notifyList') PROVE Len(notifyList'[i].handles) >= exCount'
    <3>1. CASE i \in Positions(notifyList)
      BY <1>1, <1>10, <3>1 DEF NotifyInv, NotifyTypes
    <3>2. CASE i = Len(notifyList) + 1
      BY <1>1, <1>2, <1>6, <1>8, <1>9, <3>2
    <3> QED BY <1>10, <3>1, <3>2
  <2> QED BY <1>9, <1>11, <2>1 DEF NotifyTypes
<1>13. NotifiesDiffer'
  <2> SUFFICES ASSUME NEW i \in Positions(notifyList'), NEW j \in Positions(notifyList'), i < j
               PROVE  ~SameNotify(notifyList'[i].reg, notifyList'[j].reg)
    BY DEF NotifiesDiffer
  <2>1. i \in Positions(notifyList)
    BY <1>2, <1>10
  <2>2. CASE j \in Positions(notifyList)
    BY <1>10, <2>1, <2>2 DEF NotifyInv, NotifiesDiffer
  <2>3. CASE j = Len(notifyList) + 1
    BY <1>1, <1>8, <1>9, <1>10, <2>1, <2>3
  <2> QED BY <1>10, <2>2, <2>3
<1>14. ASSUME ~everStopped, NEW d \in ExDevices, d \in Listed(exList)
       PROVE  registered[d] = {notifyList[i].reg : i \in Positions(notifyList)}
              /\ Kept(registered[d], reg) = reg
  <2>1. registered[d] = {notifyList[i].reg : i \in Positions(notifyList)}
    BY <1>14 DEF NotifyInv, RegistrationsMatch
  <2>2. \A r \in registered[d] : ~SameNotify(r, reg)
    BY <1>1, <2>1
  <2> QED BY <2>1, <2>2, KeptIfNew
<1>15. HandlesMatch'
  <2> SUFFICES ASSUME ~everStopped, NEW i \in Positions(notifyList'), NEW j \in Positions(exList)
               PROVE  notifyList'[i].handles[j] = [dev |-> exList[j], reg |-> notifyList'[i].reg]
    BY <1>1 DEF HandlesMatch
  <2>1. CASE i \in Positions(notifyList)
    BY <1>10, <2>1 DEF NotifyInv, HandlesMatch
  <2>2. CASE i = Len(notifyList) + 1
    <3>1. j \in 1 .. Len(exList) /\ exList[j] \in ExDevices /\ exList[j] \in Listed(exList)
      BY <1>3 DEF Positions
    <3>2. Kept(registered[exList[j]], reg) = reg
      BY <1>14, <3>1
    <3>3. h[j] = [dev |-> exList[j], reg |-> reg]
      BY <1>7, <3>1, <3>2
    <3> QED BY <1>8, <1>9, <2>2, <3>3
  <2> QED BY <1>10, <2>1, <2>2
<1>16. RegistrationsMatch'
  <2> SUFFICES ASSUME ~everStopped, NEW d \in ExDevices
               PROVE  registered'[d] = IF d \in Listed(exList)
                        THEN {notifyList'[i].reg : i \in Positions(notifyList')} ELSE {}
    BY <1>1 DEF RegistrationsMatch
  <2>1. d \in Devices
    BY DevicesAssumption DEF DevicesAssumption
  <2>2. CASE d \notin Listed(exList)
    BY <1>11, <2>1, <2>2 DEF NotifyInv, RegistrationsMatch
  <2>3. CASE d \in Listed(exList)
    <3>1. registered'[d] = {notifyList[i].reg : i \in Positions(notifyList)} \cup {reg}
      BY <1>11, <1>14, <2>1, <2>3
    <3>2. {notifyList'[i].reg : i \in Positions(notifyList')} =
             {notifyList[i].reg : i \in Positions(notifyList)} \cup {reg}
      <4>1. \A i \in Positions(notifyList) :
              i \in Positions(notifyList') /\ notifyList'[i].reg = notifyList[i].reg
        BY <1>10
      <4>2. Len(notifyList) + 1 \in Positions(notifyList')
            /\ notifyList'[Len(notifyList) + 1].reg = reg
        BY <1>8, <1>9, <1>10
      <4>3. \A i \in Positions(notifyList') :
              i \in Positions(notifyList) \/ notifyList'[i].reg = reg
        BY <1>10, <4>2
      <4> QED BY <4>1, <4>2, <4>3
    <3> QED BY <2>3, <3>1, <3>2
  <2> QED BY <2>2, <2>3
<1> QED BY <1>12, <1>13, <1>15, <1>16 DEF NotifyInv

\* A console refuses a registration: the others give it back.
LEMMA RefusedKeepsNotifies ==
  ASSUME ListInv, NotifyInv, NEW reg, NEW k, RegisterRefused(reg, k)
  PROVE  NotifyInv'
<1>1. /\ registered' = [d \in Devices |->
           IF \E i \in 1 .. k : d = exList[i]
             THEN registered[d] \ {Kept(registered[d], reg)} ELSE registered[d]]
      /\ \A i \in Positions(notifyList) : ~SameNotify(notifyList[i].reg, reg)
      /\ UNCHANGED <<exList, exCount, notifyList, everStopped>>
  BY DEF RegisterRefused, NotifiesOnly, AlreadyRegistered
<1>2. registered \in [Devices -> SUBSET Registration]
  BY DEF NotifyInv, NotifyTypes
<1>3. registered' \in [Devices -> SUBSET Registration]
  BY <1>1, <1>2
<1>4. ASSUME ~everStopped, NEW d \in ExDevices PROVE registered'[d] = registered[d]
  <2>0. registered[d] = IF d \in Listed(exList)
                        THEN {notifyList[i].reg : i \in Positions(notifyList)} ELSE {}
    BY <1>4 DEF NotifyInv, RegistrationsMatch
  <2>1. \A r \in registered[d] : ~SameNotify(r, reg)
    BY <1>1, <2>0
  <2>2. Kept(registered[d], reg) = reg /\ reg \notin registered[d]
    BY <2>1, KeptIfNew, SameAsItself
  <2>3. d \in Devices
    BY DevicesAssumption DEF DevicesAssumption
  <2> QED BY <1>1, <2>2, <2>3
<1>5. NotifyTypes' /\ NotifiesDiffer' /\ HandlesMatch'
  BY <1>1, <1>3 DEF NotifyInv, NotifyTypes, NotifiesDiffer, HandlesMatch
<1>6. RegistrationsMatch'
  <2> SUFFICES ASSUME ~everStopped, NEW d \in ExDevices
               PROVE  registered'[d] = IF d \in Listed(exList')
                        THEN {notifyList'[i].reg : i \in Positions(notifyList')} ELSE {}
    BY <1>1 DEF RegistrationsMatch
  <2>1. registered'[d] = registered[d] /\ exList' = exList /\ notifyList' = notifyList
    BY <1>1, <1>4
  <2>2. registered[d] = IF d \in Listed(exList)
                        THEN {notifyList[i].reg : i \in Positions(notifyList)} ELSE {}
    BY DEF NotifyInv, RegistrationsMatch
  <2> QED BY <2>1, <2>2
<1> QED BY <1>5, <1>6 DEF NotifyInv

\* A client takes a registration back.
LEMMA UnregisterKeepsNotifies ==
  ASSUME ListInv, NotifyInv, NEW at \in Positions(notifyList), UnregisterKeyNotify(at)
  PROVE  NotifyInv'
<1> DEFINE Stored(d) == notifyList[at].handles[CHOOSE j \in Positions(exList) : exList[j] = d]
<1>1. /\ registered' = [d \in Devices |->
           IF \E j \in Positions(exList) : exList[j] = d
             THEN Without(registered[d], d, Stored(d)) ELSE registered[d]]
      /\ notifyList' = Dropped(notifyList, at)
      /\ UNCHANGED <<exList, exCount, everStopped>>
  BY DEF UnregisterKeyNotify, NotifiesOnly, Dropped
<1> HIDE DEF Stored
<1>2. notifyList \in Seq(Entry) /\ registered \in [Devices -> SUBSET Registration]
  BY DEF NotifyInv, NotifyTypes
<1>3. /\ notifyList' \in Seq(Entry) /\ Len(notifyList') = Len(notifyList) - 1
      /\ \A i \in Positions(notifyList') :
           /\ Was(i, at) \in Positions(notifyList) /\ Was(i, at) # at
           /\ notifyList'[i] = notifyList[Was(i, at)]
      /\ \A i, j \in Positions(notifyList') : i < j => Was(i, at) < Was(j, at)
      /\ \A j \in Positions(notifyList) : j # at =>
           \E i \in Positions(notifyList') : Was(i, at) = j
  BY <1>1, <1>2, DroppedIsRight
<1>4. \A d \in Devices : registered'[d] \in SUBSET Registration
  BY <1>1, <1>2 DEF Without
<1>5. registered' \in [Devices -> SUBSET Registration]
  BY <1>1, <1>4
<1>6. NotifyTypes'
  BY <1>1, <1>3, <1>5 DEF NotifyInv, NotifyTypes
<1>7. NotifiesDiffer'
  BY <1>3 DEF NotifyInv, NotifiesDiffer
<1>8. HandlesMatch'
  <2> SUFFICES ASSUME ~everStopped, NEW i \in Positions(notifyList'), NEW j \in Positions(exList)
               PROVE  notifyList'[i].handles[j] = [dev |-> exList[j], reg |-> notifyList'[i].reg]
    BY <1>1 DEF HandlesMatch
  <2>1. Was(i, at) \in Positions(notifyList) /\ notifyList'[i] = notifyList[Was(i, at)]
    BY <1>3
  <2> QED BY <2>1 DEF NotifyInv, HandlesMatch
<1>9. RegistrationsMatch'
  <2> SUFFICES ASSUME ~everStopped, NEW d \in ExDevices
               PROVE  registered'[d] = IF d \in Listed(exList)
                        THEN {notifyList'[i].reg : i \in Positions(notifyList')} ELSE {}
    BY <1>1 DEF RegistrationsMatch
  <2>1. d \in Devices
    BY DevicesAssumption DEF DevicesAssumption
  <2>2. CASE d \notin Listed(exList)
    <3>1. registered'[d] = registered[d]
      BY <1>1, <2>1, <2>2 DEF Listed
    <3> QED BY <2>2, <3>1 DEF NotifyInv, RegistrationsMatch
  <2>3. CASE d \in Listed(exList)
    <3>1. \E j \in Positions(exList) : exList[j] = d
      BY <2>3 DEF Listed
    <3>2. PICK j : j = CHOOSE x \in Positions(exList) : exList[x] = d
      OBVIOUS
    <3>3. j \in Positions(exList) /\ exList[j] = d /\ Stored(d) = notifyList[at].handles[j]
      BY <3>1, <3>2 DEF Stored
    <3>4. Stored(d) = [dev |-> d, reg |-> notifyList[at].reg]
      BY <3>3 DEF NotifyInv, HandlesMatch
    <3>5. notifyList[at].reg \in Registration
      BY EntriesAre DEF NotifyInv
    <3>6. Stored(d) \in Handles /\ Stored(d) # NoHandle
      BY <3>4, <3>5, NoHandleAssumption DEF Handles, NoHandleAssumption
    <3>7. registered'[d] = registered[d] \ {notifyList[at].reg}
      <4>1. registered'[d] = Without(registered[d], d, Stored(d))
        BY <1>1, <2>1, <3>1
      <4>2. \A r : Stored(d) = [dev |-> d, reg |-> r] <=> r = notifyList[at].reg
        BY <3>4
      <4> QED BY <3>6, <4>1, <4>2 DEF Without
    <3>8. registered[d] = {notifyList[i].reg : i \in Positions(notifyList)}
      BY <2>3 DEF NotifyInv, RegistrationsMatch
    <3>9. \A i \in Positions(notifyList) : i # at => notifyList[i].reg # notifyList[at].reg
      <4>1. \A i, k \in Positions(notifyList) : i < k => notifyList[i].reg # notifyList[k].reg
        BY SameAsItself DEF NotifyInv, NotifiesDiffer
      <4>2. \A i \in Positions(notifyList) : i \in Nat
        BY DEF Positions
      <4>3. \A i \in Positions(notifyList) : i # at => i < at \/ at < i
        BY <4>2
      <4> QED BY <4>1, <4>3
    <3>10. {notifyList'[i].reg : i \in Positions(notifyList')} =
             {notifyList[i].reg : i \in Positions(notifyList)} \ {notifyList[at].reg}
      <4>1. \A i \in Positions(notifyList') :
              \E k \in Positions(notifyList) : k # at /\ notifyList'[i].reg = notifyList[k].reg
        BY <1>3
      <4>2. \A k \in Positions(notifyList) : k # at =>
              \E i \in Positions(notifyList') : notifyList'[i].reg = notifyList[k].reg
        BY <1>3
      <4> QED BY <3>9, <4>1, <4>2
    <3> QED BY <2>3, <3>7, <3>8, <3>10
  <2> QED BY <2>2, <2>3
<1> QED BY <1>6, <1>7, <1>8, <1>9 DEF NotifyInv

-----------------------------------------------------------------------------
(* The invariant.                                                           *)

SplitterInv == ConsolesInv /\ NotifyInv

\* It holds when the ConSplitter has been constructed.
LEMMA SplitterInit == Init => SplitterInv
<1> SUFFICES ASSUME Init PROVE SplitterInv
  OBVIOUS
<1>0. AllocUnit \in Nat \ {0} /\ MaxKeys \in Nat /\ MaxFaults \in Nat
  BY BoundsAssumption DEF BoundsAssumption
<1>1. \A S : << >> \in Seq(S) /\ Len(<< >>) = 0
  BY EmptySeq
<1>2. Positions(<< >>) = {} /\ Listed(<< >>) = {}
  BY <1>1 DEF Positions, Listed
<1>3. /\ opened = {} /\ textInList = << >> /\ exList = << >>
      /\ inCount = AllocUnit /\ exCount = AllocUnit
      /\ keyQueue = << >> /\ signalled = FALSE /\ exported = FALSE
      /\ pending = [d \in Devices |-> << >>]
      /\ registered = [d \in Devices |-> {}]
      /\ faults = 0 /\ typed = 0 /\ unread = {}
      /\ lastRead = [d \in Devices |-> 0]
      /\ everStopped = FALSE /\ stale = FALSE
  BY DEF Init
<1>4. KeyInv
  <2>1. KeyTypes
    BY <1>0, <1>1, <1>3 DEF KeyTypes
  <2>2. \A d \in Devices : pending[d] = << >> /\ lastRead[d] = 0
    BY <1>3
  <2>3. WaitingInOrder
    BY <1>2, <1>3, <2>2 DEF WaitingInOrder
  <2>4. SavedInOrder /\ SavedBeforeWaiting /\ UnreadWaits
    BY <1>2, <1>3 DEF SavedInOrder, SavedBeforeWaiting, UnreadWaits
  <2> QED BY <2>1, <2>3, <2>4 DEF KeyInv, KeyOrder
<1>5. ListInv /\ QueueFits
  BY <1>0, <1>1, <1>2, <1>3 DEF ListInv, QueueFits, Distinct
<1>6. SignalHasKey /\ Flags
  <2>1. SignalHasKey
    BY <1>3 DEF SignalHasKey
  <2>2. faults \in 0 .. MaxFaults
    BY <1>0, <1>3
  <2> QED BY <1>3, <2>1, <2>2, Zenon DEF Flags
<1>7. NotifyInv
  <2> DEFINE h == [i \in 1 .. AllocUnit |-> NoHandle]
             first == [reg |-> SyncNotify, handles |-> h]
  <2>1. h \in Seq(Handles \cup {NoHandle}) /\ Len(h) = AllocUnit
    <3>1. h \in [1 .. AllocUnit -> Handles \cup {NoHandle}]
      OBVIOUS
    <3> HIDE DEF h
    <3> QED BY <1>0, <3>1, FunctionIsSeq
  <2> HIDE DEF h
  <2>2. first \in Entry /\ first.handles = h
    BY <2>1 DEF Entry, Registration
  <2>3. notifyList = << first >>
    BY DEF Init, h
  <2> HIDE DEF first
  <2>4. notifyList \in Seq(Entry) /\ Positions(notifyList) = {1} /\ notifyList[1] = first
    BY <2>2, <2>3 DEF Positions
  <2>5. NotifyTypes
    BY <1>0, <1>3, <2>1, <2>2, <2>4 DEF NotifyTypes
  <2>6. NotifiesDiffer
    BY <2>4 DEF NotifiesDiffer
  <2>7. HandlesMatch
    BY <1>2, <1>3 DEF HandlesMatch
  <2>8. RegistrationsMatch
    <3>1. \A d \in ExDevices : registered[d] = {}
      BY <1>3, DevicesAssumption DEF DevicesAssumption
    <3> QED BY <1>2, <1>3, <3>1 DEF RegistrationsMatch
  <2> QED BY <2>5, <2>6, <2>7, <2>8 DEF NotifyInv
<1> QED BY <1>4, <1>5, <1>6, <1>7 DEF SplitterInv, ConsolesInv

\* Every step keeps it.
LEMMA SplitterNext == SplitterInv /\ [Next]_vars => SplitterInv'
<1> SUFFICES ASSUME SplitterInv, [Next]_vars PROVE SplitterInv'
  OBVIOUS
<1>0. ConsolesInv /\ NotifyInv /\ ListInv /\ Flags
  BY DEF SplitterInv, ConsolesInv
<1>1. ASSUME NEW d \in Devices, ConInStart(d) PROVE SplitterInv'
  BY <1>0, <1>1, StartKeepsConsoles, StartKeepsNotifies DEF SplitterInv
<1>2. ASSUME NEW d \in Devices, StartWithoutRoom(d) PROVE SplitterInv'
  <2>1. UNCHANGED <<exList, exCount, notifyList, registered, everStopped>>
    BY <1>2 DEF StartWithoutRoom, consoles
  <2> QED BY <1>0, <1>2, <2>1, NoRoomKeepsConsoles, OthersKeepNotifies DEF SplitterInv
<1>3. ASSUME NEW d \in Devices, ConInStop(d) PROVE SplitterInv'
  BY <1>0, <1>3, StopKeepsConsoles, StopKeepsNotifies DEF SplitterInv
<1>4. ASSUME NEW d \in Devices, DeviceGone(d) PROVE SplitterInv'
  BY <1>0, <1>4, GoneKeepsConsoles, GoneKeepsNotifies DEF SplitterInv
<1>5. ASSUME NEW d \in Devices, NEW k \in 0 .. Len(notifyList), StartWithoutExRoom(d, k)
      PROVE  SplitterInv'
  <2>1. /\ TextInAddDevice(d) /\ Fault /\ ConnectionsOnly
        /\ UNCHANGED <<exList, everStopped, stale>> /\ exCount' = exCount
    BY <1>5 DEF StartWithoutExRoom
  <2> QED BY <1>0, <1>5, <2>1, RefusalKeepsConsoles, NoExRoomKeepsNotifies DEF SplitterInv
<1>6. ASSUME NEW d \in Devices, NEW k \in 0 .. Len(notifyList), StartRefused(d, k)
      PROVE  SplitterInv'
  <2>1. /\ TextInAddDevice(d) /\ Fault /\ ConnectionsOnly
        /\ UNCHANGED <<exList, everStopped, stale>> /\ exCount' = Room(exList, exCount)
    BY <1>6 DEF StartRefused
  <2> QED BY <1>0, <1>6, <2>1, RefusalKeepsConsoles, RefusalKeepsNotifies DEF SplitterInv
<1>7. ASSUME NEW d \in Devices, NEW c \in Codes \cup {Partial}, KeyTyped(d, c) PROVE SplitterInv'
  <2>1. UNCHANGED <<exList, exCount, notifyList, registered, everStopped>>
    BY <1>7 DEF KeyTyped, lists
  <2> QED BY <1>0, <1>7, <2>1, TypingKeepsConsoles, OthersKeepNotifies DEF SplitterInv
<1>8. CASE ReadKeyStroke \/ ReadKeyStrokeEx
  <2>1. UNCHANGED <<exList, exCount, notifyList, registered, everStopped>>
    BY <1>8 DEF ReadKeyStroke, ReadKeyStrokeEx, Read, lists
  <2> QED BY <1>0, <1>8, <2>1, ReadsKeepConsoles, OthersKeepNotifies DEF SplitterInv
<1>9. CASE WaitForKey
  <2>1. UNCHANGED <<exList, exCount, notifyList, registered, everStopped>>
    BY <1>9 DEF WaitForKey, lists
  <2> QED BY <1>0, <1>9, <2>1, WaitKeepsConsoles, OthersKeepNotifies DEF SplitterInv
<1>10. ASSUME NEW list, NEW broken, Reset(list, broken) PROVE SplitterInv'
  <2>1. UNCHANGED <<exList, exCount, notifyList, registered, everStopped>>
    BY <1>10 DEF Reset, Read, lists
  <2> QED BY <1>0, <1>10, <2>1, ResetKeepsConsoles, OthersKeepNotifies DEF SplitterInv
<1>11. ASSUME NEW expose \in BOOLEAN, SetState(expose) PROVE SplitterInv'
  <2>1. UNCHANGED <<exList, exCount, notifyList, registered, everStopped>>
    BY <1>11 DEF SetState, Read, lists
  <2>2. /\ UNCHANGED <<opened, textInList, inCount, exList, exCount, keyQueue, signalled,
                       pending, typed, unread, lastRead, everStopped, stale>>
        /\ exported' \in BOOLEAN /\ faults' \in 0 .. MaxFaults
    BY <1>0, <1>11 DEF SetState, Read, lists, Flags
  <2>3. ConsolesInv'
    BY <1>0, <2>2, OthersKeepConsoles
  <2> QED BY <1>0, <2>1, <2>3, OthersKeepNotifies DEF SplitterInv
<1>12. ASSUME NEW reg \in Clients, RegisterKeyNotify(reg) PROVE SplitterInv'
  <2>1. NotifiesOnly /\ faults' \in 0 .. MaxFaults /\ reg \in Registration
    BY <1>0, <1>12 DEF RegisterKeyNotify, Flags, Registration
  <2> QED BY <1>0, <1>12, <2>1, NotifiesKeepConsoles, RegisterKeepsNotifies DEF SplitterInv
<1>13. ASSUME NEW reg \in Clients, NEW k, RegisterRefused(reg, k) PROVE SplitterInv'
  <2>1. NotifiesOnly /\ faults' \in 0 .. MaxFaults
    BY <1>0, <1>13, FaultCounts DEF RegisterRefused, Flags
  <2> QED BY <1>0, <1>13, <2>1, NotifiesKeepConsoles, RefusedKeepsNotifies DEF SplitterInv
<1>14. ASSUME NEW i \in Positions(notifyList), UnregisterKeyNotify(i) PROVE SplitterInv'
  <2>1. NotifiesOnly /\ faults' \in 0 .. MaxFaults
    BY <1>0, <1>14 DEF UnregisterKeyNotify, Flags
  <2> QED BY <1>0, <1>14, <2>1, NotifiesKeepConsoles, UnregisterKeepsNotifies DEF SplitterInv
<1>15. CASE UNCHANGED vars
  <2>1. /\ UNCHANGED <<opened, textInList, inCount, exList, exCount, keyQueue, signalled,
                       pending, typed, unread, lastRead, everStopped, stale>>
        /\ UNCHANGED <<exList, exCount, notifyList, registered, everStopped>>
        /\ exported' \in BOOLEAN /\ faults' \in 0 .. MaxFaults
    BY <1>0, <1>15 DEF vars, lists, keys, consoles, history, Flags
  <2>2. ConsolesInv'
    BY <1>0, <2>1, OthersKeepConsoles
  <2> QED BY <1>0, <2>1, <2>2, OthersKeepNotifies DEF SplitterInv
<1>16. CASE Connections
  BY <1>1, <1>2, <1>3, <1>4, <1>5, <1>6, <1>16 DEF Connections
<1>17. CASE Keystrokes
  BY <1>7, <1>8, <1>9, <1>10, <1>11, <1>17 DEF Keystrokes
<1>18. CASE Notifications
  BY <1>12, <1>13, <1>14, <1>18 DEF Notifications
<1> QED BY <1>15, <1>16, <1>17, <1>18 DEF Next

\* What clients see follows from it.
LEMMA InvKeepsKeys == SplitterInv => KeysKept
<1> SUFFICES ASSUME SplitterInv PROVE KeysKept
  OBVIOUS
<1>1. /\ KeyTypes /\ WaitingInOrder /\ SavedInOrder /\ SavedBeforeWaiting /\ UnreadWaits
      /\ ListInv /\ QueueFits /\ SignalHasKey /\ Flags /\ NotifyTypes
  BY DEF SplitterInv, ConsolesInv, KeyInv, KeyOrder, NotifyInv
<1>2. TypeOK
  BY <1>1 DEF TypeOK, KeyTypes, ListInv, QueueFits, Flags, NotifyTypes, Entry
<1>3. NoKeyLost
  <2> SUFFICES ASSUME NEW n \in unread
               PROVE  \E key \in Listed(keyQueue) \cup UNION {Listed(pending[d]) : d \in Devices} :
                        key.n = n
    BY DEF NoKeyLost
  <2>1. Waits(n)
    BY <1>1 DEF UnreadWaits
  <2>2. CASE \E i \in Positions(keyQueue) : keyQueue[i].n = n /\ ~IsPartial(keyQueue[i])
    <3>1. PICK i \in Positions(keyQueue) : keyQueue[i].n = n
      BY <2>2
    <3>2. keyQueue[i] \in Listed(keyQueue)
      BY DEF Listed
    <3> QED BY <3>1, <3>2
  <2>3. CASE \E d \in Devices : \E i \in Positions(pending[d]) :
               pending[d][i].n = n /\ ~IsPartial(pending[d][i])
    <3>1. PICK d \in Devices : \E i \in Positions(pending[d]) : pending[d][i].n = n
      BY <2>3
    <3>2. PICK i \in Positions(pending[d]) : pending[d][i].n = n
      BY <3>1
    <3>3. pending[d][i] \in Listed(pending[d])
      BY DEF Listed
    <3> QED BY <3>2, <3>3
  <2> QED BY <2>1, <2>2, <2>3 DEF Waits
<1>4. ReadInOrder
  <2>1. \A key \in Listed(keyQueue) : lastRead[key.dev] < key.n
    BY <1>1 DEF SavedInOrder, Listed
  <2>2. ASSUME NEW d \in Devices, NEW key \in Listed(pending[d])
        PROVE  /\ lastRead[d] < key.n
               /\ \A saved \in Listed(keyQueue) : saved.dev = d => saved.n < key.n
    <3>1. PICK j \in Positions(pending[d]) : key = pending[d][j]
      BY DEF Listed
    <3>2. lastRead[d] < key.n
      BY <1>1, <3>1 DEF WaitingInOrder
    <3>3. \A saved \in Listed(keyQueue) : \E i \in Positions(keyQueue) : saved = keyQueue[i]
      BY DEF Listed
    <3> QED BY <1>1, <3>1, <3>2, <3>3 DEF SavedBeforeWaiting
  <2> QED BY <2>1, <2>2 DEF ReadInOrder
<1> QED BY <1>1, <1>2, <1>3, <1>4 DEF KeysKept

-----------------------------------------------------------------------------
\* The invariant holds throughout.
LEMMA SplitterAlways == Spec => []SplitterInv
<1>1. Init => SplitterInv
  BY SplitterInit
<1>2. SplitterInv /\ [Next]_vars => SplitterInv'
  BY SplitterNext
<1> QED BY <1>1, <1>2, PTL DEF Spec

\* However many consoles there are, and however clients mix the two kinds of
\* read, no keystroke is lost between them, those of a console are read in the
\* order they were typed, and a signalled event has a keystroke behind it.
THEOREM KeysAreKept == Spec => []KeysKept
<1>1. Spec => []SplitterInv
  BY SplitterAlways
<1>2. SplitterInv => KeysKept
  BY InvKeepsKeys
<1> QED BY <1>1, <1>2, PTL

\* Until a console is taken away, every Ex console holds the registrations of
\* NotifyList, whichever came first and whatever was refused.
THEOREM RegistrationsAgree == Spec => []RegistrationsMatch
<1>1. Spec => []SplitterInv
  BY SplitterAlways
<1>2. SplitterInv => RegistrationsMatch
  BY DEF SplitterInv, NotifyInv
<1> QED BY <1>1, <1>2, PTL

-----------------------------------------------------------------------------
(* Text modes.  Numbers that are left when others are taken out.            *)

Before(K, m) == Cardinality({k \in K : k < m})

\* What comes before a number of a finite set counts it.
LEMMA Enumerated ==
  ASSUME NEW K \in SUBSET Nat, IsFiniteSet(K)
  PROVE  /\ Cardinality(K) \in Nat
         /\ \A m \in K : Before(K, m) \in 0..(Cardinality(K) - 1)
         /\ \A m, n \in K : Before(K, m) = Before(K, n) => m = n
         /\ \A j \in 0..(Cardinality(K) - 1) : \E m \in K : Before(K, m) = j
<1>0. Cardinality(K) \in Nat
  BY FS_CardinalityType
<1>1. ASSUME NEW m \in K, NEW n \in K, m < n PROVE Before(K, m) < Before(K, n)
  <2> DEFINE S == {k \in K : k < m}
             T == {k \in K : k < n}
  <2>1. m \in Nat /\ n \in Nat /\ \A k \in K : k \in Nat
    OBVIOUS
  <2>2. \A i, j, k \in Nat : i < j /\ j < k => i < k
    OBVIOUS
  <2>3. S \in SUBSET T /\ m \in T /\ m \notin S
    <3>1. ~(m < m)
      BY <2>1
    <3>2. ASSUME NEW k \in K, k < m PROVE k < n
      BY <1>1, <2>1, <2>2, <3>2
    <3> QED BY <1>1, <3>1, <3>2
  <2>4. T \in SUBSET K
    OBVIOUS
  <2>5. IsFiniteSet(T) /\ Cardinality(T) \in Nat
    BY <2>4, FS_Subset, FS_CardinalityType
  <2> HIDE DEF S, T
  <2>6. IsFiniteSet(S) /\ Cardinality(S) <= Cardinality(T)
        /\ (Cardinality(T) = Cardinality(S) => S = T)
    BY <2>3, <2>5, FS_Subset
  <2>7. Cardinality(S) \in Nat
    BY <2>6, FS_CardinalityType
  <2>8. Cardinality(S) < Cardinality(T)
    BY <2>3, <2>5, <2>6, <2>7
  <2> QED BY <2>8 DEF Before, S, T
<1>2. ASSUME NEW m \in K PROVE Before(K, m) \in 0..(Cardinality(K) - 1)
  <2> DEFINE S == {k \in K : k < m}
  <2>1. S \in SUBSET K /\ m \notin S
    OBVIOUS
  <2> HIDE DEF S
  <2>2. IsFiniteSet(S) /\ Cardinality(S) <= Cardinality(K)
        /\ (Cardinality(K) = Cardinality(S) => S = K)
    BY <2>1, FS_Subset
  <2>3. Cardinality(S) \in Nat
    BY <2>2, FS_CardinalityType
  <2>4. Cardinality(S) \in 0..(Cardinality(K) - 1)
    BY <1>0, <2>1, <2>2, <2>3
  <2> QED BY <2>4 DEF Before, S
<1>3. ASSUME NEW m \in K, NEW n \in K, Before(K, m) = Before(K, n) PROVE m = n
  <2>1. m \in Nat /\ n \in Nat /\ Before(K, m) \in Int /\ Before(K, n) \in Int
    BY <1>2
  <2>2. ~(m < n)
    BY <1>1, <1>3, <2>1
  <2>3. ~(n < m)
    BY <1>1, <1>3, <2>1
  <2> QED BY <2>1, <2>2, <2>3
<1> DEFINE f == [m \in K |-> Before(K, m)]
           J == 0..(Cardinality(K) - 1)
<1>4. f \in Injection(K, J)
  BY <1>2, <1>3 DEF Injection, IsInjective
<1>5. IsFiniteSet(J) /\ Cardinality(J) = Cardinality(K)
  <2>1. 0 \in Int /\ Cardinality(K) - 1 \in Int
    BY <1>0
  <2>2. IsFiniteSet(J) /\ Cardinality(J) = IF 0 > Cardinality(K) - 1 THEN 0
        ELSE (Cardinality(K) - 1) - 0 + 1
    BY <2>1, FS_Interval
  <2> QED BY <1>0, <2>2
<1>6. f \in Surjection(K, J)
  BY <1>4, <1>5, FS_Injection
<1>7. \A j \in J : \E m \in K : f[m] = j
  BY <1>6 DEF Surjection
<1> QED BY <1>0, <1>2, <1>3, <1>7

-----------------------------------------------------------------------------
(* A splitter, and the modes it has when some are taken out.                *)

Sizes == {Base, NoSize} \cup UNION {{TextModes[d][m] : m \in DOMAIN TextModes[d]} : d \in Outputs}
Maps == [0..(Rows - 1) -> [0..(Slots - 1) -> -1..(Rows - 1)]]
Private ==
  [slots : [0..(Slots - 1) -> Outputs \cup {NoDevice}], count : 0..Slots,
   query : [0..(Rows - 1) -> Sizes], map : Maps \cup {NoMap}, maxMode : 1..Rows,
   mode : Int, cursor : Int \X Int]

LEMMA NumbersOfModes ==
  /\ Slots \in Nat /\ Rows \in Nat /\ Rows >= 2 /\ Rows <= 32
  /\ Base[1] \in Nat \ {0} /\ Base[2] \in Nat \ {0} /\ Base = <<Base[1], Base[2]>>
BY ModesAssumption DEF ModesAssumption

\* The rows that Intersection keeps.
KeptRows(p, kept) == (2..(p.maxMode - 1)) \cap kept

\* g tells which row each row of q was in p.
RowsFrom(g, p, q, kept) ==
  /\ g \in [2..(q.maxMode - 1) -> KeptRows(p, kept)]
  /\ \A r, n \in 2..(q.maxMode - 1) : g[r] = g[n] => r = n
  /\ \A m \in KeptRows(p, kept) : \E r \in 2..(q.maxMode - 1) : g[r] = m
  /\ \A r \in 2..(q.maxMode - 1) : q.map[r] = p.map[g[r]]

\* A current mode follows its row, or is gone.
ModeFollows(p, q) ==
  /\ q.mode \in Int
  /\ p.mode \in 0..(p.maxMode - 1) => q.mode \in -1..(q.maxMode - 1)
  /\ p.mode > 3 * Rows => q.mode >= p.mode - Rows

ModesKept(p, q, kept) ==
  /\ q \in Private /\ q.map \in Maps /\ q.maxMode \in 2..p.maxMode
  /\ q.slots = p.slots /\ q.count = p.count /\ q.query = p.query /\ q.cursor = p.cursor
  /\ q.map[0] = p.map[0] /\ q.map[1] = p.map[1]
  /\ \E g : RowsFrom(g, p, q, kept)
  /\ ModeFollows(p, q)

LEMMA RowsFinite ==
  ASSUME NEW p, p.maxMode \in 2..Rows, NEW kept
  PROVE  LET K == KeptRows(p, kept)
             R == (2..(p.maxMode - 1)) \ kept
         IN  /\ K \in SUBSET Nat /\ IsFiniteSet(K) /\ Cardinality(K) \in Nat
             /\ IsFiniteSet(R) /\ Cardinality(R) \in Nat
             /\ p.maxMode - Cardinality(R) = Cardinality(K) + 2
<1> DEFINE K == KeptRows(p, kept)
           R == (2..(p.maxMode - 1)) \ kept
           A == 2..(p.maxMode - 1)
<1>1. p.maxMode \in Int /\ p.maxMode >= 2
  BY NumbersOfModes
<1>2. IsFiniteSet(A) /\ Cardinality(A) = p.maxMode - 2
  <2>1. IsFiniteSet(A) /\ Cardinality(A) = IF 2 > p.maxMode - 1 THEN 0 ELSE (p.maxMode - 1) - 2 + 1
    BY SMTT(30), <1>1, FS_Interval
  <2> QED BY <1>1, <2>1
<1>3. K \in SUBSET A /\ R \in SUBSET A /\ K \cup R = A /\ K \cap R = {} /\ A \in SUBSET Nat
  BY <1>1 DEF KeptRows
<1> HIDE DEF K, R, A
<1>4. IsFiniteSet(K) /\ IsFiniteSet(R)
  BY <1>2, <1>3, FS_Subset
<1>5. Cardinality(K) \in Nat /\ Cardinality(R) \in Nat
  BY <1>4, FS_CardinalityType
<1>6. Cardinality(A) = Cardinality(K) + Cardinality(R)
  <2>1. Cardinality(K \cup R) = Cardinality(K) + Cardinality(R) - Cardinality(K \cap R)
    BY <1>4, FS_Union
  <2>2. Cardinality(K \cap R) = 0
    BY <1>3, FS_EmptySet
  <2>3. Cardinality(A) = Cardinality(K) + Cardinality(R) - Cardinality(K \cap R)
    BY <1>3, <2>1
  <2> QED BY <1>5, <2>2, <2>3
<1>7. p.maxMode - Cardinality(R) = Cardinality(K) + 2
  BY <1>1, <1>2, <1>5, <1>6
<1> QED BY <1>3, <1>4, <1>5, <1>7 DEF K, R

\* Taking modes out keeps the others in their order.
LEMMA IntersectionKeeps ==
  ASSUME NEW p \in Private, p.map \in Maps, p.maxMode \in 2..Rows, NEW kept
  PROVE  ModesKept(p, Intersection(p, kept), kept)
<1> DEFINE K == KeptRows(p, kept)
           R == (2..(p.maxMode - 1)) \ kept
           n == Cardinality(K)
           from(r) == CHOOSE m \in K : Before(K, m) = r - 2
           map == [r \in DOMAIN p.map |->
                     CASE r \in 0..1 -> p.map[r]
                       [] r \in 2..(n + 1) -> p.map[from(r)]
                       [] OTHER -> [c \in DOMAIN p.map[r] |-> -1]]
           mode == IF p.mode \in R THEN -1 ELSE p.mode - Cardinality({m \in R : m < p.mode})
           q == Intersection(p, kept)
<1>1. q = [p EXCEPT !.map = map, !.maxMode = p.maxMode - Cardinality(R), !.mode = mode]
  BY DEF Intersection, Before, KeptRows
<1>2. /\ K \in SUBSET Nat /\ IsFiniteSet(K) /\ n \in Nat
      /\ IsFiniteSet(R) /\ Cardinality(R) \in Nat
      /\ p.maxMode - Cardinality(R) = n + 2
  BY RowsFinite
<1>3. p.maxMode \in Int /\ Rows \in Int /\ p.maxMode >= 2 /\ p.maxMode <= Rows
  BY NumbersOfModes
<1>4. n + 2 \in 2..p.maxMode
  BY <1>2, <1>3
<1>5. /\ \A m \in K : Before(K, m) \in 0..(n - 1)
      /\ \A m, l \in K : Before(K, m) = Before(K, l) => m = l
      /\ \A j \in 0..(n - 1) : \E m \in K : Before(K, m) = j
  BY <1>2, Enumerated
<1>6. K \in SUBSET (2..(p.maxMode - 1)) /\ K \in SUBSET (0..(Rows - 1))
  BY <1>3 DEF KeptRows
<1> HIDE DEF K
<1>7. ASSUME NEW r \in 2..(n + 1) PROVE from(r) \in K /\ Before(K, from(r)) = r - 2
  <2>1. r - 2 \in 0..(n - 1)
    BY <1>2
  <2>2. \E m \in K : Before(K, m) = r - 2
    BY <1>5, <2>1
  <2> QED BY <2>2
<1> HIDE DEF n
<1>8. p = [slots |-> p.slots, count |-> p.count, query |-> p.query, map |-> p.map,
           maxMode |-> p.maxMode, mode |-> p.mode, cursor |-> p.cursor]
      /\ p.slots \in [0..(Slots - 1) -> Outputs \cup {NoDevice}] /\ p.count \in 0..Slots
      /\ p.query \in [0..(Rows - 1) -> Sizes] /\ p.mode \in Int /\ p.cursor \in Int \X Int
  BY DEF Private
<1>9. map \in Maps
  <2>1. DOMAIN p.map = 0..(Rows - 1)
    BY DEF Maps
  <2>2. ASSUME NEW r \in 0..(Rows - 1) PROVE map[r] \in [0..(Slots - 1) -> -1..(Rows - 1)]
    <3>1. p.map[r] \in [0..(Slots - 1) -> -1..(Rows - 1)]
      BY DEF Maps
    <3>2. CASE r \in 0..1
      BY <2>1, <3>1, <3>2
    <3>3. CASE r \in 2..(n + 1)
      <4>1. from(r) \in 0..(Rows - 1)
        BY <1>6, <1>7, <3>3
      <4>2. p.map[from(r)] \in [0..(Slots - 1) -> -1..(Rows - 1)]
        BY <4>1 DEF Maps
      <4>3. r \notin 0..1
        BY <1>2, <3>3
      <4> HIDE DEF from
      <4>4. map[r] = p.map[from(r)]
        BY <2>1, <3>3, <4>3
      <4> QED BY <4>2, <4>4
    <3>4. CASE r \notin 0..1 /\ r \notin 2..(n + 1)
      <4>1. map[r] = [c \in DOMAIN p.map[r] |-> -1]
        BY <2>1, <3>4
      <4>2. DOMAIN p.map[r] = 0..(Slots - 1) /\ -1 \in -1..(Rows - 1)
        BY <3>1, <1>3
      <4> HIDE DEF map
      <4>3. map[r] = [c \in 0..(Slots - 1) |-> -1]
        BY <4>1, <4>2
      <4> QED BY <4>2, <4>3
    <3> QED BY <3>2, <3>3, <3>4
  <2> QED BY <2>1, <2>2 DEF Maps
<1>10. mode \in Int
  <2>1. IsFiniteSet({m \in R : m < p.mode})
    BY <1>2, FS_Subset
  <2>2. Cardinality({m \in R : m < p.mode}) \in Nat
    BY <2>1, FS_CardinalityType
  <2> QED BY <1>8, <2>2
<1>11. /\ q.slots = p.slots /\ q.count = p.count /\ q.query = p.query /\ q.cursor = p.cursor
       /\ q.map = map /\ q.maxMode = n + 2 /\ q.mode = mode
  <2> HIDE DEF map, mode, q
  <2>1. \A a, b, c : LET v == [p EXCEPT !.map = a, !.maxMode = b, !.mode = c]
                     IN  /\ v.slots = p.slots /\ v.count = p.count /\ v.query = p.query
                         /\ v.cursor = p.cursor /\ v.map = a /\ v.maxMode = b /\ v.mode = c
    BY <1>8
  <2> QED BY <1>1, <1>2, <2>1
<1>12. q \in Private
  <2> HIDE DEF map, mode, q, R
  <2>1. q = [slots |-> p.slots, count |-> p.count, query |-> p.query, map |-> map,
             maxMode |-> p.maxMode - Cardinality(R), mode |-> mode, cursor |-> p.cursor]
    BY <1>1, <1>8
  <2>2. p.maxMode - Cardinality(R) \in 1..Rows
    BY <1>2, <1>3, <1>4
  <2> QED BY <1>8, <1>9, <1>10, <2>1, <2>2 DEF Private
<1>13. q.map[0] = p.map[0] /\ q.map[1] = p.map[1]
  <2>1. DOMAIN p.map = 0..(Rows - 1) /\ 0 \in 0..(Rows - 1) /\ 1 \in 0..(Rows - 1)
    BY <1>3 DEF Maps
  <2>2. 0 \in 0..1 /\ 1 \in 0..1
    OBVIOUS
  <2>3. map[0] = p.map[0] /\ map[1] = p.map[1]
    BY <2>1, <2>2
  <2> HIDE DEF map, q
  <2> QED BY <1>11, <2>3
<1>14. RowsFrom([r \in 2..(n + 1) |-> from(r)], p, q, kept)
  <2> DEFINE g == [r \in 2..(n + 1) |-> from(r)]
             D == 2..(n + 1)
  <2>0. 2..(q.maxMode - 1) = D
    <3> HIDE DEF q
    <3> QED BY <1>2, <1>11
  <2>1. ASSUME NEW r \in D PROVE g[r] \in K /\ Before(K, g[r]) = r - 2
    BY <1>7
  <2> HIDE DEF from
  <2>2. g \in [D -> K]
    BY <2>1
  <2>3. ASSUME NEW r \in D, NEW l \in D, g[r] = g[l] PROVE r = l
    <3>1. r - 2 = l - 2
      BY <2>1, <2>3
    <3> QED BY <1>2, <3>1
  <2>4. ASSUME NEW m \in K PROVE \E r \in D : g[r] = m
    <3>1. Before(K, m) \in 0..(n - 1)
      BY <1>5 DEF n
    <3>2. PICK r : r = Before(K, m) + 2
      OBVIOUS
    <3>3. r \in D /\ r - 2 = Before(K, m)
      BY <1>2, <3>1, <3>2
    <3>4. g[r] \in K /\ Before(K, g[r]) = Before(K, m)
      BY <2>1, <3>3
    <3>5. g[r] = m
      BY <1>5, <3>4
    <3> QED BY <3>3, <3>5
  <2>5. ASSUME NEW r \in D PROVE q.map[r] = p.map[g[r]]
    <3>1. r \in DOMAIN p.map /\ r \notin 0..1
      BY <1>2, <1>3, <1>4 DEF Maps
    <3>2. map[r] = p.map[from(r)]
      BY <3>1
    <3> HIDE DEF map, q
    <3> QED BY <1>11, <3>2
  <2> HIDE DEF g, D, q
  <2>6. KeptRows(p, kept) = K
    BY DEF K
  <2>7. RowsFrom(g, p, q, kept)
    BY <2>0, <2>2, <2>3, <2>4, <2>5, <2>6 DEF RowsFrom
  <2> QED BY <2>7 DEF g
<1>15. ModeFollows(p, q)
  <2> DEFINE B == {m \in R : m < p.mode}
  <2>1. B \in SUBSET R
    OBVIOUS
  <2>2. IsFiniteSet(B) /\ Cardinality(B) \in Nat /\ Cardinality(B) <= Cardinality(R)
    BY <1>2, <2>1, FS_Subset, FS_CardinalityType
  <2>3. Cardinality(R) <= Rows
    BY <1>2, <1>3, <1>4
  <2>4. p.mode > 3 * Rows => p.mode \notin R
    BY <1>3, <1>8
  <2>5. p.mode > 3 * Rows => mode >= p.mode - Rows
    <3>1. p.mode \notin R => mode = p.mode - Cardinality(B)
      OBVIOUS
    <3> HIDE DEF mode, B, R
    <3>2. p.mode - Cardinality(B) >= p.mode - Rows
      BY <1>2, <1>3, <1>8, <2>2, <2>3
    <3> QED BY <2>4, <3>1, <3>2
  <2>6. ASSUME p.mode \in 0..(p.maxMode - 1), p.mode \notin R
        PROVE  p.mode - Cardinality(B) \in 0..(n + 1)
    <3> DEFINE A == {m \in R : m > p.mode}
    <3>1. A \in SUBSET R /\ A \cap B = {} /\ A \cup B = R
      BY <1>3, <1>8, <2>6
    <3>2. B \in SUBSET (0..(p.mode - 1)) /\ A \in SUBSET ((p.mode + 1)..(p.maxMode - 1))
      BY SMTT(30), <1>3, <1>8
    <3>3. IsFiniteSet(0..(p.mode - 1)) /\ Cardinality(0..(p.mode - 1)) = p.mode
      <4>1. 0 \in Int /\ p.mode - 1 \in Int
        BY <2>6
      <4>2. IsFiniteSet(0..(p.mode - 1)) /\ Cardinality(0..(p.mode - 1)) = IF 0 > p.mode - 1 THEN 0
            ELSE (p.mode - 1) - 0 + 1
        BY <4>1, FS_Interval
      <4> QED BY <2>6, <4>2
    <3>4. /\ IsFiniteSet((p.mode + 1)..(p.maxMode - 1))
          /\ Cardinality((p.mode + 1)..(p.maxMode - 1)) = p.maxMode - 1 - p.mode
      <4>1. p.mode + 1 \in Int /\ p.maxMode - 1 \in Int
        BY <1>3, <2>6
      <4>2. /\ IsFiniteSet((p.mode + 1)..(p.maxMode - 1))
            /\ Cardinality((p.mode + 1)..(p.maxMode - 1)) =
                 IF p.mode + 1 > p.maxMode - 1 THEN 0 ELSE (p.maxMode - 1) - (p.mode + 1) + 1
        BY <4>1, FS_Interval
      <4> QED BY <1>3, <2>6, <4>2
    <3> HIDE DEF A, B
    <3>5. Cardinality(B) <= p.mode
      BY <3>2, <3>3, FS_Subset
    <3>6. IsFiniteSet(A) /\ Cardinality(A) <= p.maxMode - 1 - p.mode /\ Cardinality(A) \in Nat
      BY ZenonT(30), <3>2, <3>4, FS_Subset, FS_CardinalityType
    <3>7. Cardinality(R) = Cardinality(A) + Cardinality(B)
      <4>1. Cardinality(A \cup B) = Cardinality(A) + Cardinality(B) - Cardinality(A \cap B)
        BY <2>2, <3>6, FS_Union
      <4>2. Cardinality(A \cap B) = 0
        BY <3>1, FS_EmptySet
      <4>3. Cardinality(R) = Cardinality(A) + Cardinality(B) - Cardinality(A \cap B)
        BY <3>1, <4>1
      <4> QED BY <2>2, <3>6, <4>2, <4>3
    <3> QED BY <1>2, <1>3, <2>2, <2>6, <3>5, <3>6, <3>7
  <2>7. p.mode \in 0..(p.maxMode - 1) => mode \in -1..(n + 1)
    <3> HIDE DEF B
    <3>1. CASE p.mode \in R
      BY <1>2, <3>1
    <3>2. CASE p.mode \notin R
      <4>1. mode = p.mode - Cardinality(B)
        BY <3>2 DEF B
      <4>2. p.mode \in 0..(p.maxMode - 1) => p.mode - Cardinality(B) \in 0..(n + 1)
        BY <2>6, <3>2
      <4>3. 0..(n + 1) \subseteq -1..(n + 1)
        BY <1>2
      <4> QED BY <4>1, <4>2, <4>3
    <3> QED BY <3>1, <3>2
  <2> HIDE DEF mode, q
  <2>8. q.maxMode - 1 = n + 1
    BY <1>2, <1>11
  <2> QED BY <1>10, <1>11, <2>5, <2>7, <2>8 DEF ModeFollows
<1> HIDE DEF map, mode, q, R
<1>16. q.maxMode \in 2..p.maxMode
  BY <1>4, <1>11
<1>17. q.map \in Maps
  BY <1>9, <1>11
<1> QED BY <1>11, <1>12, <1>13, <1>14, <1>15, <1>16, <1>17 DEF ModesKept, q

-----------------------------------------------------------------------------
(* The map of the modes.  Rows are told apart from the splitter they belong *)
(* to: a row says which mode of each console a mode of the splitter is.     *)

\* What consoles have for modes.
LEMMA ModesOfConsole ==
  ASSUME NEW d \in Outputs
  PROVE  /\ DOMAIN TextModes[d] \in SUBSET (0..(Rows - 1))
         /\ 0 \in DOMAIN TextModes[d] /\ 1 \in DOMAIN TextModes[d]
         /\ Cardinality(DOMAIN TextModes[d]) \in 2..Rows
         /\ DOMAIN TextModes[d] = 0..(Cardinality(DOMAIN TextModes[d]) - 1)
         /\ TextModes[d][0] = Base /\ Base # NoSize
         /\ \A m \in DOMAIN TextModes[d] : TextModes[d][m] = NoSize => m = 1
         /\ \A m, n \in DOMAIN TextModes[d] : TextModes[d][m] = TextModes[d][n] => m = n
         /\ \A m \in DOMAIN TextModes[d] : TextModes[d][m] \in Sizes
<1> DEFINE D == DOMAIN TextModes[d]
           n == Cardinality(D)
<1>1. /\ D = 0..(n - 1) /\ n \in 2..Rows /\ TextModes[d][0] = Base
      /\ \A m, l \in D : TextModes[d][m] = TextModes[d][l] => m = l
      /\ \A m \in D : TextModes[d][m] = NoSize => m = 1
  BY ModesAssumption DEF ModesAssumption
<1>2. \A m \in D : TextModes[d][m] \in Sizes
  BY DEF Sizes
<1> HIDE DEF D, n
<1>3. n \in Int /\ n >= 2 /\ n <= Rows /\ Rows \in Int
  BY <1>1, NumbersOfModes
<1>4. 0 \in D /\ 1 \in D /\ D \in SUBSET (0..(Rows - 1))
  BY <1>1, <1>3
<1>5. Base # NoSize
  BY <1>1, <1>4
<1> QED BY <1>1, <1>2, <1>4, <1>5 DEF D, n

\* Of two consoles, mode 1 of one is no later mode of the other.
LEMMA ModesOne ==
  ASSUME NEW c \in Outputs, NEW d \in Outputs
  PROVE  /\ \/ TextModes[c][1] = NoSize \/ TextModes[d][1] = NoSize
            \/ TextModes[c][1] = TextModes[d][1]
         /\ \A m \in DOMAIN TextModes[d] : m > 1 => TextModes[d][m] # TextModes[c][1]
BY ModesAssumption DEF ModesAssumption

\* Each of the first n consoles of sl has the row's size under the row's number.
RowIs(query, sl, row, n) ==
  \A i \in 0..(n - 1) :
    query[row[0]] # NoSize =>
      row[i] \in DOMAIN TextModes[sl[i]] /\ TextModes[sl[i]][row[i]] = query[row[0]]

LaterRow(query, sl, row, n) ==
  /\ RowIs(query, sl, row, n)
  /\ row[0] \in DOMAIN TextModes[sl[0]] /\ row[0] > 1
  /\ \A c \in n..(Slots - 1) : row[c] = -1

\* The sizes are the first console's, but mode 1 may be none.
Queried(query, sl) ==
  /\ \A m \in DOMAIN TextModes[sl[0]] : m # 1 => query[m] = TextModes[sl[0]][m]
  /\ query[1] \in {TextModes[sl[0]][1], NoSize}

\* The map is right for the first n consoles of sl and for the modes in R.
Mapped(p, sl, n, R) ==
  /\ p.map \in Maps /\ p.maxMode \in 2..Rows
  /\ n \in 1..Slots /\ \A i \in 0..(n - 1) : sl[i] \in Outputs
  /\ Queried(p.query, sl)
  /\ p.map[0][0] = 0 /\ p.map[1][0] = 1
  /\ RowIs(p.query, sl, p.map[0], n) /\ RowIs(p.query, sl, p.map[1], n)
  /\ \A r \in R : LaterRow(p.query, sl, p.map[r], n)
  /\ \A r, l \in R : p.map[r][0] = p.map[l][0] => r = l

LaterModes(p) == 2..(p.maxMode - 1)

\* Taking out modes leaves it right for the others.
LEMMA KeptMapped ==
  ASSUME NEW p \in Private, NEW q, NEW kept, NEW sl, NEW n, p.maxMode \in 2..Rows,
         Mapped(p, sl, n, KeptRows(p, kept)), ModesKept(p, q, kept)
  PROVE  Mapped(q, sl, n, LaterModes(q))
<1>1. PICK g : RowsFrom(g, p, q, kept)
  BY DEF ModesKept
<1>2. /\ q.map \in Maps /\ q.maxMode \in 2..p.maxMode /\ q.query = p.query
      /\ q.map[0] = p.map[0] /\ q.map[1] = p.map[1]
  BY DEF ModesKept
<1>3. q.maxMode \in 2..Rows
  BY <1>2, NumbersOfModes
<1>4. ASSUME NEW r \in LaterModes(q) PROVE LaterRow(q.query, sl, q.map[r], n)
  <2>1. g[r] \in KeptRows(p, kept) /\ q.map[r] = p.map[g[r]]
    BY <1>1 DEF RowsFrom, LaterModes
  <2>2. LaterRow(p.query, sl, p.map[g[r]], n)
    BY <2>1 DEF Mapped
  <2> QED BY <1>2, <2>1, <2>2
<1>5. ASSUME NEW r \in LaterModes(q), NEW l \in LaterModes(q), q.map[r][0] = q.map[l][0]
      PROVE  r = l
  <2>1. /\ g[r] \in KeptRows(p, kept) /\ q.map[r] = p.map[g[r]]
        /\ g[l] \in KeptRows(p, kept) /\ q.map[l] = p.map[g[l]]
    BY <1>1 DEF RowsFrom, LaterModes
  <2>2. g[r] = g[l]
    BY <1>5, <2>1 DEF Mapped
  <2> QED BY <1>1, <2>2 DEF RowsFrom, LaterModes
<1>6. /\ n \in 1..Slots /\ \A i \in 0..(n - 1) : sl[i] \in Outputs
      /\ Queried(q.query, sl) /\ q.map[0][0] = 0 /\ q.map[1][0] = 1
      /\ RowIs(q.query, sl, q.map[0], n) /\ RowIs(q.query, sl, q.map[1], n)
  BY <1>2 DEF Mapped
<1> QED BY <1>2, <1>3, <1>4, <1>5, <1>6 DEF Mapped

\* The first console's modes.
LEMMA FirstMapped ==
  ASSUME NEW p \in Private, NEW d \in Outputs, NEW sl, sl[0] = d, Slots >= 1
  PROVE  LET q == AddOutputMode(p, d)
         IN  /\ Mapped(q, sl, 1, LaterModes(q)) /\ q \in Private
             /\ q.slots = p.slots /\ q.count = p.count /\ q.mode = p.mode /\ q.cursor = p.cursor
             /\ q.maxMode = Cardinality(DOMAIN TextModes[d])
<1> DEFINE T == TextModes[d]
           D == DOMAIN T
           query == [m \in DOMAIN p.query |-> IF m \in D THEN T[m] ELSE p.query[m]]
           map == [r \in 0..(Rows - 1) |-> [c \in 0..(Slots - 1) |-> IF c = 0 /\ r \in D THEN r
                  ELSE -1]]
           q == AddOutputMode(p, d)
<1>1. q = [p EXCEPT !.maxMode = Cardinality(D), !.query = query, !.map = map]
  BY DEF AddOutputMode
<1>2. p = [slots |-> p.slots, count |-> p.count, query |-> p.query, map |-> p.map,
           maxMode |-> p.maxMode, mode |-> p.mode, cursor |-> p.cursor]
      /\ p.slots \in [0..(Slots - 1) -> Outputs \cup {NoDevice}] /\ p.count \in 0..Slots
      /\ p.query \in [0..(Rows - 1) -> Sizes] /\ p.mode \in Int /\ p.cursor \in Int \X Int
  BY DEF Private
<1>3. /\ D \in SUBSET (0..(Rows - 1)) /\ 0 \in D /\ 1 \in D /\ Cardinality(D) \in 2..Rows
      /\ D = 0..(Cardinality(D) - 1)
      /\ \A m \in D : T[m] \in Sizes
  BY ModesOfConsole
<1> HIDE DEF D
<1>4. query \in [0..(Rows - 1) -> Sizes] /\ (\A m \in D : query[m] = T[m])
  BY <1>2, <1>3
<1>5. map \in Maps
  <2>1. ASSUME NEW r \in 0..(Rows - 1), NEW c \in 0..(Slots - 1)
        PROVE  (IF c = 0 /\ r \in D THEN r ELSE -1) \in -1..(Rows - 1)
    BY NumbersOfModes
  <2> QED BY <2>1 DEF Maps
<1>6. ASSUME NEW r \in D PROVE map[r][0] = r /\ \A c \in 1..(Slots - 1) : map[r][c] = -1
  BY SMTT(30), <1>3, NumbersOfModes
<1> HIDE DEF query, map, T, q
<1>7. q = [slots |-> p.slots, count |-> p.count, query |-> query, map |-> map,
           maxMode |-> Cardinality(D), mode |-> p.mode, cursor |-> p.cursor]
  BY <1>1, <1>2
<1>8. q \in Private
  <2>1. Cardinality(D) \in 1..Rows
    BY <1>3, NumbersOfModes
  <2> QED BY <1>2, <1>4, <1>5, <1>7, <2>1 DEF Private
<1>9. ASSUME NEW r \in D PROVE RowIs(query, sl, map[r], 1)
  <2>1. 0..(1 - 1) = {0}
    OBVIOUS
  <2>2. sl[0] = d /\ TextModes[d] = T /\ DOMAIN T = D /\ map[r][0] = r /\ query[r] = T[r]
    BY <1>4, <1>6 DEF T, D
  <2> QED BY <2>1, <2>2 DEF RowIs
<1>10. Queried(query, sl)
  BY <1>3, <1>4 DEF Queried, T, D
<1>11. LaterModes(q) \in SUBSET D
  <2>1. q.maxMode = Cardinality(D)
    BY <1>7
  <2> QED BY <1>3, <2>1 DEF LaterModes
<1>12. ASSUME NEW r \in LaterModes(q) PROVE LaterRow(query, sl, map[r], 1)
  <2>1. r \in D /\ r > 1
    BY <1>3, <1>7, <1>11 DEF LaterModes
  <2>2. map[r][0] = r /\ (\A c \in 1..(Slots - 1) : map[r][c] = -1) /\ DOMAIN TextModes[sl[0]] = D
    BY <1>6, <2>1 DEF D, T
  <2> QED BY <1>9, <2>1, <2>2 DEF LaterRow
<1>13. ASSUME NEW r \in LaterModes(q), NEW l \in LaterModes(q), map[r][0] = map[l][0] PROVE r = l
  BY <1>6, <1>11, <1>13
<1>14. \A i \in 0..(1 - 1) : sl[i] \in Outputs
  OBVIOUS
<1>15. 1 \in 1..Slots
  BY NumbersOfModes
<1>16. q.query = query /\ q.map = map /\ q.maxMode = Cardinality(D)
  BY <1>7
<1>17. Mapped(q, sl, 1, LaterModes(q))
  BY <1>3, <1>5, <1>6, <1>9, <1>10, <1>12, <1>13, <1>14, <1>15, <1>16 DEF Mapped
<1>18. q.slots = p.slots /\ q.count = p.count /\ q.mode = p.mode /\ q.cursor = p.cursor
  BY <1>7
<1> QED BY <1>8, <1>16, <1>17, <1>18 DEF q, D, T

\* A console's modes are entered in the column behind the others.
Lacks1(d) == 1 \in DOMAIN TextModes[d] /\ TextModes[d][1] = NoSize
SyncQuery(p, d) == [p.query EXCEPT ![1] = IF Lacks1(d) THEN NoSize ELSE @]
FirstRow(p, query, size) ==
  {r \in 0..(p.maxMode - 1) :
     /\ query[p.map[r][0]] = size
     /\ \A q \in 0..(r - 1) : query[p.map[q][0]] # size}
Hits(p, d, r) ==
  {m \in DOMAIN TextModes[d] :
     Accepts(d, m) /\ r \in FirstRow(p, SyncQuery(p, d), TextModes[d][m])}
SyncColumn(p, d) ==
  [r \in DOMAIN p.map |->
     CASE Hits(p, d, r) # {} -> Max(Hits(p, d, r))
       [] Hits(p, d, r) = {} /\ r = 1 /\ Lacks1(d) -> 1
       [] OTHER -> p.map[r][p.count]]
Entered(p, d) ==
  [p EXCEPT !.query = SyncQuery(p, d),
            !.map = [r \in DOMAIN @ |-> [@[r] EXCEPT ![p.count] = SyncColumn(p, d)[r]]]]
EnteredRows(p, d) == {r \in DOMAIN SyncColumn(p, d) : SyncColumn(p, d)[r] # -1}

LEMMA SyncIs ==
  ASSUME NEW p, NEW d \in Outputs
  PROVE  SyncOutputMode(p, d) = Intersection(Entered(p, d), EnteredRows(p, d))
BY DEF SyncOutputMode, Entered, EnteredRows, SyncColumn, Hits, FirstRow, SyncQuery, Lacks1

LEMMA HitsOne ==
  ASSUME NEW p, NEW d \in Outputs, NEW r, Hits(p, d, r) # {}
  PROVE  \E m \in DOMAIN TextModes[d] :
           /\ Max(Hits(p, d, r)) = m /\ TextModes[d][m] # NoSize
           /\ TextModes[d][m] = SyncQuery(p, d)[p.map[r][0]]
<1> DEFINE H == Hits(p, d, r)
<1>1. PICK m : m \in H
  OBVIOUS
<1>2. \A k \in H : /\ k \in DOMAIN TextModes[d] /\ TextModes[d][k] # NoSize
                   /\ TextModes[d][k] = SyncQuery(p, d)[p.map[r][0]]
  BY DEF Hits, Accepts, FirstRow
<1>3. \A k \in H : k = m
  BY <1>1, <1>2, ModesOfConsole
<1>4. m \in Int
  BY <1>1, <1>2, ModesOfConsole, NumbersOfModes
<1> HIDE DEF H
<1>5. Max(H) = m
  <2>1. H = {m}
    BY <1>1, <1>3
  <2>2. m >= m
    BY <1>4
  <2> QED BY <2>1, <2>2 DEF Max
<1> QED BY <1>1, <1>2, <1>5 DEF H

LEMMA ColumnType ==
  ASSUME NEW p \in Private, p.map \in Maps, p.count < Slots, NEW d \in Outputs
  PROVE  SyncColumn(p, d) \in [0..(Rows - 1) -> -1..(Rows - 1)]
<1>1. DOMAIN p.map = 0..(Rows - 1)
  BY DEF Maps
<1>2. ASSUME NEW r \in 0..(Rows - 1)
      PROVE  SyncColumn(p, d)[r] \in -1..(Rows - 1)
  <2>1. CASE Hits(p, d, r) # {}
    <3>1. PICK m \in DOMAIN TextModes[d] : Max(Hits(p, d, r)) = m
      BY <2>1, HitsOne
    <3>3. m \in 0..(Rows - 1)
      BY ModesOfConsole
    <3>2. SyncColumn(p, d)[r] = Max(Hits(p, d, r))
      BY <1>1, <2>1 DEF SyncColumn
    <3> QED BY <3>1, <3>2, <3>3, NumbersOfModes
  <2>2. CASE Hits(p, d, r) = {} /\ r = 1 /\ Lacks1(d)
    <3>1. SyncColumn(p, d)[r] = 1
      BY <1>1, <2>2 DEF SyncColumn
    <3> QED BY <3>1, NumbersOfModes
  <2>3. CASE Hits(p, d, r) = {} /\ ~(r = 1 /\ Lacks1(d))
    <3>1. SyncColumn(p, d)[r] = p.map[r][p.count]
      BY <1>1, <2>3 DEF SyncColumn
    <3>2. p.count \in 0..(Slots - 1)
      <4>1. p.count \in 0..Slots
        BY DEF Private
      <4> QED BY <4>1, NumbersOfModes
    <3> QED BY <3>1, <3>2 DEF Maps
  <2> QED BY <2>1, <2>2, <2>3
<1> HIDE DEF SyncColumn
<1>3. SyncColumn(p, d) = [r \in 0..(Rows - 1) |-> SyncColumn(p, d)[r]]
  BY <1>1 DEF SyncColumn
<1> QED BY <1>2, <1>3

LEMMA QueryEntered ==
  ASSUME NEW p \in Private, NEW d \in Outputs, NEW sl, sl[0] \in Outputs, Queried(p.query, sl)
  PROVE  LET query == SyncQuery(p, d)
         IN  /\ query \in [0..(Rows - 1) -> Sizes] /\ Queried(query, sl)
             /\ \A m \in 0..(Rows - 1) : m # 1 => query[m] = p.query[m]
             /\ query[1] = NoSize \/ (query[1] = p.query[1] /\ query[1] = TextModes[d][1])
             /\ query[0] = Base
<1> DEFINE query == SyncQuery(p, d)
           new == IF Lacks1(d) THEN NoSize ELSE p.query[1]
<1>1. p.query \in [0..(Rows - 1) -> Sizes] /\ NoSize \in Sizes /\ 1 \in 0..(Rows - 1)
      /\ 0 \in 0..(Rows - 1)
  <2>1. NoSize \in Sizes
    BY DEF Sizes
  <2> QED BY <2>1, NumbersOfModes DEF Private
<1>2. new \in Sizes
  BY <1>1
<1>3. query = [p.query EXCEPT ![1] = new]
  BY DEF SyncQuery
<1>4. /\ query \in [0..(Rows - 1) -> Sizes]
      /\ \A m \in 0..(Rows - 1) : m # 1 => query[m] = p.query[m]
      /\ query[1] = new
  BY <1>1, <1>2, <1>3
<1>5. \A m \in DOMAIN TextModes[sl[0]] : m \in 0..(Rows - 1)
  BY ModesOfConsole
<1>6. Queried(query, sl)
  BY <1>4, <1>5 DEF Queried
<1>7. query[1] = NoSize \/ (query[1] = p.query[1] /\ query[1] = TextModes[d][1])
  <2>1. CASE Lacks1(d)
    BY <1>4, <2>1
  <2>2. CASE ~Lacks1(d)
    <3>1. TextModes[d][1] # NoSize
      BY <2>2, ModesOfConsole DEF Lacks1
    <3>2. p.query[1] \in {TextModes[sl[0]][1], NoSize}
      BY DEF Queried
    <3>3. TextModes[sl[0]][1] = NoSize \/ TextModes[sl[0]][1] = TextModes[d][1]
      BY <3>1, ModesOne
    <3> QED BY <1>4, <2>2, <3>2, <3>3
  <2> QED BY <2>1, <2>2
<1>8. query[0] = Base
  <2>1. 0 \in DOMAIN TextModes[sl[0]] /\ TextModes[sl[0]][0] = Base
    BY ModesOfConsole
  <2> QED BY <1>6, <2>1 DEF Queried
<1> QED BY <1>4, <1>6, <1>7, <1>8 DEF query

LEMMA FirstHits ==
  ASSUME NEW p \in Private, NEW d \in Outputs, NEW sl, NEW n, Mapped(p, sl, n, LaterModes(p))
  PROVE  /\ Hits(p, d, 0) # {}
         /\ SyncQuery(p, d)[1] # NoSize => Hits(p, d, 1) # {}
<1> DEFINE query == SyncQuery(p, d)
           T == TextModes[d]
<1>1. /\ p.map[0][0] = 0 /\ p.map[1][0] = 1 /\ p.maxMode \in 2..Rows
      /\ Queried(p.query, sl) /\ sl[0] \in Outputs
  BY NumbersOfModes DEF Mapped
<1>2. query[1] = NoSize \/ query[1] = T[1]
  BY <1>1, QueryEntered
<1>3. query[0] = Base
  BY <1>1, QueryEntered
<1>4. 0 \in DOMAIN T /\ 1 \in DOMAIN T /\ T[0] = Base /\ Base # NoSize /\ T[0] # T[1]
  <2>1. 0 \in DOMAIN T /\ 1 \in DOMAIN T /\ T[0] = Base /\ Base # NoSize
    BY ModesOfConsole
  <2>2. \A k, m \in DOMAIN T : T[k] = T[m] => k = m
    BY ModesOfConsole
  <2> QED BY <2>1, <2>2
<1>5. 0 \in 0..(p.maxMode - 1) /\ 1 \in 0..(p.maxMode - 1) /\ 0..(0 - 1) = {} /\ 0..(1 - 1) = {0}
  BY <1>1, NumbersOfModes
<1> HIDE DEF query, T
<1>6. 0 \in FirstRow(p, query, T[0])
  BY <1>1, <1>3, <1>4, <1>5 DEF FirstRow
<1>7. Hits(p, d, 0) # {}
  BY <1>4, <1>6 DEF Hits, Accepts, T, query
<1>8. ASSUME query[1] # NoSize PROVE Hits(p, d, 1) # {}
  <2>1. query[1] = T[1]
    BY <1>2, <1>8
  <2>2. \A q \in 0..(1 - 1) : query[p.map[q][0]] # T[1]
    BY <1>1, <1>3, <1>4, <1>5
  <2>3. 1 \in FirstRow(p, query, T[1])
    BY <1>1, <1>5, <2>1, <2>2 DEF FirstRow
  <2>4. T[1] # NoSize
    BY <1>8, <2>1
  <2> QED BY <1>4, <2>3, <2>4 DEF Hits, Accepts, T, query
<1> QED BY <1>7, <1>8 DEF query

LEMMA EnteredIs ==
  ASSUME NEW p \in Private, p.map \in Maps, p.count < Slots,
         NEW d \in Outputs, NEW sl, sl[0] \in Outputs, Queried(p.query, sl)
  PROVE  LET u == Entered(p, d)
         IN  /\ u \in Private /\ u.map \in Maps /\ u.query = SyncQuery(p, d)
             /\ u.slots = p.slots /\ u.count = p.count /\ u.maxMode = p.maxMode
             /\ u.mode = p.mode /\ u.cursor = p.cursor
             /\ \A r \in 0..(Rows - 1), i \in 0..(Slots - 1) :
                  u.map[r][i] = IF i = p.count THEN SyncColumn(p, d)[r] ELSE p.map[r][i]
<1> DEFINE query == SyncQuery(p, d)
           column == SyncColumn(p, d)
           map == [r \in DOMAIN p.map |-> [p.map[r] EXCEPT ![p.count] = column[r]]]
           u == Entered(p, d)
<1>1. column \in [0..(Rows - 1) -> -1..(Rows - 1)]
  BY ColumnType
<1>2. query \in [0..(Rows - 1) -> Sizes]
  BY QueryEntered
<1>3. u = [p EXCEPT !.query = query, !.map = map]
  BY DEF Entered
<1>4. p = [slots |-> p.slots, count |-> p.count, query |-> p.query, map |-> p.map,
           maxMode |-> p.maxMode, mode |-> p.mode, cursor |-> p.cursor]
      /\ p.slots \in [0..(Slots - 1) -> Outputs \cup {NoDevice}] /\ p.count \in 0..Slots
      /\ p.maxMode \in 1..Rows /\ p.mode \in Int /\ p.cursor \in Int \X Int
  BY DEF Private
<1> HIDE DEF column, query
<1>5. ASSUME NEW r \in 0..(Rows - 1) PROVE p.map[r] \in [0..(Slots - 1) -> -1..(Rows - 1)]
  BY DEF Maps
<1>6. DOMAIN p.map = 0..(Rows - 1)
  BY DEF Maps
<1>7. ASSUME NEW r \in 0..(Rows - 1)
      PROVE  /\ map[r] \in [0..(Slots - 1) -> -1..(Rows - 1)]
             /\ \A i \in 0..(Slots - 1) : map[r][i] = IF i = p.count THEN column[r] ELSE p.map[r][i]
  BY <1>1, <1>5, <1>6
<1>8. map \in Maps
  BY <1>6, <1>7 DEF Maps
<1> HIDE DEF map, u
<1>9. u = [slots |-> p.slots, count |-> p.count, query |-> query, map |-> map,
           maxMode |-> p.maxMode, mode |-> p.mode, cursor |-> p.cursor]
  BY <1>3, <1>4
<1>10. u \in Private
  BY <1>2, <1>4, <1>8, <1>9 DEF Private
<1>11. /\ u.query = query /\ u.map = map /\ u.slots = p.slots /\ u.count = p.count
       /\ u.maxMode = p.maxMode /\ u.mode = p.mode /\ u.cursor = p.cursor
  BY <1>9
<1> QED BY <1>7, <1>8, <1>10, <1>11 DEF u, query, column

LEMMA EnteredMapped ==
  ASSUME NEW p \in Private, NEW d \in Outputs, NEW sl, NEW sl2, NEW n,
         p.count = n, n < Slots, Mapped(p, sl, n, LaterModes(p)),
         sl2[n] = d, \A i \in 0..(n - 1) : sl2[i] = sl[i]
  PROVE  LET u == Entered(p, d)
         IN  Mapped(u, sl2, n + 1, KeptRows(u, EnteredRows(p, d)))
<1> DEFINE T == TextModes[d]
           query == SyncQuery(p, d)
           column == SyncColumn(p, d)
           u == Entered(p, d)
           K == KeptRows(u, EnteredRows(p, d))
<1>1. /\ p.map \in Maps /\ p.maxMode \in 2..Rows /\ n \in 1..Slots
      /\ (\A i \in 0..(n - 1) : sl[i] \in Outputs)
      /\ Queried(p.query, sl) /\ p.map[0][0] = 0 /\ p.map[1][0] = 1
      /\ RowIs(p.query, sl, p.map[0], n) /\ RowIs(p.query, sl, p.map[1], n)
      /\ (\A r \in LaterModes(p) : LaterRow(p.query, sl, p.map[r], n))
      /\ (\A r, l \in LaterModes(p) : p.map[r][0] = p.map[l][0] => r = l)
  BY DEF Mapped
<1>2. sl[0] \in Outputs /\ sl2[0] = sl[0]
  BY <1>1, NumbersOfModes
<1>3. /\ u.map \in Maps /\ u.query = query /\ u.maxMode = p.maxMode
      /\ \A r \in 0..(Rows - 1), i \in 0..(Slots - 1) :
           u.map[r][i] = IF i = n THEN column[r] ELSE p.map[r][i]
  BY <1>1, <1>2, EnteredIs
<1>4. /\ Queried(query, sl) /\ query[0] = Base
      /\ (\A m \in 0..(Rows - 1) : m # 1 => query[m] = p.query[m])
      /\ (query[1] = NoSize \/ query[1] = p.query[1])
  BY <1>1, <1>2, QueryEntered
<1>5. Queried(query, sl2)
  BY <1>2, <1>4 DEF Queried
<1>6. \A i \in 0..n : sl2[i] \in Outputs
  <2>1. \A i \in 0..n : i = n \/ i \in 0..(n - 1)
    BY <1>1
  <2> QED BY <1>1, <2>1
<1>7. ASSUME NEW r \in 0..(Rows - 1), Hits(p, d, r) # {}
      PROVE  column[r] \in DOMAIN T /\ T[column[r]] = query[p.map[r][0]]
  <2>1. PICK m \in DOMAIN T : Max(Hits(p, d, r)) = m /\ T[m] = query[p.map[r][0]]
    BY <1>7, HitsOne
  <2>2. column[r] = Max(Hits(p, d, r))
    BY <1>1, <1>7 DEF SyncColumn, Maps
  <2> QED BY <2>1, <2>2
<1>8. Hits(p, d, 0) # {} /\ (query[1] # NoSize => Hits(p, d, 1) # {})
  BY FirstHits
<1>9. /\ 0 \in 0..(Slots - 1) /\ n \in 0..(Slots - 1) /\ n # 0 /\ (n + 1) - 1 = n
         /\ n + 1 \in 1..Slots
      /\ 0 \in 0..(Rows - 1) /\ 1 \in 0..(Rows - 1)
      /\ (\A i \in 0..(n - 1) : i \in 0..(Slots - 1) /\ i # n)
        /\ (\A i \in 0..n : i = n \/ i \in 0..(n - 1))
      /\ (\A c \in (n + 1)..(Slots - 1) : c \in n..(Slots - 1) /\ c \in 0..(Slots - 1) /\ c # n)
  BY <1>1, NumbersOfModes
<1> HIDE DEF u, column, query, T, K
<1>10. ASSUME NEW r \in 0..(Rows - 1), RowIs(p.query, sl, p.map[r], n),
              query[p.map[r][0]] # NoSize =>
                Hits(p, d, r) # {} /\ query[p.map[r][0]] = p.query[p.map[r][0]]
       PROVE  RowIs(query, sl2, u.map[r], n + 1)
  <2>1. SUFFICES ASSUME NEW i \in 0..n, query[u.map[r][0]] # NoSize
                 PROVE  u.map[r][i] \in DOMAIN TextModes[sl2[i]]
                        /\ TextModes[sl2[i]][u.map[r][i]] = query[u.map[r][0]]
    BY <1>9 DEF RowIs
  <2>2. u.map[r][0] = p.map[r][0]
    BY <1>3, <1>9
  <2>3. Hits(p, d, r) # {} /\ query[p.map[r][0]] = p.query[p.map[r][0]]
        /\ p.query[p.map[r][0]] # NoSize
    BY <1>10, <2>1, <2>2
  <2>4. CASE i = n
    <3>1. u.map[r][n] = column[r] /\ TextModes[sl2[n]] = T
      BY <1>3, <1>9 DEF T
    <3> QED BY <1>7, <2>2, <2>3, <2>4, <3>1
  <2>5. CASE i \in 0..(n - 1)
    <3>1. u.map[r][i] = p.map[r][i] /\ sl2[i] = sl[i]
      BY <1>3, <1>9, <2>5
    <3>2. p.map[r][i] \in DOMAIN TextModes[sl[i]]
          /\ TextModes[sl[i]][p.map[r][i]] = p.query[p.map[r][0]]
      BY <1>10, <2>3, <2>5 DEF RowIs
    <3> QED BY <2>2, <2>3, <3>1, <3>2
  <2> QED BY <1>9, <2>4, <2>5
<1>11. RowIs(query, sl2, u.map[0], n + 1) /\ RowIs(query, sl2, u.map[1], n + 1)
  <2>1. query[0] = p.query[0]
    BY <1>4, <1>9
  <2> QED BY <1>1, <1>4, <1>8, <1>9, <1>10, <2>1
<1>12. ASSUME NEW r \in K
       PROVE  r \in LaterModes(p) /\ r \in 0..(Rows - 1) /\ r # 1 /\ column[r] # -1
  <2>1. r \in 2..(p.maxMode - 1) /\ column[r] # -1
    BY <1>3, <1>12 DEF K, KeptRows, EnteredRows, column
  <2> QED BY <1>1, <2>1, NumbersOfModes DEF LaterModes
<1>13. ASSUME NEW r \in K PROVE LaterRow(query, sl2, u.map[r], n + 1)
  <2>1. LaterRow(p.query, sl, p.map[r], n)
    BY <1>1, <1>12
  <2>2. RowIs(p.query, sl, p.map[r], n) /\ p.map[r][0] \in DOMAIN TextModes[sl[0]]
        /\ p.map[r][0] > 1
        /\ \A c \in n..(Slots - 1) : p.map[r][c] = -1
    BY <2>1 DEF LaterRow
  <2>3. Hits(p, d, r) # {}
    <3>1. SUFFICES ASSUME Hits(p, d, r) = {} PROVE FALSE
      OBVIOUS
    <3>2. column[r] = p.map[r][n]
      BY <1>1, <1>12, <3>1 DEF column, SyncColumn, Maps
    <3>3. p.map[r][n] = -1
      BY <1>9, <2>2
    <3> QED BY <1>12, <3>2, <3>3
  <2>4. query[p.map[r][0]] = p.query[p.map[r][0]]
    <3>1. p.map[r][0] \in 0..(Rows - 1) /\ p.map[r][0] # 1
      BY <1>2, <2>2, ModesOfConsole
    <3> QED BY <1>4, <3>1
  <2>5. RowIs(query, sl2, u.map[r], n + 1)
    BY <1>10, <1>12, <2>2, <2>3, <2>4
  <2>6. u.map[r][0] = p.map[r][0]
    BY <1>3, <1>9, <1>12
  <2>7. \A c \in (n + 1)..(Slots - 1) : u.map[r][c] = -1
    BY <1>3, <1>9, <1>12, <2>2
  <2> QED BY <1>2, <2>2, <2>5, <2>6, <2>7 DEF LaterRow
<1>14. ASSUME NEW r \in K, NEW l \in K, u.map[r][0] = u.map[l][0] PROVE r = l
  <2>1. u.map[r][0] = p.map[r][0] /\ u.map[l][0] = p.map[l][0]
    BY <1>3, <1>9, <1>12
  <2> QED BY ZenonT(30), <1>1, <1>12, <1>14, <2>1
<1>15. u.map[0][0] = 0 /\ u.map[1][0] = 1 /\ u.maxMode \in 2..Rows
  BY <1>1, <1>3, <1>9
<1> HIDE DEF K
<1>16. Mapped(u, sl2, n + 1, K)
  BY <1>3, <1>5, <1>6, <1>9, <1>11, <1>13, <1>14, <1>15 DEF Mapped
<1> QED BY <1>16 DEF u, K

\* Another console's modes: those that it has too are left.
LEMMA SyncMapped ==
  ASSUME NEW p \in Private, NEW d \in Outputs, NEW sl, NEW sl2, NEW n,
         p.count = n, n < Slots, Mapped(p, sl, n, LaterModes(p)),
         sl2[n] = d, \A i \in 0..(n - 1) : sl2[i] = sl[i]
  PROVE  LET q == SyncOutputMode(p, d)
         IN  /\ q \in Private /\ Mapped(q, sl2, n + 1, LaterModes(q))
             /\ q.slots = p.slots /\ q.count = p.count /\ q.cursor = p.cursor
             /\ ModeFollows(p, q) /\ q.maxMode \in 2..p.maxMode
<1> DEFINE u == Entered(p, d)
           q == SyncOutputMode(p, d)
           kept == EnteredRows(p, d)
<1>1. p.map \in Maps /\ p.maxMode \in 2..Rows /\ sl[0] \in Outputs /\ Queried(p.query, sl)
  BY NumbersOfModes DEF Mapped
<1>2. /\ u \in Private /\ u.map \in Maps /\ u.slots = p.slots /\ u.count = p.count
      /\ u.maxMode = p.maxMode /\ u.mode = p.mode /\ u.cursor = p.cursor
  BY <1>1, EnteredIs
<1>3. q = Intersection(u, kept)
  BY SyncIs
<1> HIDE DEF u, q, kept
<1>4. ModesKept(u, q, kept)
  BY <1>1, <1>2, <1>3, IntersectionKeeps
<1>5. Mapped(u, sl2, n + 1, KeptRows(u, kept))
  BY EnteredMapped DEF u, kept
<1>6. Mapped(q, sl2, n + 1, LaterModes(q))
  BY <1>1, <1>2, <1>4, <1>5, KeptMapped
<1>7. q \in Private /\ q.slots = u.slots /\ q.count = u.count /\ q.cursor = u.cursor
      /\ q.maxMode \in 2..u.maxMode
  BY <1>4 DEF ModesKept
<1>8. ModeFollows(p, q)
  BY <1>2, <1>4 DEF ModesKept, ModeFollows
<1> QED BY <1>2, <1>6, <1>7, <1>8 DEF q

-----------------------------------------------------------------------------
(* What a right map says about the sizes.                                   *)

LEMMA MapIsSome ==
  ASSUME NEW p, p.map \in Maps
  PROVE  p.map # NoMap
<1>1. DOMAIN p.map = 0..(Rows - 1) /\ 0 \in 0..(Rows - 1)
  BY NumbersOfModes DEF Maps
<1>2. DOMAIN NoMap = {}
  BY DEF NoMap
<1> QED BY <1>1, <1>2

LEMMA LaterSizes ==
  ASSUME NEW p, NEW sl, NEW n, Mapped(p, sl, n, LaterModes(p)), NEW r \in LaterModes(p)
  PROVE  /\ p.map[r][0] \in DOMAIN TextModes[sl[0]] /\ p.map[r][0] > 1
         /\ SizeOf(p, r) = TextModes[sl[0]][p.map[r][0]]
         /\ SizeOf(p, r) # Base /\ SizeOf(p, r) # NoSize
         /\ \A c \in Outputs : SizeOf(p, r) # TextModes[c][1]
         /\ \A l \in LaterModes(p) : SizeOf(p, r) = SizeOf(p, l) => r = l
<1> DEFINE T == TextModes[sl[0]]
<1>1. /\ p.map \in Maps /\ Queried(p.query, sl) /\ sl[0] \in Outputs
      /\ \A l \in LaterModes(p) : LaterRow(p.query, sl, p.map[l], n)
      /\ \A k, l \in LaterModes(p) : p.map[k][0] = p.map[l][0] => k = l
  BY NumbersOfModes DEF Mapped
<1>2. p.map # NoMap
  BY <1>1, MapIsSome
<1>3. \A m \in DOMAIN T : m \in Int
  BY <1>1, ModesOfConsole, NumbersOfModes
<1>4. ASSUME NEW l \in LaterModes(p)
      PROVE  p.map[l][0] \in DOMAIN T /\ p.map[l][0] > 1 /\ SizeOf(p, l) = T[p.map[l][0]]
  <2>1. p.map[l][0] \in DOMAIN T /\ p.map[l][0] > 1
    BY <1>1 DEF LaterRow
  <2>2. p.map[l][0] # 1 /\ p.map[l][0] # 0
    BY <1>3, <2>1
  <2>3. p.query[p.map[l][0]] = T[p.map[l][0]]
    BY <1>1, <2>1, <2>2 DEF Queried
  <2>4. SizeOf(p, l) = p.query[p.map[l][0]]
    BY <1>2 DEF SizeOf
  <2> QED BY <2>1, <2>3, <2>4
<1>5. /\ 0 \in DOMAIN T /\ T[0] = Base
      /\ \A m \in DOMAIN T : T[m] = NoSize => m = 1
      /\ \A m, k \in DOMAIN T : T[m] = T[k] => m = k
  BY <1>1, ModesOfConsole
<1>6. p.map[r][0] # 1 /\ p.map[r][0] # 0
  BY <1>3, <1>4
<1>7. SizeOf(p, r) # Base /\ SizeOf(p, r) # NoSize
  BY <1>4, <1>5, <1>6
<1>8. \A c \in Outputs : SizeOf(p, r) # TextModes[c][1]
  BY <1>1, <1>4, ModesOne
<1>9. \A l \in LaterModes(p) : SizeOf(p, r) = SizeOf(p, l) => r = l
  BY <1>1, <1>4, <1>5
<1> QED BY <1>4, <1>7, <1>8, <1>9

LEMMA FirstSizes ==
  ASSUME NEW p, NEW sl, NEW n, Mapped(p, sl, n, LaterModes(p))
  PROVE  /\ sl[0] \in Outputs /\ SizeOf(p, 0) = Base
         /\ SizeOf(p, 1) \in {TextModes[sl[0]][1], NoSize} /\ SizeOf(p, 1) # Base
         /\ 0 \in 0..(p.maxMode - 1) /\ 1 \in 0..(p.maxMode - 1)
         /\ \A m \in 0..(p.maxMode - 1) : m = 0 \/ m = 1 \/ m \in LaterModes(p)
<1>1. /\ p.map \in Maps /\ Queried(p.query, sl) /\ sl[0] \in Outputs
      /\ p.map[0][0] = 0 /\ p.map[1][0] = 1 /\ p.maxMode \in 2..Rows
  BY NumbersOfModes DEF Mapped
<1>2. p.map # NoMap
  BY <1>1, MapIsSome
<1>3. SizeOf(p, 0) = p.query[0] /\ SizeOf(p, 1) = p.query[1]
  BY <1>1, <1>2 DEF SizeOf
<1>4. /\ 0 \in DOMAIN TextModes[sl[0]] /\ TextModes[sl[0]][0] = Base /\ Base # NoSize
      /\ 1 \in DOMAIN TextModes[sl[0]] /\ TextModes[sl[0]][1] # TextModes[sl[0]][0]
  <2>1. /\ 0 \in DOMAIN TextModes[sl[0]] /\ TextModes[sl[0]][0] = Base /\ Base # NoSize
        /\ 1 \in DOMAIN TextModes[sl[0]]
    BY <1>1, ModesOfConsole
  <2>2. \A m, k \in DOMAIN TextModes[sl[0]] : TextModes[sl[0]][m] = TextModes[sl[0]][k] => m = k
    BY <1>1, ModesOfConsole
  <2> QED BY <2>1, <2>2
<1>5. p.query[0] = Base /\ p.query[1] \in {TextModes[sl[0]][1], NoSize}
  BY <1>1, <1>4 DEF Queried
<1>6. \A m \in 0..(p.maxMode - 1) : m = 0 \/ m = 1 \/ m \in LaterModes(p)
  BY <1>1, NumbersOfModes DEF LaterModes
<1>7. 0 \in 0..(p.maxMode - 1) /\ 1 \in 0..(p.maxMode - 1)
  BY <1>1, NumbersOfModes
<1> QED BY <1>1, <1>3, <1>4, <1>5, <1>6, <1>7

\* A mode that is reported is the only one of its size, and every console has it
\* under the number in the map.
LEMMA ReportedModes ==
  ASSUME NEW p, NEW sl, NEW n, Mapped(p, sl, n, LaterModes(p)),
         NEW m \in 0..(p.maxMode - 1), SizeOf(p, m) # NoSize
  PROVE  /\ \A l \in 0..(p.maxMode - 1) : SizeOf(p, l) = SizeOf(p, m) => l = m
         /\ \A i \in 0..(n - 1) : /\ Accepts(sl[i], p.map[m][i])
                                  /\ TextModes[sl[i]][p.map[m][i]] = SizeOf(p, m)
<1>1. ASSUME NEW l \in 0..(p.maxMode - 1), SizeOf(p, l) = SizeOf(p, m) PROVE l = m
  <2>1. (m = 0 \/ m = 1 \/ m \in LaterModes(p)) /\ (l = 0 \/ l = 1 \/ l \in LaterModes(p))
    BY FirstSizes
  <2>2. /\ SizeOf(p, 0) = Base /\ SizeOf(p, 1) # Base
        /\ SizeOf(p, 1) \in {TextModes[sl[0]][1], NoSize} /\ sl[0] \in Outputs
    BY FirstSizes
  <2>3. \A k \in LaterModes(p) : SizeOf(p, k) # Base /\ SizeOf(p, k) # NoSize
        /\ SizeOf(p, k) # TextModes[sl[0]][1]
    BY <2>2, LaterSizes
  <2>4. m \in LaterModes(p) /\ l \in LaterModes(p) => l = m
    BY <1>1, LaterSizes
  <2> QED BY <1>1, <2>1, <2>2, <2>3, <2>4
<1>2. RowIs(p.query, sl, p.map[m], n)
  <2>1. m = 0 \/ m = 1 \/ m \in LaterModes(p)
    BY FirstSizes
  <2> QED BY <2>1 DEF Mapped, LaterRow
<1>3. SizeOf(p, m) = p.query[p.map[m][0]]
  <2>1. p.map # NoMap
    BY MapIsSome DEF Mapped
  <2> QED BY <2>1 DEF SizeOf
<1>4. ASSUME NEW i \in 0..(n - 1)
      PROVE  Accepts(sl[i], p.map[m][i]) /\ TextModes[sl[i]][p.map[m][i]] = SizeOf(p, m)
  BY <1>2, <1>3 DEF RowIs, Accepts
<1> QED BY <1>1, <1>4

\* There are not more modes than any of the consoles has.
LEMMA ModesBounded ==
  ASSUME NEW p, NEW sl, NEW n, Mapped(p, sl, n, LaterModes(p)), NEW i \in 0..(n - 1)
  PROVE  p.maxMode <= Cardinality(DOMAIN TextModes[sl[i]])
<1> DEFINE T == TextModes[sl[i]]
           N == Cardinality(DOMAIN T)
           A == 2..(p.maxMode - 1)
           B == 2..(N - 1)
           f == [r \in A |-> p.map[r][i]]
<1>1. sl[i] \in Outputs /\ p.maxMode \in 2..Rows
  BY DEF Mapped
<1>2. /\ N \in 2..Rows /\ DOMAIN T = 0..(N - 1) /\ T[0] = Base
  BY <1>1, ModesOfConsole
<1>3. N \in Int /\ p.maxMode \in Int /\ N >= 2 /\ p.maxMode >= 2
  BY <1>1, <1>2, NumbersOfModes
<1>4. \A r \in A : r \in 0..(p.maxMode - 1) /\ r \in LaterModes(p)
  BY <1>3 DEF LaterModes
<1>5. ASSUME NEW r \in A
      PROVE  f[r] \in DOMAIN T /\ T[f[r]] = SizeOf(p, r) /\ f[r] # 0 /\ f[r] # 1
  <2>1. SizeOf(p, r) # NoSize /\ SizeOf(p, r) # Base /\ SizeOf(p, r) # T[1]
    BY <1>1, <1>4, LaterSizes
  <2>2. f[r] \in DOMAIN T /\ T[f[r]] = SizeOf(p, r)
    BY <1>4, <2>1, ReportedModes DEF Accepts
  <2> QED BY <1>2, <2>1, <2>2
<1> HIDE DEF f, T, N
<1>6. \A r \in A : f[r] \in B
  BY <1>2, <1>3, <1>5
<1>7. \A r, l \in A : f[r] = f[l] => r = l
  <2>1. ASSUME NEW r \in A, NEW l \in A, f[r] = f[l] PROVE r = l
    <3>1. SizeOf(p, r) = SizeOf(p, l)
      BY <1>5, <2>1
    <3> QED BY <1>4, <3>1, LaterSizes
  <2> QED BY <2>1
<1>8. f \in [A -> B]
  BY <1>6 DEF f
<1>9. f \in Injection(A, B)
  BY <1>7, <1>8 DEF Injection, IsInjective
<1>10. IsFiniteSet(A) /\ Cardinality(A) = p.maxMode - 2
  <2>0. p.maxMode - 1 \in Int /\ 2 \in Int
    BY <1>3
  <2>1. IsFiniteSet(A) /\ Cardinality(A) = IF 2 > p.maxMode - 1 THEN 0 ELSE (p.maxMode - 1) - 2 + 1
    BY <2>0, FS_Interval
  <2> QED BY <1>3, <2>1
<1>11. IsFiniteSet(B) /\ Cardinality(B) = N - 2
  <2>0. N - 1 \in Int /\ 2 \in Int
    BY <1>3
  <2>1. IsFiniteSet(B) /\ Cardinality(B) = IF 2 > N - 1 THEN 0 ELSE (N - 1) - 2 + 1
    BY <2>0, FS_Interval
  <2> QED BY <1>3, <2>1
<1> HIDE DEF A, B
<1>12. Cardinality(A) <= Cardinality(B)
  BY <1>9, <1>11, FS_Injection
<1>13. p.maxMode - 2 <= N - 2
  BY <1>10, <1>11, <1>12
<1>14. p.maxMode <= N
  BY <1>3, <1>13
<1> QED BY <1>14 DEF N, T

-----------------------------------------------------------------------------
(* The sizes that both splitters offer.                                     *)

LaterSizesOf(p) == {SizeOf(p, m) : m \in LaterModes(p)}
FirstMode(p, size) ==
  {k \in 0..(p.maxMode - 1) :
     /\ SizeOf(p, k) = size
     /\ \A j \in 0..(k - 1) : SizeOf(p, j) # size}
OutKept(out, err) == {m \in 0..(out.maxMode - 1) : FirstMode(err, SizeOf(out, m)) # {}}
ErrKept(out, err) == UNION {FirstMode(err, SizeOf(out, m)) : m \in 0..(out.maxMode - 1)}

\* A later mode of one is of no size that a mode 0 or 1 of the other has.
LEMMA LaterIsLater ==
  ASSUME NEW p, NEW sl, NEW n, Mapped(p, sl, n, LaterModes(p)),
         NEW q, NEW tl, NEW k, Mapped(q, tl, k, LaterModes(q)),
         NEW m \in LaterModes(p), NEW l \in 0..(q.maxMode - 1), SizeOf(q, l) = SizeOf(p, m)
  PROVE  l \in LaterModes(q) /\ l \in FirstMode(q, SizeOf(p, m)) /\ m \in 0..(p.maxMode - 1)
<1>1. /\ l = 0 \/ l = 1 \/ l \in LaterModes(q)
      /\ SizeOf(q, 0) = Base /\ SizeOf(q, 1) \in {TextModes[tl[0]][1], NoSize} /\ tl[0] \in Outputs
  BY FirstSizes
<1>2. SizeOf(p, m) # Base /\ SizeOf(p, m) # NoSize
      /\ \A c \in Outputs : SizeOf(p, m) # TextModes[c][1]
  BY LaterSizes
<1>3. l \in LaterModes(q)
  BY <1>1, <1>2
<1>4. \A j \in 0..(q.maxMode - 1) : SizeOf(q, j) = SizeOf(q, l) => j = l
  BY <1>2, ReportedModes
<1>5. p.maxMode \in Int /\ q.maxMode \in Int
  BY NumbersOfModes DEF Mapped
<1>6. \A j \in 0..(l - 1) : j \in 0..(q.maxMode - 1) /\ j # l
  BY <1>5
<1>7. l \in FirstMode(q, SizeOf(p, m))
  BY <1>4, <1>6 DEF FirstMode
<1>8. m \in 0..(p.maxMode - 1)
  BY <1>5 DEF LaterModes
<1> QED BY <1>3, <1>7, <1>8

LEMMA SharedKept ==
  ASSUME NEW p, NEW sl, NEW n, Mapped(p, sl, n, LaterModes(p)),
         NEW q, NEW tl, NEW k, Mapped(q, tl, k, LaterModes(q))
  PROVE  /\ \A m \in LaterModes(p) :
              m \in OutKept(p, q) <=> \E l \in LaterModes(q) : SizeOf(q, l) = SizeOf(p, m)
         /\ \A l \in LaterModes(q) :
              l \in ErrKept(p, q) <=> \E m \in LaterModes(p) : SizeOf(q, l) = SizeOf(p, m)
<1>1. p.maxMode \in Int /\ q.maxMode \in Int
  BY NumbersOfModes DEF Mapped
<1>2. (\A m \in LaterModes(p) : m \in 0..(p.maxMode - 1))
      /\ (\A l \in LaterModes(q) : l \in 0..(q.maxMode - 1))
  BY <1>1 DEF LaterModes
<1>3. ASSUME NEW m \in LaterModes(p), m \in OutKept(p, q)
      PROVE  \E l \in LaterModes(q) : SizeOf(q, l) = SizeOf(p, m)
  <2>1. PICK l : l \in FirstMode(q, SizeOf(p, m))
    BY <1>3 DEF OutKept
  <2>2. l \in 0..(q.maxMode - 1) /\ SizeOf(q, l) = SizeOf(p, m)
    BY <2>1 DEF FirstMode
  <2> QED BY <2>2, LaterIsLater
<1>4. ASSUME NEW m \in LaterModes(p), NEW l \in LaterModes(q), SizeOf(q, l) = SizeOf(p, m)
      PROVE  m \in OutKept(p, q) /\ l \in ErrKept(p, q)
  <2>1. l \in FirstMode(q, SizeOf(p, m)) /\ m \in 0..(p.maxMode - 1)
    BY <1>2, <1>4, LaterIsLater
  <2> QED BY <2>1 DEF OutKept, ErrKept
<1>5. ASSUME NEW l \in LaterModes(q), l \in ErrKept(p, q)
      PROVE  \E m \in LaterModes(p) : SizeOf(q, l) = SizeOf(p, m)
  <2>1. PICK m \in 0..(p.maxMode - 1) : l \in FirstMode(q, SizeOf(p, m))
    BY <1>5 DEF ErrKept
  <2>2. SizeOf(q, l) = SizeOf(p, m)
    BY <2>1 DEF FirstMode
  <2>3. m \in LaterModes(p)
    BY <2>2, LaterIsLater
  <2> QED BY <2>2, <2>3
<1> QED BY <1>3, <1>4, <1>5

LEMMA KeptSizes ==
  ASSUME NEW p, p.map \in Maps, NEW q, NEW kept, ModesKept(p, q, kept)
  PROVE  LaterSizesOf(q) = {SizeOf(p, m) : m \in KeptRows(p, kept)}
<1>1. PICK g : RowsFrom(g, p, q, kept)
  BY DEF ModesKept
<1>2. q.query = p.query /\ q.map \in Maps
  BY DEF ModesKept
<1>3. p.map # NoMap /\ q.map # NoMap
  BY <1>2, MapIsSome
<1>4. ASSUME NEW r \in LaterModes(q) PROVE g[r] \in KeptRows(p, kept)
      /\ SizeOf(q, r) = SizeOf(p, g[r])
  <2>1. g[r] \in KeptRows(p, kept) /\ q.map[r] = p.map[g[r]]
    BY <1>1 DEF RowsFrom, LaterModes
  <2> QED BY <1>2, <1>3, <2>1 DEF SizeOf
<1>5. \A m \in KeptRows(p, kept) : \E r \in LaterModes(q) : g[r] = m
  BY <1>1 DEF RowsFrom, LaterModes
<1> QED BY <1>4, <1>5 DEF LaterSizesOf

\* After the intersection both offer the same.
LEMMA SharedSizes ==
  ASSUME NEW p, NEW sl, NEW n, Mapped(p, sl, n, LaterModes(p)),
         NEW q, NEW tl, NEW k, Mapped(q, tl, k, LaterModes(q)),
         NEW u, ModesKept(p, u, OutKept(p, q)), NEW v, ModesKept(q, v, ErrKept(p, q))
  PROVE  LaterSizesOf(u) = LaterSizesOf(v)
<1> DEFINE A == {SizeOf(p, m) : m \in KeptRows(p, OutKept(p, q))}
           B == {SizeOf(q, l) : l \in KeptRows(q, ErrKept(p, q))}
<1>1. LaterSizesOf(u) = A /\ LaterSizesOf(v) = B
  BY KeptSizes DEF Mapped
<1>2. ASSUME NEW m \in KeptRows(p, OutKept(p, q)) PROVE SizeOf(p, m) \in B
  <2>1. m \in LaterModes(p) /\ m \in OutKept(p, q)
    BY <1>2 DEF KeptRows, LaterModes
  <2>2. PICK l \in LaterModes(q) : SizeOf(q, l) = SizeOf(p, m)
    BY <2>1, SharedKept
  <2>3. l \in ErrKept(p, q)
    BY <2>1, <2>2, SharedKept
  <2>4. l \in KeptRows(q, ErrKept(p, q))
    BY <2>2, <2>3 DEF KeptRows, LaterModes
  <2> QED BY <2>2, <2>4
<1>3. ASSUME NEW l \in KeptRows(q, ErrKept(p, q)) PROVE SizeOf(q, l) \in A
  <2>1. l \in LaterModes(q) /\ l \in ErrKept(p, q)
    BY <1>3 DEF KeptRows, LaterModes
  <2>2. PICK m \in LaterModes(p) : SizeOf(q, l) = SizeOf(p, m)
    BY <2>1, SharedKept
  <2>3. m \in OutKept(p, q)
    BY <2>1, <2>2, SharedKept
  <2>4. m \in KeptRows(p, OutKept(p, q))
    BY <2>2, <2>3 DEF KeptRows, LaterModes
  <2> QED BY <2>2, <2>4
<1>4. A = B
  BY <1>2, <1>3
<1> QED BY <1>1, <1>4

-----------------------------------------------------------------------------
(* What an operation works on, and the setting of a mode.                   *)

Good(p) ==
  /\ p \in Private
  /\ \A i \in Columns(p) : p.slots[i] \in Outputs
  /\ \A i, j \in Columns(p) : p.slots[i] = p.slots[j] => i = j
  /\ p.count = 0 => p.maxMode = 1 /\ SizeOf(p, 0) = Base
  /\ p.count > 0 => Mapped(p, p.slots, p.count, LaterModes(p))

\* Only the current mode and the cursor are different.
SameModes(p, q) ==
  /\ q \in Private
  /\ q.slots = p.slots /\ q.count = p.count /\ q.query = p.query
  /\ q.map = p.map /\ q.maxMode = p.maxMode

Worlds ==
  [splitter : [Splitters -> Private], console : [Outputs -> Int], preferred : {Preferred, Base}]
Accepting(w) == \A d \in Outputs : Accepts(d, w.console[d])
RightWorld(w) ==
  /\ w \in Worlds /\ Accepting(w)
  /\ \A s \in Splitters : Good(w.splitter[s])

\* At most the mode of s was set, to m.
Adjusted(w, v, s, m) ==
  LET p == w.splitter[s]
      q == v.splitter[s]
  IN  /\ v \in Worlds /\ Accepting(v) /\ v.preferred = w.preferred
      /\ SameModes(p, q)
      /\ \A t \in Splitters \ {s} : v.splitter[t] = w.splitter[t]
      /\ \/ q.mode = p.mode /\ q.cursor = p.cursor
         \/ m \in 0..(p.maxMode - 1) /\ q.mode = m /\ q.cursor = <<0, 0>>

LEMMA SameIsGood ==
  ASSUME NEW p, Good(p), NEW q, SameModes(p, q)
  PROVE  /\ Good(q) /\ Consoles(q) = Consoles(p)
         /\ \A m : SizeOf(q, m) = SizeOf(p, m)
         /\ LaterSizesOf(q) = LaterSizesOf(p) /\ LaterModes(q) = LaterModes(p)
<1>1. /\ q \in Private /\ q.slots = p.slots /\ q.count = p.count /\ q.query = p.query
      /\ q.map = p.map /\ q.maxMode = p.maxMode
  BY DEF SameModes
<1>2. Columns(q) = Columns(p) /\ LaterModes(q) = LaterModes(p)
  BY <1>1 DEF Columns, LaterModes
<1>3. \A m : SizeOf(q, m) = SizeOf(p, m)
  BY <1>1 DEF SizeOf
<1>4. Consoles(q) = Consoles(p) /\ LaterSizesOf(q) = LaterSizesOf(p)
  BY <1>1, <1>2, <1>3 DEF Consoles, LaterSizesOf
<1>5. q.count > 0 => Mapped(q, q.slots, q.count, LaterModes(q))
  BY <1>1, <1>2 DEF Good, Mapped
<1> QED BY <1>1, <1>2, <1>3, <1>4, <1>5 DEF Good

LEMMA ModeIsSet ==
  ASSUME NEW p \in Private, NEW m \in Int
  PROVE  LET q == TextOutSetMode(p, m)
         IN  SameModes(p, q) /\ q.mode = m /\ q.cursor = <<0, 0>>
<1> DEFINE q == TextOutSetMode(p, m)
<1>1. q = [p EXCEPT !.mode = m, !.cursor = <<0, 0>>]
  BY DEF TextOutSetMode
<1>2. p = [slots |-> p.slots, count |-> p.count, query |-> p.query, map |-> p.map,
           maxMode |-> p.maxMode, mode |-> p.mode, cursor |-> p.cursor]
      /\ p.slots \in [0..(Slots - 1) -> Outputs \cup {NoDevice}] /\ p.count \in 0..Slots
      /\ p.query \in [0..(Rows - 1) -> Sizes] /\ p.map \in Maps \cup {NoMap}
        /\ p.maxMode \in 1..Rows
  BY DEF Private
<1> HIDE DEF q
<1>3. q = [slots |-> p.slots, count |-> p.count, query |-> p.query, map |-> p.map,
           maxMode |-> p.maxMode, mode |-> m, cursor |-> <<0, 0>>]
  BY <1>1, <1>2
<1>4. q \in Private
  BY <1>2, <1>3 DEF Private
<1> QED BY <1>3, <1>4 DEF SameModes, q

LEMMA AdjustedIsRight ==
  ASSUME NEW w, RightWorld(w), NEW s \in Splitters, NEW m, NEW v, Adjusted(w, v, s, m)
  PROVE  /\ RightWorld(v)
         /\ \A t \in Splitters : SameModes(w.splitter[t], v.splitter[t])
<1>1. ASSUME NEW t \in Splitters PROVE SameModes(w.splitter[t], v.splitter[t])
  <2>1. w.splitter[t] \in Private
    BY DEF RightWorld, Worlds
  <2> QED BY <2>1 DEF Adjusted, SameModes
<1>2. \A t \in Splitters : Good(v.splitter[t])
  BY <1>1, SameIsGood DEF RightWorld
<1> QED BY <1>1, <1>2 DEF RightWorld, Adjusted

LEMMA SwitchAdjusts ==
  ASSUME NEW w, RightWorld(w), NEW s \in Splitters, NEW failing,
         NEW m \in 0..(w.splitter[s].maxMode - 1)
  PROVE  LET p == w.splitter[s]
             r == Switched(w, s, m, failing)
         IN  /\ Adjusted(w, r.w, s, m) /\ r.w.splitter[s].mode = m
             /\ r.ok => \A d \in Consoles(p) : r.w.console[d] = p.map[m][ColumnOf(p, d)]
             /\ failing = {} /\ (\A d \in Consoles(p) : Accepts(d, p.map[m][ColumnOf(p, d)]))
                  => r.ok
<1> DEFINE p == w.splitter[s]
           new(d) == p.map[m][ColumnOf(p, d)]
           refusing == {d \in Consoles(p) : d \in failing \/ ~Accepts(d, new(d))}
           q == TextOutSetMode(p, m)
           reached == [d \in Outputs |-> IF d \in Consoles(p) \ refusing THEN new(d)
                       ELSE w.console[d]]
           r == Switched(w, s, m, failing)
<1>1. r = [ok |-> refusing = {}, w |-> [w EXCEPT !.splitter[s] = q, !.console = reached]]
  BY DEF Switched
<1>2. /\ w = [splitter |-> w.splitter, console |-> w.console, preferred |-> w.preferred]
      /\ w.splitter \in [Splitters -> Private] /\ w.console \in [Outputs -> Int]
      /\ w.preferred \in {Preferred, Base} /\ Accepting(w) /\ Good(p) /\ p \in Private
  BY DEF RightWorld, Worlds
<1>3. m \in Int
  BY <1>2, NumbersOfModes DEF Private
<1>4. SameModes(p, q) /\ q.mode = m /\ q.cursor = <<0, 0>> /\ q \in Private
  BY <1>2, <1>3, ModeIsSet DEF SameModes
<1>5. ASSUME NEW d \in Outputs PROVE Accepts(d, reached[d]) /\ reached[d] \in Int
  <2>1. Accepts(d, reached[d])
    <3>1. CASE d \in Consoles(p) \ refusing
      <4>1. reached[d] = new(d)
        BY <3>1
      <4>2. Accepts(d, new(d))
        BY <3>1
      <4> QED BY <4>1, <4>2
    <3>2. CASE ~(d \in Consoles(p) \ refusing)
      <4>1. reached[d] = w.console[d]
        BY <3>2
      <4> QED BY <1>2, <4>1 DEF Accepting
    <3> QED BY <3>1, <3>2
  <2> HIDE DEF reached
  <2>2. DOMAIN TextModes[d] \in SUBSET (0..(Rows - 1))
    BY ModesOfConsole
  <2>3. reached[d] \in 0..(Rows - 1)
    BY <2>1, <2>2 DEF Accepts
  <2> QED BY <2>1, <2>3, NumbersOfModes
<1>6. reached \in [Outputs -> Int]
  BY <1>5
<1>7. refusing = {} => \A d \in Consoles(p) : reached[d] = new(d)
  <2>1. Consoles(p) \in SUBSET Outputs
    BY <1>2 DEF Good, Consoles
  <2> QED BY <2>1
<1> HIDE DEF q, reached, p
<1>8. (r.ok <=> refusing = {}) /\ r.w = [splitter |-> [w.splitter EXCEPT ![s] = q],
                                      console |-> reached, preferred |-> w.preferred]
  <2>1. r.w = [w EXCEPT !.splitter[s] = q, !.console = reached]
    BY <1>1
  <2> HIDE DEF r, refusing
  <2>2. r.ok = (refusing = {})
    BY <1>1, Zenon
  <2>3. r.ok <=> refusing = {}
    BY <2>2, Zenon
  <2> QED BY <1>2, <2>1, <2>3
<1> HIDE DEF r, refusing
<1>9. /\ r.w.splitter = [w.splitter EXCEPT ![s] = q] /\ r.w.console = reached
      /\ r.w.preferred = w.preferred
  BY <1>8
<1>10. r.w.splitter[s] = q /\ (\A t \in Splitters \ {s} : r.w.splitter[t] = w.splitter[t])
       /\ r.w.splitter \in [Splitters -> Private]
  BY <1>2, <1>4, <1>9
<1>11. r.w \in Worlds
  <2>1. \A S, C, x : S \in [Splitters -> Private] /\ C \in [Outputs -> Int]
        /\ x \in {Preferred, Base}
          => [splitter |-> S, console |-> C, preferred |-> x] \in Worlds
    BY DEF Worlds
  <2> QED BY <1>2, <1>6, <1>8, <1>9, <1>10, <2>1
<1>12. Accepting(r.w)
  BY <1>5, <1>9 DEF Accepting
<1>13. Adjusted(w, r.w, s, m) /\ r.w.splitter[s].mode = m
  BY <1>4, <1>9, <1>10, <1>11, <1>12 DEF Adjusted, p
<1>14. r.ok => \A d \in Consoles(p) : r.w.console[d] = new(d)
  BY <1>7, <1>8, <1>9
<1>15. failing = {} /\ (\A d \in Consoles(p) : Accepts(d, new(d))) => r.ok
  BY <1>8 DEF refusing
<1> QED BY <1>13, <1>14, <1>15 DEF r, p

LEMMA WithModeAdjusts ==
  ASSUME NEW w, RightWorld(w), NEW s \in Splitters, NEW failing, NEW m
  PROVE  LET p == w.splitter[s]
             r == WithMode(w, s, m, failing)
         IN  /\ Adjusted(w, r.w, s, m)
             /\ m \in 0..(p.maxMode - 1) => r.w.splitter[s].mode = m
             /\ m \notin 0..(p.maxMode - 1) => r = [ok |-> FALSE, w |-> w]
             /\ m \in 0..(p.maxMode - 1) /\ m # p.mode => r = Switched(w, s, m, failing)
<1> DEFINE p == w.splitter[s]
           r == WithMode(w, s, m, failing)
           q == TextOutSetMode(p, m)
<1>1. /\ w = [splitter |-> w.splitter, console |-> w.console, preferred |-> w.preferred]
      /\ w.splitter \in [Splitters -> Private] /\ w.console \in [Outputs -> Int]
      /\ w.preferred \in {Preferred, Base} /\ Accepting(w) /\ p \in Private /\ w \in Worlds
  BY DEF RightWorld, Worlds
<1>2. CASE m \notin 0..(p.maxMode - 1)
  <2>1. r = [ok |-> FALSE, w |-> w]
    BY <1>2 DEF WithMode
  <2>2. Adjusted(w, w, s, m)
    BY <1>1 DEF Adjusted, SameModes
  <2> QED BY <1>2, <2>1, <2>2
<1>3. CASE m \in 0..(p.maxMode - 1) /\ m = p.mode
  <2>1. r.w = [w EXCEPT !.splitter[s] = q]
    BY <1>3 DEF WithMode
  <2>2. m \in Int
    BY <1>1, <1>3 DEF Private
  <2>3. SameModes(p, q) /\ q.mode = m /\ q.cursor = <<0, 0>> /\ q \in Private
    BY <1>1, <2>2, ModeIsSet DEF SameModes
  <2> HIDE DEF q, r, p
  <2>4. r.w = [splitter |-> [w.splitter EXCEPT ![s] = q], console |-> w.console,
        preferred |-> w.preferred]
    BY <1>1, <2>1
  <2>5. /\ r.w.splitter = [w.splitter EXCEPT ![s] = q] /\ r.w.console = w.console
        /\ r.w.preferred = w.preferred
    BY <2>4
  <2>6. r.w.splitter[s] = q /\ (\A t \in Splitters \ {s} : r.w.splitter[t] = w.splitter[t])
        /\ r.w.splitter \in [Splitters -> Private]
    BY <1>1, <2>3, <2>5
  <2>7. r.w \in Worlds
    <3>1. \A S, C, x : S \in [Splitters -> Private] /\ C \in [Outputs -> Int]
          /\ x \in {Preferred, Base}
            => [splitter |-> S, console |-> C, preferred |-> x] \in Worlds
      BY DEF Worlds
    <3> QED BY <1>1, <2>4, <2>5, <2>6, <3>1
  <2>8. Accepting(r.w)
    BY <1>1, <2>5 DEF Accepting
  <2>9. Adjusted(w, r.w, s, m) /\ r.w.splitter[s].mode = m
    BY <1>3, <2>3, <2>5, <2>6, <2>7, <2>8 DEF Adjusted, p
  <2> QED BY <1>3, <2>9 DEF p, r
<1>4. CASE m \in 0..(p.maxMode - 1) /\ m # p.mode
  <2>1. r = Switched(w, s, m, failing)
    BY <1>4 DEF WithMode
  <2> QED BY <1>4, <2>1, SwitchAdjusts
<1> QED BY <1>2, <1>3, <1>4

-----------------------------------------------------------------------------
(* The intersection of the two splitters.                                   *)

SharedMatch(w) ==
  LET out == w.splitter["ConOut"]
      err == w.splitter["StdErr"]
  IN  out.count > 0 /\ out.slots[0] \in Consoles(err) => LaterSizesOf(out) = LaterSizesOf(err)

\* The consoles stay, the current mode follows its row or is replaced.
Followed(p, q) ==
  /\ q.slots = p.slots /\ q.count = p.count
  /\ p.count = 0 => q = p
  /\ p.mode \in 0..(p.maxMode - 1) => q.mode \in 0..(q.maxMode - 1)
  /\ p.mode > 3 * Rows => q.mode >= p.mode - Rows

LEMMA PutIsRight ==
  ASSUME NEW w, RightWorld(w), NEW s \in Splitters, NEW q, Good(q)
  PROVE  LET v == [w EXCEPT !.splitter[s] = q]
         IN  /\ RightWorld(v) /\ v.splitter[s] = q
             /\ \A t \in Splitters \ {s} : v.splitter[t] = w.splitter[t]
             /\ v.console = w.console /\ v.preferred = w.preferred
<1> DEFINE v == [w EXCEPT !.splitter[s] = q]
           S == [w.splitter EXCEPT ![s] = q]
<1>1. /\ w = [splitter |-> w.splitter, console |-> w.console, preferred |-> w.preferred]
      /\ w.splitter \in [Splitters -> Private] /\ w.console \in [Outputs -> Int]
      /\ w.preferred \in {Preferred, Base} /\ Accepting(w)
      /\ \A t \in Splitters : Good(w.splitter[t])
  BY DEF RightWorld, Worlds
<1>2. v = [splitter |-> S, console |-> w.console, preferred |-> w.preferred]
  BY <1>1
<1>3. q \in Private
  BY DEF Good
<1>4. S \in [Splitters -> Private] /\ S[s] = q /\ \A t \in Splitters \ {s} : S[t] = w.splitter[t]
  BY <1>1, <1>3
<1> HIDE DEF S, v
<1>5. v.splitter = S /\ v.console = w.console /\ v.preferred = w.preferred
  BY <1>2
<1>6. v \in Worlds
  <2>1. \A X, C, x : X \in [Splitters -> Private] /\ C \in [Outputs -> Int]
        /\ x \in {Preferred, Base}
          => [splitter |-> X, console |-> C, preferred |-> x] \in Worlds
    BY DEF Worlds
  <2> QED BY <1>1, <1>2, <1>4, <2>1
<1>7. \A t \in Splitters : Good(v.splitter[t])
  <2>1. \A t \in Splitters : t = s \/ t \in Splitters \ {s}
    OBVIOUS
  <2> QED BY <1>1, <1>4, <1>5, <2>1
<1>8. Accepting(v)
  BY <1>1, <1>5 DEF Accepting
<1>9. RightWorld(v)
  BY <1>6, <1>7, <1>8 DEF RightWorld
<1> QED BY <1>4, <1>5, <1>9 DEF v

LEMMA ReplacedIsRight ==
  ASSUME NEW w, RightWorld(w), NEW s \in Splitters, NEW failing
  PROVE  LET v == Replaced(w, s, failing)
             p == w.splitter[s]
         IN  /\ RightWorld(v)
             /\ \A t \in Splitters : SameModes(w.splitter[t], v.splitter[t])
             /\ \A t \in Splitters \ {s} : v.splitter[t] = w.splitter[t]
             /\ p.mode \in -1..(p.maxMode - 1) => v.splitter[s].mode \in 0..(p.maxMode - 1)
             /\ p.mode > 0 => v = w
<1> DEFINE v == Replaced(w, s, failing)
           p == w.splitter[s]
<1>1. p \in Private /\ \A t \in Splitters : w.splitter[t] \in Private
  BY DEF RightWorld, Worlds
<1>2. p.maxMode \in Int /\ p.maxMode >= 1 /\ p.mode \in Int
  <2> HIDE DEF p
  <2>1. p.maxMode \in 1..Rows /\ p.mode \in Int
    BY <1>1 DEF Private
  <2> QED BY <2>1, NumbersOfModes
<1>3. CASE p.mode < 0
  <2>1. v = WithMode(w, s, 0, failing).w
    BY <1>3 DEF Replaced
  <2>2. 0 \in 0..(p.maxMode - 1)
    BY <1>2
  <2>3. Adjusted(w, v, s, 0) /\ v.splitter[s].mode = 0
    BY <2>1, <2>2, WithModeAdjusts
  <2>4. RightWorld(v) /\ \A t \in Splitters : SameModes(w.splitter[t], v.splitter[t])
    BY <2>3, AdjustedIsRight
  <2>5. \A t \in Splitters \ {s} : v.splitter[t] = w.splitter[t]
    BY <2>3 DEF Adjusted
  <2>6. ~(p.mode > 0)
    BY <1>2, <1>3
  <2> QED BY <2>2, <2>3, <2>4, <2>5, <2>6
<1>4. CASE ~(p.mode < 0)
  <2>1. v = w
    BY <1>4 DEF Replaced
  <2>2. \A t \in Splitters : SameModes(w.splitter[t], v.splitter[t])
    BY <1>1, <2>1 DEF SameModes
  <2>3. p.mode \in -1..(p.maxMode - 1) => p.mode \in 0..(p.maxMode - 1)
    BY <1>2, <1>4
  <2> QED BY <2>1, <2>2, <2>3
<1> QED BY <1>3, <1>4

LEMMA IntersectedIsGood ==
  ASSUME NEW p, Good(p), p.count > 0, NEW kept
  PROVE  LET u == Intersection(p, kept)
         IN  /\ Good(u) /\ ModesKept(p, u, kept) /\ u.slots = p.slots /\ u.count = p.count
             /\ ModeFollows(p, u)
<1> DEFINE u == Intersection(p, kept)
<1>1. p \in Private /\ Mapped(p, p.slots, p.count, LaterModes(p)) /\ p.count \in Nat
  BY NumbersOfModes DEF Good, Private
<1>2. p.map \in Maps /\ p.maxMode \in 2..Rows
  BY <1>1 DEF Mapped
<1> HIDE DEF u
<1>3. ModesKept(p, u, kept)
  BY <1>1, <1>2, IntersectionKeeps DEF u
<1>4. u \in Private /\ u.slots = p.slots /\ u.count = p.count /\ ModeFollows(p, u)
  BY <1>3 DEF ModesKept
<1>5. Mapped(p, p.slots, p.count, KeptRows(p, kept))
  <2>1. KeptRows(p, kept) \in SUBSET LaterModes(p)
    BY DEF KeptRows, LaterModes
  <2> QED BY <1>1, <2>1 DEF Mapped
<1>6. Mapped(u, p.slots, p.count, LaterModes(u))
  BY <1>1, <1>2, <1>3, <1>5, KeptMapped
<1>7. Columns(u) = Columns(p) /\ u.count # 0
  BY <1>1, <1>4 DEF Columns
<1>8. Good(u)
  BY <1>4, <1>6, <1>7 DEF Good
<1> QED BY <1>3, <1>4, <1>8 DEF u

LEMMA FollowedThen ==
  ASSUME NEW p, Good(p), NEW u, ModeFollows(p, u), u \in Private, p.count > 0,
         u.slots = p.slots, u.count = p.count,
         NEW q, SameModes(u, q),
         u.mode \in -1..(u.maxMode - 1) => q.mode \in 0..(u.maxMode - 1),
         u.mode > 0 => q = u
  PROVE  Followed(p, q)
<1>1. q.slots = p.slots /\ q.count = p.count /\ q.maxMode = u.maxMode
  BY DEF SameModes
<1>2. p.mode \in 0..(p.maxMode - 1) => q.mode \in 0..(q.maxMode - 1)
  BY <1>1 DEF ModeFollows
<1>3. p.mode > 3 * Rows => q.mode >= p.mode - Rows
  <2>1. ASSUME p.mode > 3 * Rows PROVE u.mode > 0 /\ u.mode >= p.mode - Rows
    <3>1. u.mode >= p.mode - Rows /\ u.mode \in Int
      BY <2>1 DEF ModeFollows
    <3>2. p.mode \in Int
      BY DEF Good, Private
    <3> QED BY <2>1, <3>1, <3>2, NumbersOfModes
  <2> QED BY <2>1
<1>4. p.count # 0
  BY DEF Good, Private
<1> QED BY <1>1, <1>2, <1>3, <1>4 DEF Followed

LEMMA GetIs ==
  ASSUME NEW w, NEW failing, FoundTheSameTextOut(w)
  PROVE  LET out == w.splitter["ConOut"]
             err == w.splitter["StdErr"]
             done == Replaced([w EXCEPT !.splitter["ConOut"] = Intersection(@, OutKept(out, err))],
                              "ConOut", failing)
         IN  GetIntersectionBetweenConOutAndStrErr(w, failing) =
               Replaced([done EXCEPT !.splitter["StdErr"] = Intersection(@, ErrKept(out, err))],
                        "StdErr", failing)
BY DEF GetIntersectionBetweenConOutAndStrErr, OutKept, ErrKept, FirstMode

LEMMA FoundThen ==
  ASSUME NEW w, RightWorld(w)
  PROVE  LET out == w.splitter["ConOut"]
             err == w.splitter["StdErr"]
         IN  /\ FoundTheSameTextOut(w) => out.count > 0 /\ err.count > 0
             /\ out.count > 0 /\ out.slots[0] \in Consoles(err) => FoundTheSameTextOut(w)
<1> DEFINE out == w.splitter["ConOut"]
           err == w.splitter["StdErr"]
<1>1. out \in Private /\ err \in Private
  BY DEF RightWorld, Worlds, Splitters
<1> HIDE DEF out, err
<1>2. out.count \in Nat /\ err.count \in Nat
  BY <1>1, NumbersOfModes DEF Private
<1>3. ASSUME FoundTheSameTextOut(w) PROVE out.count > 0 /\ err.count > 0
  <2>1. PICK i \in Columns(out), j \in Columns(err) : TRUE
    BY <1>3 DEF FoundTheSameTextOut, out, err
  <2> QED BY <1>2, <2>1 DEF Columns
<1>4. ASSUME out.count > 0, out.slots[0] \in Consoles(err) PROVE FoundTheSameTextOut(w)
  <2>1. 0 \in Columns(out)
    BY <1>2, <1>4 DEF Columns
  <2>2. PICK j \in Columns(err) : out.slots[0] = err.slots[j]
    BY <1>4 DEF Consoles
  <2>3. 0 * err.count + j = j
    BY <1>2, <2>2 DEF Columns
  <2>4. out.slots[0] = err.slots[0 * err.count + j]
    BY <2>2, <2>3
  <2> QED BY <2>1, <2>4 DEF FoundTheSameTextOut, out, err
<1> QED BY <1>3, <1>4 DEF out, err

\* Both splitters are left with the sizes they share, if they share their
\* consoles; nothing else of the world changes.
LEMMA GetIsRight ==
  ASSUME NEW w, RightWorld(w), NEW failing
  PROVE  LET v == GetIntersectionBetweenConOutAndStrErr(w, failing)
         IN  /\ RightWorld(v) /\ SharedMatch(v)
             /\ \A s \in Splitters : Followed(w.splitter[s], v.splitter[s])
<1> DEFINE out == w.splitter["ConOut"]
           err == w.splitter["StdErr"]
           v == GetIntersectionBetweenConOutAndStrErr(w, failing)
<1>1. Good(out) /\ Good(err) /\ \A s \in Splitters : Good(w.splitter[s])
      /\ w.splitter[s] \in Private
  BY DEF RightWorld, Worlds, Splitters
<1>2. CASE ~FoundTheSameTextOut(w)
  <2>1. v = w
    BY <1>2 DEF GetIntersectionBetweenConOutAndStrErr
  <2>2. SharedMatch(v)
    BY <1>2, <2>1, FoundThen DEF SharedMatch
  <2>3. ASSUME NEW s \in Splitters PROVE Followed(w.splitter[s], v.splitter[s])
    <3>1. w.splitter[s].mode \in Int
      BY <1>1 DEF Private
    <3> QED BY <2>1, <3>1, NumbersOfModes DEF Followed
  <2> QED BY <2>1, <2>2, <2>3
<1>3. CASE FoundTheSameTextOut(w)
  <2> DEFINE a == Intersection(out, OutKept(out, err))
             b == Intersection(err, ErrKept(out, err))
             w1 == [w EXCEPT !.splitter["ConOut"] = a]
             w2 == Replaced(w1, "ConOut", failing)
             w3 == [w2 EXCEPT !.splitter["StdErr"] = b]
             w4 == Replaced(w3, "StdErr", failing)
  <2>1. out.count > 0 /\ err.count > 0
    BY <1>3, FoundThen
  <2>2. /\ Good(a) /\ ModesKept(out, a, OutKept(out, err)) /\ ModeFollows(out, a)
        /\ a.slots = out.slots /\ a.count = out.count
    BY <1>1, <2>1, IntersectedIsGood
  <2>3. /\ Good(b) /\ ModesKept(err, b, ErrKept(out, err)) /\ ModeFollows(err, b)
        /\ b.slots = err.slots /\ b.count = err.count
    BY <1>1, <2>1, IntersectedIsGood
  <2>4. "ConOut" \in Splitters /\ "StdErr" \in Splitters \ {"ConOut"} /\ "StdErr" \in Splitters
        /\ "ConOut" \in Splitters \ {"StdErr"} /\ \A s \in Splitters : s = "ConOut" \/ s = "StdErr"
    BY DEF Splitters
  <2>5. LaterSizesOf(a) = LaterSizesOf(b)
    <3>1. Mapped(out, out.slots, out.count, LaterModes(out))
          /\ Mapped(err, err.slots, err.count, LaterModes(err))
      BY <1>1, <2>1 DEF Good
    <3> QED BY <2>2, <2>3, <3>1, SharedSizes
  <2>6. v = w4
    <3>1. v = Replaced([Replaced([w EXCEPT !.splitter["ConOut"] = Intersection(@,
          OutKept(out, err))],
                                 "ConOut", failing)
                          EXCEPT !.splitter["StdErr"] = Intersection(@, ErrKept(out, err))],
                       "StdErr", failing)
      BY <1>3, GetIs
    <3>2. [w EXCEPT !.splitter["ConOut"] = Intersection(@, OutKept(out, err))] = w1
      OBVIOUS
    <3>3. v = Replaced([w2 EXCEPT !.splitter["StdErr"] = Intersection(@, ErrKept(out, err))],
          "StdErr", failing)
      BY <3>1, <3>2
    <3>4. RightWorld(w1) /\ w1.splitter["StdErr"] = err
      BY <2>2, <2>4, PutIsRight
    <3>5. w2.splitter["StdErr"] = err
      <4> HIDE DEF w1, err
      <4>1. w2.splitter["StdErr"] = w1.splitter["StdErr"]
        BY <2>4, <3>4, ReplacedIsRight
      <4> QED BY <3>4, <4>1
    <3> HIDE DEF w2
    <3>6. [w2 EXCEPT !.splitter["StdErr"] = Intersection(@,
          ErrKept(out, err))] = [w2 EXCEPT !.splitter["StdErr"] = b]
      BY <3>5
    <3> QED BY <3>3, <3>6
  <2>7. RightWorld(w1) /\ w1.splitter["ConOut"] = a
    BY <2>2, <2>4, PutIsRight
  <2> HIDE DEF w1, a, b, out, err
  <2>8. /\ RightWorld(w2) /\ SameModes(a, w2.splitter["ConOut"])
        /\ a.mode \in -1..(a.maxMode - 1) => w2.splitter["ConOut"].mode \in 0..(a.maxMode - 1)
        /\ a.mode > 0 => w2.splitter["ConOut"] = a
    BY <2>4, <2>7, ReplacedIsRight
  <2> HIDE DEF w2
  <2>9. /\ RightWorld(w3) /\ w3.splitter["StdErr"] = b
        /\ w3.splitter["ConOut"] = w2.splitter["ConOut"]
    BY <2>3, <2>4, <2>8, PutIsRight
  <2> HIDE DEF w3
  <2>10. /\ RightWorld(w4) /\ SameModes(b, w4.splitter["StdErr"])
         /\ b.mode \in -1..(b.maxMode - 1) => w4.splitter["StdErr"].mode \in 0..(b.maxMode - 1)
         /\ b.mode > 0 => w4.splitter["StdErr"] = b
         /\ w4.splitter["ConOut"] = w2.splitter["ConOut"]
    BY <2>4, <2>9, ReplacedIsRight
  <2> HIDE DEF w4, v
  <2>11. Followed(out, v.splitter["ConOut"])
    <3>1. a \in Private
      BY <2>2 DEF Good
    <3>2. v.splitter["ConOut"] = w2.splitter["ConOut"]
      BY <2>6, <2>10
    <3> QED BY <1>1, <2>1, <2>2, <2>8, <3>1, <3>2, FollowedThen
  <2>12. Followed(err, v.splitter["StdErr"])
    <3>1. b \in Private
      BY <2>3 DEF Good
    <3> QED BY <1>1, <2>1, <2>3, <2>6, <2>10, <3>1, FollowedThen
  <2>13. LaterSizesOf(v.splitter["ConOut"]) = LaterSizesOf(v.splitter["StdErr"])
    <3>1. LaterSizesOf(w2.splitter["ConOut"]) = LaterSizesOf(a)
      BY <2>2, <2>8, SameIsGood
    <3>2. LaterSizesOf(w4.splitter["StdErr"]) = LaterSizesOf(b)
      BY <2>3, <2>10, SameIsGood
    <3> QED BY <2>5, <2>6, <2>10, <3>1, <3>2
  <2>14. SharedMatch(v)
    BY <2>13 DEF SharedMatch
  <2>15. \A s \in Splitters : Followed(w.splitter[s], v.splitter[s])
    BY <2>4, <2>11, <2>12 DEF out, err
  <2> QED BY <2>6, <2>10, <2>14, <2>15 DEF v
<1> QED BY <1>2, <1>3

-----------------------------------------------------------------------------
(* The mode that a new console starts with.                                 *)

LEMMA ColumnIs ==
  ASSUME NEW p, NEW d \in Consoles(p)
  PROVE  ColumnOf(p, d) \in Columns(p) /\ p.slots[ColumnOf(p, d)] = d
<1>1. \E i \in Columns(p) : p.slots[i] = d
  BY DEF Consoles
<1> QED BY <1>1 DEF ColumnOf

\* A mode that is reported and not the current one is entered by all consoles.
LEMMA AllSwitched ==
  ASSUME NEW w, RightWorld(w), NEW s \in Splitters, NEW m,
         QueryMode(w.splitter[s], m), m # w.splitter[s].mode
  PROVE  LET p == w.splitter[s]
             r == WithMode(w, s, m, {})
         IN  /\ r.ok /\ r.w.splitter[s].mode = m
             /\ \A d \in Consoles(p) : Shows(r.w.console, d) = SizeOf(p, m)
<1> DEFINE p == w.splitter[s]
           r == WithMode(w, s, m, {})
<1>1. m \in 0..(p.maxMode - 1) /\ SizeOf(p, m) # NoSize
  BY DEF QueryMode
<1>2. r = Switched(w, s, m, {}) /\ r.w.splitter[s].mode = m
  BY <1>1, WithModeAdjusts
<1>3. Good(p)
  BY DEF RightWorld
<1> HIDE DEF p, r
<1>4. ASSUME NEW d \in Consoles(p)
      PROVE  /\ Accepts(d, p.map[m][ColumnOf(p, d)])
             /\ TextModes[d][p.map[m][ColumnOf(p, d)]] = SizeOf(p, m)
  <2>1. ColumnOf(p, d) \in 0..(p.count - 1) /\ p.slots[ColumnOf(p, d)] = d
    BY ColumnIs DEF Columns
  <2>2. p.count > 0
    <3>1. p.count \in Int
      BY <1>3, NumbersOfModes DEF Good, Private
    <3> QED BY <2>1, <3>1
  <2>3. Mapped(p, p.slots, p.count, LaterModes(p))
    BY <1>3, <2>2 DEF Good
  <2>4. \A i \in 0..(p.count - 1) : /\ Accepts(p.slots[i], p.map[m][i])
                                   /\ TextModes[p.slots[i]][p.map[m][i]] = SizeOf(p, m)
    BY <1>1, <2>3, ReportedModes
  <2> QED BY <2>1, <2>4
<1>5. r.ok /\ \A d \in Consoles(p) : r.w.console[d] = p.map[m][ColumnOf(p, d)]
  BY <1>1, <1>2, <1>4, SwitchAdjusts DEF p
<1>6. \A d \in Consoles(p) : Shows(r.w.console, d) = SizeOf(p, m)
  BY <1>4, <1>5 DEF Shows
<1> QED BY <1>2, <1>5, <1>6 DEF p, r

LEMMA ModeOfSizeIs ==
  ASSUME NEW p, Good(p), p.count > 0, NEW size
  PROVE  LET m == ModeOfSize(p, size)
         IN  /\ m = InitMode \/ (QueryMode(p, m) /\ SizeOf(p, m) = size)
             /\ size = Base => QueryMode(p, m) /\ SizeOf(p, m) = size
<1> DEFINE modes == {m \in 0..(p.maxMode - 1) : QueryMode(p, m) /\ SizeOf(p, m) = size}
           m == ModeOfSize(p, size)
<1>1. Mapped(p, p.slots, p.count, LaterModes(p)) /\ p.maxMode \in Int
  BY NumbersOfModes DEF Good, Private
<1>2. m = IF modes = {} THEN InitMode ELSE Max(modes)
  BY DEF ModeOfSize
<1>3. ASSUME NEW l \in modes PROVE Max(modes) = l
  <2>1. \A k \in modes : k = l
    BY <1>1, ReportedModes DEF QueryMode
  <2>2. l \in Int
    BY <1>1
  <2> HIDE DEF modes
  <2>3. modes = {l}
    BY <1>3, <2>1
  <2>4. l >= l
    BY <2>2
  <2> QED BY <2>3, <2>4 DEF Max
<1>4. modes # {} => QueryMode(p, m) /\ SizeOf(p, m) = size
  <2>1. ASSUME NEW l \in modes PROVE QueryMode(p, m) /\ SizeOf(p, m) = size
    <3>1. m = l
      BY <1>2, <1>3
    <3> QED BY <3>1
  <2> QED BY <2>1
<1>5. size = Base => modes # {}
  <2>1. SizeOf(p, 0) = Base /\ 0 \in 0..(p.maxMode - 1) /\ p.slots[0] \in Outputs
    BY <1>1, FirstSizes
  <2>2. Base # NoSize
    BY <2>1, ModesOfConsole
  <2> QED BY <2>1, <2>2 DEF QueryMode
<1> QED BY <1>2, <1>4, <1>5

LEMMA PreferenceIsRight ==
  ASSUME NEW w, RightWorld(w)
  PROVE  LET v == [w EXCEPT !.preferred = Base]
         IN  RightWorld(v) /\ v.splitter = w.splitter /\ v.console = w.console
<1> DEFINE v == [w EXCEPT !.preferred = Base]
<1>1. /\ w = [splitter |-> w.splitter, console |-> w.console, preferred |-> w.preferred]
      /\ w.splitter \in [Splitters -> Private] /\ w.console \in [Outputs -> Int]
      /\ Accepting(w) /\ \A t \in Splitters : Good(w.splitter[t])
  BY DEF RightWorld, Worlds
<1> HIDE DEF v
<1>2. v = [splitter |-> w.splitter, console |-> w.console, preferred |-> Base]
  BY <1>1 DEF v
<1>3. v.splitter = w.splitter /\ v.console = w.console
  BY <1>2
<1>4. v \in Worlds
  <2>1. \A X, C : X \in [Splitters -> Private] /\ C \in [Outputs -> Int]
          => [splitter |-> X, console |-> C, preferred |-> Base] \in Worlds
    BY DEF Worlds
  <2> QED BY <1>1, <1>2, <2>1
<1>5. RightWorld(v)
  BY <1>1, <1>3, <1>4 DEF RightWorld, Accepting
<1> QED BY <1>3, <1>5 DEF v

LEMMA WithModeIsRight ==
  ASSUME NEW w, RightWorld(w), NEW s \in Splitters, NEW failing, NEW m
  PROVE  LET r == WithMode(w, s, m, failing)
         IN  /\ RightWorld(r.w) /\ \A t \in Splitters : SameModes(w.splitter[t], r.w.splitter[t])
             /\ \A t \in Splitters \ {s} : r.w.splitter[t] = w.splitter[t]
             /\ r.ok => r.w.splitter[s].mode \in 0..(r.w.splitter[s].maxMode - 1)
<1> DEFINE p == w.splitter[s]
           r == WithMode(w, s, m, failing)
<1>1. /\ Adjusted(w, r.w, s, m)
      /\ m \in 0..(p.maxMode - 1) => r.w.splitter[s].mode = m
      /\ m \notin 0..(p.maxMode - 1) => r = [ok |-> FALSE, w |-> w]
  BY WithModeAdjusts
<1> HIDE DEF r, p
<1>2. RightWorld(r.w) /\ \A t \in Splitters : SameModes(w.splitter[t], r.w.splitter[t])
  BY <1>1, AdjustedIsRight
<1>3. r.w.splitter[s].maxMode = p.maxMode
  BY <1>2 DEF SameModes, p
<1>4. \A t \in Splitters \ {s} : r.w.splitter[t] = w.splitter[t]
  BY <1>1 DEF Adjusted
<1>5. m \notin 0..(p.maxMode - 1) => ~r.ok
  BY <1>1
<1>6. r.ok => r.w.splitter[s].mode \in 0..(r.w.splitter[s].maxMode - 1)
  BY <1>1, <1>3, <1>5
<1> QED BY <1>2, <1>4, <1>6 DEF r

\* A mode is set in the end, or the call does not succeed.
LEMMA ConsoleOutModeIsRight ==
  ASSUME NEW w, RightWorld(w), NEW s \in Splitters, NEW failing
  PROVE  LET r == ConsoleOutMode(w, s, failing)
         IN  /\ RightWorld(r.w) /\ \A t \in Splitters : SameModes(w.splitter[t], r.w.splitter[t])
             /\ \A t \in Splitters \ {s} : r.w.splitter[t] = w.splitter[t]
             /\ r.ok => r.w.splitter[s].mode \in 0..(r.w.splitter[s].maxMode - 1)
<1> DEFINE p == w.splitter[s]
           wanted == WithMode(w, s, ModeOfSize(p, w.preferred), failing["prefer"])
           base == WithMode(wanted.w, s, ModeOfSize(p, Base), failing["base"])
           v == [base.w EXCEPT !.preferred = Base]
           r == ConsoleOutMode(w, s, failing)
<1>1. r = IF wanted.ok THEN wanted ELSE [ok |-> base.ok, w |-> v]
  BY DEF ConsoleOutMode
<1>2. /\ RightWorld(wanted.w) /\ (\A t \in Splitters : SameModes(w.splitter[t],
         wanted.w.splitter[t]))
      /\ (\A t \in Splitters \ {s} : wanted.w.splitter[t] = w.splitter[t])
      /\ (wanted.ok => wanted.w.splitter[s].mode \in 0..(wanted.w.splitter[s].maxMode - 1))
  BY WithModeIsRight
<1> HIDE DEF wanted, r
<1>3. /\ RightWorld(base.w) /\ (\A t \in Splitters : SameModes(wanted.w.splitter[t],
         base.w.splitter[t]))
      /\ (\A t \in Splitters \ {s} : base.w.splitter[t] = wanted.w.splitter[t])
      /\ (base.ok => base.w.splitter[s].mode \in 0..(base.w.splitter[s].maxMode - 1))
  BY <1>2, WithModeIsRight
<1> HIDE DEF base
<1>4. RightWorld(v) /\ v.splitter = base.w.splitter
  BY <1>3, PreferenceIsRight
<1> HIDE DEF v
<1>5. CASE wanted.ok
  BY <1>1, <1>2, <1>5 DEF r
<1>6. CASE ~wanted.ok
  <2>1. r.ok = base.ok /\ r.w = v
    BY <1>1, <1>6
  <2>2. \A t \in Splitters : SameModes(w.splitter[t], v.splitter[t])
    BY <1>2, <1>3, <1>4 DEF SameModes
  <2>3. \A t \in Splitters \ {s} : v.splitter[t] = w.splitter[t]
    BY <1>2, <1>3, <1>4
  <2>4. r.ok => v.splitter[s].mode \in 0..(v.splitter[s].maxMode - 1)
    BY <1>3, <1>4, <2>1
  <2> QED BY <1>4, <2>1, <2>2, <2>3, <2>4 DEF r
<1> QED BY <1>5, <1>6

\* With a current mode that is the number of no mode, every console is switched.
LEMMA ConsoleOutModeSwitches ==
  ASSUME NEW w, RightWorld(w), NEW s \in Splitters, w.splitter[s].count > 0,
         w.splitter[s].mode > Rows
  PROVE  LET r == ConsoleOutMode(w, s, NoFailures)
             q == r.w.splitter[s]
         IN  \A c \in Consoles(q) : Shows(r.w.console, c) = SizeOf(q, q.mode)
<1> DEFINE p == w.splitter[s]
           m == ModeOfSize(p, w.preferred)
           b == ModeOfSize(p, Base)
           wanted == WithMode(w, s, m, {})
           base == WithMode(wanted.w, s, b, {})
           v == [base.w EXCEPT !.preferred = Base]
           r == ConsoleOutMode(w, s, NoFailures)
           q == r.w.splitter[s]
<1>1. r = IF wanted.ok THEN wanted ELSE [ok |-> base.ok, w |-> v]
  BY DEF ConsoleOutMode, NoFailures, Calls
<1>2. Good(p) /\ p \in Private
  BY DEF RightWorld, Worlds
<1>3. /\ m = InitMode \/ QueryMode(p, m)
      /\ QueryMode(p, b)
  BY <1>2, ModeOfSizeIs
<1>4. p.maxMode \in 1..Rows /\ p.mode \in Int /\ p.mode > Rows
  BY <1>2 DEF Private
<1> HIDE DEF m, b, p, r
<1>5. \A k : QueryMode(p, k) => k \in 0..(p.maxMode - 1) /\ k # p.mode
  BY <1>4, NumbersOfModes DEF QueryMode
<1>6. CASE QueryMode(p, m)
  <2>1. /\ wanted.ok /\ wanted.w.splitter[s].mode = m
        /\ \A d \in Consoles(p) : Shows(wanted.w.console, d) = SizeOf(p, m)
    BY <1>5, <1>6, AllSwitched DEF p
  <2>2. SameModes(p, wanted.w.splitter[s])
    BY WithModeIsRight DEF p
  <2> HIDE DEF wanted
  <2>3. r = wanted
    BY <1>1, <2>1
  <2>4. Consoles(q) = Consoles(p) /\ SizeOf(q, m) = SizeOf(p, m) /\ q.mode = m
    BY <1>2, <2>1, <2>2, <2>3, SameIsGood
  <2> QED BY <2>1, <2>3, <2>4 DEF r
<1>7. CASE ~QueryMode(p, m)
  <2>1. m \notin 0..(p.maxMode - 1)
    BY <1>3, <1>4, <1>7, NumbersOfModes DEF InitMode
  <2>2. wanted = [ok |-> FALSE, w |-> w]
    BY <2>1, WithModeAdjusts DEF p
  <2> HIDE DEF wanted
  <2>3. ~wanted.ok /\ wanted.w = w
    BY <2>2
  <2>9. base = WithMode(w, s, b, {})
    BY <2>3
  <2>4. /\ base.w.splitter[s].mode = b
        /\ \A d \in Consoles(p) : Shows(base.w.console, d) = SizeOf(p, b)
    <3> HIDE DEF base
    <3> QED BY <1>3, <1>5, <2>9, AllSwitched DEF p
  <2>5. SameModes(p, base.w.splitter[s]) /\ RightWorld(base.w)
    <3> HIDE DEF base
    <3> QED BY <2>9, WithModeIsRight DEF p
  <2> HIDE DEF base
  <2>6. v.splitter = base.w.splitter /\ v.console = base.w.console
    BY <2>5, PreferenceIsRight
  <2> HIDE DEF v
  <2>7. r.w = v
    BY <1>1, <2>3
  <2>8. Consoles(q) = Consoles(p) /\ SizeOf(q, b) = SizeOf(p, b) /\ q.mode = b
    BY <1>2, <2>4, <2>5, <2>6, <2>7, SameIsGood
  <2> QED BY <2>4, <2>6, <2>7, <2>8 DEF r
<1> QED BY <1>6, <1>7

-----------------------------------------------------------------------------
(* A splitter with a console more.                                          *)

LEMMA AppendedIs ==
  ASSUME NEW a \in Private, a.count < Slots, NEW d \in Outputs
  PROVE  LET q == Appended(a, d)
         IN  /\ q \in Private /\ q.slots = [a.slots EXCEPT ![a.count] = d] /\ q.count = a.count + 1
             /\ q.slots[a.count] = d /\ (\A i \in 0..(a.count - 1) : q.slots[i] = a.slots[i])
             /\ q.query = a.query /\ q.map = a.map /\ q.maxMode = a.maxMode /\ q.mode = a.mode
<1> DEFINE q == Appended(a, d)
           slots == [a.slots EXCEPT ![a.count] = d]
<1>1. a = [slots |-> a.slots, count |-> a.count, query |-> a.query, map |-> a.map,
           maxMode |-> a.maxMode, mode |-> a.mode, cursor |-> a.cursor]
      /\ a.slots \in [0..(Slots - 1) -> Outputs \cup {NoDevice}] /\ a.count \in 0..Slots
      /\ a.query \in [0..(Rows - 1) -> Sizes] /\ a.map \in Maps \cup {NoMap}
      /\ a.maxMode \in 1..Rows /\ a.mode \in Int /\ a.cursor \in Int \X Int
  BY DEF Private
<1>2. a.count \in 0..(Slots - 1) /\ a.count + 1 \in 0..Slots
      /\ \A i \in 0..(a.count - 1) : i \in 0..(Slots - 1) /\ i # a.count
  BY SMTT(30), <1>1, NumbersOfModes
<1>3. /\ slots \in [0..(Slots - 1) -> Outputs \cup {NoDevice}] /\ slots[a.count] = d
      /\ \A i \in 0..(a.count - 1) : slots[i] = a.slots[i]
  BY <1>1, <1>2
<1>4. q = [slots |-> slots, count |-> a.count + 1, query |-> a.query, map |-> a.map,
           maxMode |-> a.maxMode, mode |-> a.mode, cursor |-> a.cursor]
  <2>1. q = [a EXCEPT !.slots = slots, !.count = a.count + 1]
    BY DEF Appended
  <2> HIDE DEF q, slots
  <2> QED BY <1>1, <2>1
<1> HIDE DEF q, slots
<1>5. q \in Private
  BY <1>1, <1>2, <1>3, <1>4 DEF Private
<1>6. /\ q.slots = slots /\ q.count = a.count + 1
      /\ q.query = a.query /\ q.map = a.map /\ q.maxMode = a.maxMode /\ q.mode = a.mode
  BY <1>4
<1> QED BY <1>3, <1>5, <1>6 DEF q, slots

LEMMA WithoutMode ==
  ASSUME NEW p \in Private
  PROVE  LET u == [p EXCEPT !.mode = InitMode]
         IN  /\ u \in Private /\ u.slots = p.slots /\ u.count = p.count /\ u.query = p.query
             /\ u.map = p.map /\ u.maxMode = p.maxMode /\ u.mode = InitMode
<1> DEFINE u == [p EXCEPT !.mode = InitMode]
<1>1. p = [slots |-> p.slots, count |-> p.count, query |-> p.query, map |-> p.map,
           maxMode |-> p.maxMode, mode |-> p.mode, cursor |-> p.cursor]
      /\ p.slots \in [0..(Slots - 1) -> Outputs \cup {NoDevice}] /\ p.count \in 0..Slots
      /\ p.query \in [0..(Rows - 1) -> Sizes] /\ p.map \in Maps \cup {NoMap}
      /\ p.maxMode \in 1..Rows /\ p.cursor \in Int \X Int
  BY DEF Private
<1> HIDE DEF u
<1>2. u = [slots |-> p.slots, count |-> p.count, query |-> p.query, map |-> p.map,
           maxMode |-> p.maxMode, mode |-> InitMode, cursor |-> p.cursor]
  BY <1>1 DEF u
<1>3. u \in Private
  BY <1>1, <1>2 DEF Private, InitMode
<1> QED BY <1>2, <1>3 DEF u

LEMMA AddedIsGood ==
  ASSUME NEW p, Good(p), p.count < Slots, NEW d \in Outputs, d \notin Consoles(p)
  PROVE  LET q == Added(p, d)
         IN  Good(q) /\ q.count = p.count + 1 /\ q.mode \in Int /\ q.mode >= InitMode - Rows
<1> DEFINE u == [p EXCEPT !.mode = InitMode]
           a == TextOutAddModes(u, d)
           n == p.count
           sl == [p.slots EXCEPT ![n] = d]
           q == Added(p, d)
<1>1. p \in Private /\ n \in 0..(Slots - 1) /\ n \in Nat
      /\ p.slots \in [0..(Slots - 1) -> Outputs \cup {NoDevice}]
  BY NumbersOfModes DEF Good, Private
<1>2. /\ u \in Private /\ u.slots = p.slots /\ u.count = n /\ u.query = p.query
      /\ u.map = p.map /\ u.maxMode = p.maxMode /\ u.mode = InitMode
  BY <1>1, WithoutMode
<1>3. sl[n] = d /\ \A i \in 0..(n - 1) : sl[i] = p.slots[i]
  <2> HIDE DEF n
  <2>1. \A i \in 0..(n - 1) : i \in 0..(Slots - 1) /\ i # n
    BY <1>1, NumbersOfModes
  <2> QED BY <1>1, <2>1
<1> HIDE DEF u, sl
<1>4. /\ a \in Private /\ Mapped(a, sl, n + 1, LaterModes(a))
      /\ a.slots = p.slots /\ a.count = n /\ a.mode \in Int /\ a.mode >= InitMode - Rows
  <2>1. CASE n = 0
    <3>1. a = AddOutputMode(u, d)
      BY <1>2, <2>1 DEF TextOutAddModes
    <3>2. sl[0] = d /\ Slots >= 1 /\ n + 1 = 1
      BY <1>1, <1>3, <2>1, NumbersOfModes
    <3> HIDE DEF a
    <3>3. Mapped(a, sl, 1, LaterModes(a)) /\ a \in Private /\ a.slots = u.slots /\ a.count = u.count
          /\ a.mode = u.mode
      BY <1>2, <3>1, <3>2, FirstMapped
    <3>4. InitMode \in Int /\ InitMode >= InitMode - Rows
      BY NumbersOfModes DEF InitMode
    <3> QED BY <1>2, <3>2, <3>3, <3>4
  <2>2. CASE n # 0
    <3>1. a = SyncOutputMode(u, d)
      BY <1>2, <2>2 DEF TextOutAddModes
    <3>2. Mapped(p, p.slots, n, LaterModes(p))
      BY <1>1, <2>2 DEF Good
    <3>3. Mapped(u, p.slots, n, LaterModes(u))
      BY <1>2, <3>2 DEF Mapped, LaterModes
    <3> HIDE DEF a
    <3>4. a \in Private /\ Mapped(a, sl, n + 1, LaterModes(a)) /\ a.slots = u.slots
          /\ a.count = u.count
          /\ ModeFollows(u, a)
      BY <1>2, <1>3, <3>1, <3>3, SyncMapped
    <3>5. a.mode \in Int /\ a.mode >= InitMode - Rows
      <4>1. InitMode > 3 * Rows
        BY NumbersOfModes DEF InitMode
      <4> QED BY <1>2, <3>4, <4>1 DEF ModeFollows
    <3> QED BY <1>2, <3>4, <3>5
  <2> QED BY <2>1, <2>2
<1> HIDE DEF a
<1>5. q = Appended(a, d)
  BY DEF Added, a, u
<1>6. /\ q \in Private /\ q.slots = sl /\ q.count = n + 1
      /\ q.query = a.query /\ q.map = a.map /\ q.maxMode = a.maxMode /\ q.mode = a.mode
  BY <1>4, <1>5, AppendedIs DEF sl
<1> HIDE DEF q
<1>7. Mapped(q, q.slots, q.count, LaterModes(q))
  BY <1>4, <1>6 DEF Mapped, LaterModes
<1>8. ASSUME NEW i \in Columns(q) PROVE i \in 0..(n - 1) \/ i = n
  BY <1>1, <1>6 DEF Columns
<1>9. ASSUME NEW i \in Columns(q), NEW j \in Columns(q), q.slots[i] = q.slots[j] PROVE i = j
  <2>1. \A k \in 0..(n - 1) : q.slots[k] = p.slots[k] /\ q.slots[k] # d
    BY <1>3, <1>6 DEF Consoles, Columns
  <2>2. q.slots[n] = d
    BY <1>3, <1>6
  <2>3. \A k, l \in 0..(n - 1) : p.slots[k] = p.slots[l] => k = l
    BY DEF Good, Columns
  <2> QED BY <1>8, <1>9, <2>1, <2>2, <2>3
<1>10. \A i \in Columns(q) : q.slots[i] \in Outputs
  BY <1>7 DEF Mapped, Columns
<1>11. q.count # 0
  BY <1>1, <1>6
<1>12. Good(q)
  BY <1>6, <1>7, <1>9, <1>10, <1>11 DEF Good
<1> QED BY <1>4, <1>6, <1>12 DEF q

-----------------------------------------------------------------------------
(* The invariant, and the start of a console.                               *)

ModeIn(p) == p.mode \in 0..(p.maxMode - 1)
CursorIn(p) ==
  p.count = 0 => /\ p.cursor[1] \in 0..(Base[1] - 1)
                 /\ p.cursor[2] \in 0..(Base[2] - 1)
SoundWorld(w) ==
  /\ RightWorld(w) /\ SharedMatch(w)
  /\ \A s \in Splitters : ModeIn(w.splitter[s]) /\ CursorIn(w.splitter[s])
OutInv == SoundWorld(World)

LEMMA SharedSame ==
  ASSUME NEW w, RightWorld(w), SharedMatch(w), NEW v,
         \A t \in Splitters : SameModes(w.splitter[t], v.splitter[t])
  PROVE  SharedMatch(v)
<1> DEFINE out == w.splitter["ConOut"]
           err == w.splitter["StdErr"]
<1>1. /\ Good(out) /\ SameModes(out, v.splitter["ConOut"])
      /\ Good(err) /\ SameModes(err, v.splitter["StdErr"])
  BY DEF RightWorld, Splitters
<1> HIDE DEF out, err
<1>2. /\ LaterSizesOf(v.splitter["ConOut"]) = LaterSizesOf(out)
      /\ LaterSizesOf(v.splitter["StdErr"]) = LaterSizesOf(err)
      /\ Consoles(v.splitter["StdErr"]) = Consoles(err)
  BY <1>1, SameIsGood
<1>3. v.splitter["ConOut"].count = out.count /\ v.splitter["ConOut"].slots = out.slots
  BY <1>1 DEF SameModes
<1>4. out.count > 0 /\ out.slots[0] \in Consoles(err) => LaterSizesOf(out) = LaterSizesOf(err)
  BY DEF SharedMatch, out, err
<1> QED BY <1>2, <1>3, <1>4 DEF SharedMatch

\* A splitter that the intersection meets on its way keeps its mode and cursor in
\* range.
LEMMA FollowedStays ==
  ASSUME NEW p, NEW q, Followed(p, q)
  PROVE  /\ ModeIn(p) => ModeIn(q)
         /\ CursorIn(p) => CursorIn(q)
BY DEF Followed, ModeIn, CursorIn

\* What the start of console d leaves.
Started(w, s, d, failing) ==
  LET added == [w EXCEPT !.splitter[s] = Added(@, d)]
      synced == GetIntersectionBetweenConOutAndStrErr(added, failing["replace"])
  IN  ConsoleOutMode(synced, s, failing)

LEMMA StartIsSound ==
  ASSUME NEW w, SoundWorld(w), NEW s \in Splitters, NEW d \in Outputs, NEW failing,
         d \notin Consoles(w.splitter[s]), w.splitter[s].count < Slots,
         Started(w, s, d, failing).ok
  PROVE  LET set == Started(w, s, d, failing)
             q == set.w.splitter[s]
         IN  /\ SoundWorld(set.w)
             /\ failing = NoFailures =>
                  \A c \in Consoles(q) : Shows(set.w.console, c) = SizeOf(q, q.mode)
<1> DEFINE p == w.splitter[s]
           a == Added(p, d)
           added == [w EXCEPT !.splitter[s] = a]
           synced == GetIntersectionBetweenConOutAndStrErr(added, failing["replace"])
           set == ConsoleOutMode(synced, s, failing)
           q == set.w.splitter[s]
<1>1. RightWorld(w) /\ Good(p) /\ \A t \in Splitters : ModeIn(w.splitter[t])
      /\ CursorIn(w.splitter[t])
  BY DEF SoundWorld, RightWorld
<1>2. Good(a) /\ a.count = p.count + 1 /\ a.mode \in Int /\ a.mode >= InitMode - Rows
  BY <1>1, AddedIsGood
<1>3. p.count \in Nat
  BY SMTT(30), <1>1, NumbersOfModes DEF Good, Private
<1>4. Started(w, s, d, failing) = set
  BY DEF Started
<1>5. set.ok
  BY <1>4
<1> HIDE DEF a
<1>6. /\ RightWorld(added) /\ added.splitter[s] = a
      /\ \A t \in Splitters \ {s} : added.splitter[t] = w.splitter[t]
  BY <1>1, <1>2, PutIsRight
<1> HIDE DEF added
<1>7. /\ RightWorld(synced) /\ SharedMatch(synced)
      /\ \A t \in Splitters : Followed(added.splitter[t], synced.splitter[t])
  BY <1>6, GetIsRight
<1> HIDE DEF synced
<1>8. synced.splitter[s].count > 0 /\ synced.splitter[s].mode > Rows
  <2>1. Followed(a, synced.splitter[s])
    BY <1>6, <1>7
  <2>2. a.mode > 3 * Rows
    BY <1>2, NumbersOfModes DEF InitMode
  <2>3. synced.splitter[s].count = a.count /\ synced.splitter[s].mode >= a.mode - Rows
    BY <2>1, <2>2 DEF Followed
  <2>4. synced.splitter[s].mode \in Int
    BY <1>7 DEF RightWorld, Worlds, Private
  <2>5. synced.splitter[s].count > 0
    BY <1>2, <1>3, <2>3
  <2>6. synced.splitter[s].mode > Rows
    BY <1>2, <2>3, <2>4, NumbersOfModes DEF InitMode
  <2> QED BY <2>5, <2>6
<1>9. ASSUME NEW t \in Splitters \ {s} PROVE ModeIn(synced.splitter[t])
      /\ CursorIn(synced.splitter[t])
  <2>1. Followed(w.splitter[t], synced.splitter[t])
    BY <1>6, <1>7
  <2> QED BY <1>1, <2>1, FollowedStays
<1>10. /\ RightWorld(set.w) /\ (\A t \in Splitters : SameModes(synced.splitter[t],
          set.w.splitter[t]))
       /\ (\A t \in Splitters \ {s} : set.w.splitter[t] = synced.splitter[t])
       /\ ModeIn(q)
  BY <1>5, <1>7, ConsoleOutModeIsRight DEF ModeIn
<1>11. failing = NoFailures => \A c \in Consoles(q) : Shows(set.w.console, c) = SizeOf(q, q.mode)
  BY <1>7, <1>8, ConsoleOutModeSwitches
<1> HIDE DEF set
<1>12. SharedMatch(set.w)
  BY <1>7, <1>10, SharedSame
<1>13. CursorIn(q)
  <2>1. q.count = synced.splitter[s].count
    BY <1>10 DEF SameModes
  <2>2. q.count # 0
    BY <1>8, <2>1
  <2> QED BY <2>2 DEF CursorIn
<1>14. \A t \in Splitters : ModeIn(set.w.splitter[t]) /\ CursorIn(set.w.splitter[t])
  <2>1. \A t \in Splitters : t = s \/ t \in Splitters \ {s}
    OBVIOUS
  <2> QED BY <1>9, <1>10, <1>13, <2>1
<1>15. SoundWorld(set.w)
  BY <1>10, <1>12, <1>14 DEF SoundWorld
<1> QED BY <1>4, <1>11, <1>15 DEF set, synced, added, a

-----------------------------------------------------------------------------
(* A splitter with a console less.                                          *)

LEMMA RebuiltOfOne ==
  ASSUME NEW p, p.count = 1
  PROVE  Rebuilt(p) =
           [AddOutputMode([p EXCEPT !.query = [m \in DOMAIN @ |-> NoSize]], p.slots[0])
              EXCEPT !.count = 1]
<1> DEFINE others == [i \in 1..(p.count - 1) |-> p.slots[i]]
           base == [AddOutputMode([p EXCEPT !.query = [m \in DOMAIN @ |-> NoSize]], p.slots[0])
                      EXCEPT !.count = 1]
           entered(q, d) == [SyncOutputMode(q, d) EXCEPT !.count = @ + 1]
<1>1. 1..(p.count - 1) = {}
  OBVIOUS
<1>2. DOMAIN others = {}
  BY <1>1
<1>3. FoldLeft(entered, base, others) = base
  <2> DEFINE body(f, s) == IF s = {} THEN base
                           ELSE entered(f[s \ {Max(s)}], others[Max(s)])
             g == [s \in SUBSET {} |-> base]
             iter == CHOOSE f : f = [s \in SUBSET {} |-> body(f, s)]
  <2>1. \A s \in SUBSET {} : s = {}
    OBVIOUS
  <2>2. FoldLeft(entered, base, others) = iter[{}]
    BY <1>2 DEF FoldLeft, MapThenFoldSet
  <2> HIDE DEF base, others
  <2>3. g = [s \in SUBSET {} |-> body(g, s)]
    BY <2>1
  <2>4. iter = [s \in SUBSET {} |-> body(iter, s)]
    <3> HIDE DEF body, g
    <3> QED BY <2>3
  <2> HIDE DEF iter
  <2>5. iter[{}] = body(iter, {})
    <3> HIDE DEF body
    <3>1. {} \in SUBSET {}
      OBVIOUS
    <3> QED BY <2>4, <3>1
  <2> QED BY <2>2, <2>5
<1> QED BY <1>3 DEF Rebuilt

LEMMA CountBounded ==
  ASSUME NEW p, Good(p), IsFiniteSet(Outputs)
  PROVE  p.count \in 0..Cardinality(Outputs)
<1> DEFINE f == [i \in Columns(p) |-> p.slots[i]]
           n == p.count
<1>1. n \in Nat /\ Columns(p) = 0..(n - 1)
  BY NumbersOfModes DEF Good, Private, Columns
<1>2. f \in Injection(Columns(p), Outputs)
  BY DEF Good, Injection, IsInjective
<1>3. IsFiniteSet(Columns(p)) /\ Cardinality(Columns(p)) = n
  <2> HIDE DEF n
  <2>0. n - 1 \in Int /\ 0 \in Int
    BY <1>1
  <2>1. IsFiniteSet(0..(n - 1)) /\ Cardinality(0..(n - 1)) = IF 0 > n - 1 THEN 0
        ELSE (n - 1) - 0 + 1
    BY <2>0, FS_Interval
  <2> QED BY <1>1, <2>1
<1> HIDE DEF f, n
<1>4. Cardinality(Columns(p)) <= Cardinality(Outputs)
  BY <1>2, FS_Injection
<1>5. Cardinality(Outputs) \in Nat
  BY FS_CardinalityType
<1>6. n \in 0..Cardinality(Outputs)
  BY <1>1, <1>3, <1>4, <1>5
<1> QED BY <1>6 DEF n

LEMMA RemovedIs ==
  ASSUME NEW p, Good(p), NEW d \in Consoles(p)
  PROVE  LET q == Removed(p, d)
         IN  /\ q \in Private /\ q.count = p.count - 1 /\ q.count \in Nat
             /\ q.query = p.query /\ q.map = p.map /\ q.maxMode = p.maxMode /\ q.mode = p.mode
             /\ q.count > 0 => \E j \in Columns(p) : q.slots[0] = p.slots[j]
<1> DEFINE k == ColumnOf(p, d)
           slots == [i \in DOMAIN p.slots |-> IF i \in k..(p.count - 2) THEN p.slots[i + 1]
                    ELSE p.slots[i]]
           q == Removed(p, d)
<1>1. p = [slots |-> p.slots, count |-> p.count, query |-> p.query, map |-> p.map,
           maxMode |-> p.maxMode, mode |-> p.mode, cursor |-> p.cursor]
      /\ p.slots \in [0..(Slots - 1) -> Outputs \cup {NoDevice}] /\ p.count \in 0..Slots
      /\ p.query \in [0..(Rows - 1) -> Sizes] /\ p.map \in Maps \cup {NoMap}
      /\ p.maxMode \in 1..Rows /\ p.mode \in Int /\ p.cursor \in Int \X Int
  BY DEF Good, Private
<1>2. k \in 0..(p.count - 1)
  BY ColumnIs DEF Columns
<1>3. q = [p EXCEPT !.slots = slots, !.count = p.count - 1]
  BY DEF Removed
<1> HIDE DEF k
<1>4. p.count \in Int /\ p.count >= 1 /\ k \in Int /\ p.count <= Slots /\ Slots \in Int
  BY <1>1, <1>2, NumbersOfModes
<1>5. slots \in [0..(Slots - 1) -> Outputs \cup {NoDevice}]
  <2>1. ASSUME NEW i \in 0..(Slots - 1)
        PROVE  (IF i \in k..(p.count - 2) THEN p.slots[i + 1] ELSE p.slots[i]) \in Outputs
               \cup {NoDevice}
    <3>1. i \in k..(p.count - 2) => i + 1 \in 0..(Slots - 1)
      BY <1>4
    <3> QED BY <1>1, <3>1
  <2> QED BY <1>1, <2>1
<1>6. p.count - 1 > 0 => \E j \in 0..(p.count - 1) : slots[0] = p.slots[j]
  <2>1. ASSUME p.count - 1 > 0 PROVE \E j \in 0..(p.count - 1) : slots[0] = p.slots[j]
    <3>1. 0 \in DOMAIN p.slots /\ 0 \in 0..(p.count - 1) /\ 0 + 1 \in 0..(p.count - 1)
      BY <1>1, <1>4, <2>1
    <3>2. slots[0] = p.slots[0] \/ slots[0] = p.slots[0 + 1]
      BY <3>1
    <3> QED BY <3>1, <3>2
  <2> QED BY <2>1
<1> HIDE DEF slots, q
<1>7. q = [slots |-> slots, count |-> p.count - 1, query |-> p.query, map |-> p.map,
           maxMode |-> p.maxMode, mode |-> p.mode, cursor |-> p.cursor]
  BY <1>1, <1>3
<1>8. p.count - 1 \in 0..Slots /\ p.count - 1 \in Nat
  BY <1>4
<1>9. q \in Private
  BY <1>1, <1>5, <1>7, <1>8 DEF Private
<1> QED BY <1>6, <1>7, <1>8, <1>9 DEF q, Columns

\* The one console that is left: the old current mode is one of its modes.
LEMMA RebuiltIsGood ==
  ASSUME NEW old, Good(old), ModeIn(old), NEW d \in Consoles(old), Removed(old, d).count = 1
  PROVE  LET q == Rebuilt(Removed(old, d))
         IN  Good(q) /\ ModeIn(q) /\ q.count = 1
<1> DEFINE p == Removed(old, d)
           query == [m \in DOMAIN p.query |-> NoSize]
           u == [p EXCEPT !.query = query]
           a == AddOutputMode(u, p.slots[0])
           q == Rebuilt(p)
<1>1. /\ p \in Private /\ p.count = 1 /\ p.mode = old.mode /\ old.count - 1 = 1
      /\ \E j \in Columns(old) : p.slots[0] = old.slots[j]
  <2> HIDE DEF p
  <2>1. /\ p \in Private /\ p.count = old.count - 1 /\ p.mode = old.mode /\ p.count = 1
        /\ p.count > 0 => \E j \in Columns(old) : p.slots[0] = old.slots[j]
    BY RemovedIs DEF p
  <2>2. p.count > 0
    BY <2>1
  <2> QED BY <2>1, <2>2
<1> HIDE DEF p
<1>2. PICK j \in Columns(old) : p.slots[0] = old.slots[j]
  BY <1>1
<1>3. q = [a EXCEPT !.count = 1]
  BY <1>1, RebuiltOfOne
<1>4. /\ p = [slots |-> p.slots, count |-> p.count, query |-> p.query, map |-> p.map,
              maxMode |-> p.maxMode, mode |-> p.mode, cursor |-> p.cursor]
      /\ p.slots \in [0..(Slots - 1) -> Outputs \cup {NoDevice}] /\ p.count \in 0..Slots
      /\ p.query \in [0..(Rows - 1) -> Sizes] /\ p.map \in Maps \cup {NoMap}
      /\ p.maxMode \in 1..Rows /\ p.mode \in Int /\ p.cursor \in Int \X Int
  BY <1>1 DEF Private
<1>5. query \in [0..(Rows - 1) -> Sizes]
  <2>1. NoSize \in Sizes
    BY DEF Sizes
  <2> QED BY <1>4, <2>1
<1> HIDE DEF query, u
<1>6. u = [slots |-> p.slots, count |-> p.count, query |-> query, map |-> p.map,
           maxMode |-> p.maxMode, mode |-> p.mode, cursor |-> p.cursor]
  BY <1>4 DEF u
<1>7. u \in Private /\ u.slots = p.slots /\ u.count = 1 /\ u.mode = old.mode
  BY <1>1, <1>4, <1>5, <1>6 DEF Private
<1>8. p.slots[0] \in Outputs /\ Slots >= 1
  BY <1>1, <1>2, <1>4, NumbersOfModes DEF Good
<1> HIDE DEF a
<1>9. /\ Mapped(a, p.slots, 1, LaterModes(a)) /\ a \in Private /\ a.slots = p.slots /\ a.count = 1
      /\ a.mode = old.mode /\ a.maxMode = Cardinality(DOMAIN TextModes[p.slots[0]])
  BY <1>7, <1>8, FirstMapped DEF a
<1> HIDE DEF q
<1>10. q = a
  <2>1. a = [slots |-> a.slots, count |-> a.count, query |-> a.query, map |-> a.map,
             maxMode |-> a.maxMode, mode |-> a.mode, cursor |-> a.cursor]
    BY <1>9 DEF Private
  <2> QED BY <1>3, <1>9, <2>1
<1>11. Columns(a) = {0}
  BY <1>9 DEF Columns
<1>12. Good(a)
  BY <1>8, <1>9, <1>11 DEF Good
<1>13. ModeIn(a)
  <2>1. Mapped(old, old.slots, old.count, LaterModes(old))
    <3>1. old.count \in Int
      BY DEF Good, Private
    <3> QED BY <1>1, <3>1 DEF Good
  <2>2. old.maxMode <= Cardinality(DOMAIN TextModes[old.slots[j]])
    BY <1>2, <2>1, ModesBounded DEF Columns
  <2>3. old.maxMode \in Int /\ a.maxMode \in Int
    BY <1>9, NumbersOfModes DEF Good, Private
  <2>4. old.mode \in 0..(old.maxMode - 1) /\ old.maxMode <= a.maxMode
    BY <1>2, <1>9, <2>2 DEF ModeIn
  <2>5. old.mode \in 0..(a.maxMode - 1)
    BY <2>3, <2>4
  <2> QED BY <1>9, <2>5 DEF ModeIn
<1> QED BY <1>9, <1>10, <1>12, <1>13 DEF q, p

LEMMA EmptiedIsGood ==
  ASSUME NEW old, Good(old), NEW d \in Consoles(old), Removed(old, d).count = 0
  PROVE  LET q == Emptied(Removed(old, d))
         IN  Good(q) /\ ModeIn(q) /\ CursorIn(q) /\ q.count = 0
<1> DEFINE p == Removed(old, d)
           query == [p.query EXCEPT ![0] = Base]
           u == [p EXCEPT !.maxMode = 1, !.query[0] = Base]
           q == Emptied(p)
<1>1. /\ p \in Private /\ p.count = 0 /\ p.map = old.map /\ old.count - 1 = 0
  BY RemovedIs
<1> HIDE DEF p
<1>2. p.map[0][0] = 0
  <2>1. old.count \in Int
    BY DEF Good, Private
  <2> QED BY <1>1, <2>1 DEF Good, Mapped
<1>3. /\ p = [slots |-> p.slots, count |-> p.count, query |-> p.query, map |-> p.map,
              maxMode |-> p.maxMode, mode |-> p.mode, cursor |-> p.cursor]
      /\ p.slots \in [0..(Slots - 1) -> Outputs \cup {NoDevice}] /\ p.count \in 0..Slots
      /\ p.query \in [0..(Rows - 1) -> Sizes] /\ p.map \in Maps \cup {NoMap}
      /\ p.maxMode \in 1..Rows /\ p.mode \in Int /\ p.cursor \in Int \X Int
  BY <1>1 DEF Private
<1>4. query \in [0..(Rows - 1) -> Sizes] /\ query[0] = Base
  <2>1. Base \in Sizes /\ 0 \in 0..(Rows - 1)
    <3>1. Base \in Sizes
      BY DEF Sizes
    <3> QED BY <3>1, NumbersOfModes
  <2> QED BY <1>3, <2>1
<1>5. u = [p EXCEPT !.maxMode = 1, !.query = query]
  OBVIOUS
<1> HIDE DEF query, u
<1>6. u = [slots |-> p.slots, count |-> p.count, query |-> query, map |-> p.map,
           maxMode |-> 1, mode |-> p.mode, cursor |-> p.cursor]
  BY <1>3, <1>5
<1>7. u \in Private
  <2>1. 1 \in 1..Rows
    BY NumbersOfModes
  <2> QED BY <1>3, <1>4, <1>6, <2>1 DEF Private
<1>8. q = TextOutSetMode(u, 0)
  BY DEF Emptied, u
<1> HIDE DEF q
<1>9. SameModes(u, q) /\ q.mode = 0 /\ q.cursor = <<0, 0>>
  BY <1>7, <1>8, ModeIsSet
<1>10. q \in Private /\ q.count = 0 /\ q.maxMode = 1 /\ q.query = query /\ q.map = p.map
  BY <1>1, <1>6, <1>9 DEF SameModes
<1>11. SizeOf(q, 0) = Base
  BY <1>2, <1>4, <1>10 DEF SizeOf
<1>12. Columns(q) = {}
  BY <1>10 DEF Columns
<1>13. Good(q)
  BY <1>10, <1>11, <1>12 DEF Good
<1>14. ModeIn(q)
  BY <1>9, <1>10 DEF ModeIn
<1>15. CursorIn(q)
  <2>1. 0 \in 0..(Base[1] - 1) /\ 0 \in 0..(Base[2] - 1)
    BY NumbersOfModes
  <2> QED BY <1>9, <2>1 DEF CursorIn
<1> QED BY <1>10, <1>13, <1>14, <1>15 DEF q, p

TwoConsoles == \E c, d : Outputs = {c, d}

LEMMA CountTwo ==
  ASSUME TwoConsoles, NEW p, Good(p)
  PROVE  /\ IsFiniteSet(Outputs) /\ p.count \in 0..2
         /\ p.count \in 0..Cardinality(Outputs)
<1>1. PICK c, d : Outputs = {c, d}
  BY DEF TwoConsoles
<1>2. IsFiniteSet({}) /\ Cardinality({}) = 0
  BY FS_EmptySet
<1>3. /\ IsFiniteSet({} \cup {c})
      /\ Cardinality({} \cup {c}) = IF c \in {} THEN Cardinality({}) ELSE Cardinality({}) + 1
  BY <1>2, FS_AddElement
<1>4. IsFiniteSet({c}) /\ Cardinality({c}) = 1
  <2>1. {} \cup {c} = {c}
    OBVIOUS
  <2> QED BY <1>2, <1>3, <2>1
<1>5. /\ IsFiniteSet({c} \cup {d})
      /\ Cardinality({c} \cup {d}) = IF d \in {c} THEN Cardinality({c}) ELSE Cardinality({c}) + 1
  BY <1>4, FS_AddElement
<1>6. IsFiniteSet(Outputs) /\ Cardinality(Outputs) \in 1..2
  <2>1. {c} \cup {d} = Outputs
    BY <1>1
  <2> QED BY <1>4, <1>5, <2>1
<1>7. p.count \in 0..Cardinality(Outputs)
  BY <1>6, CountBounded
<1> QED BY <1>6, <1>7

LEMMA StopIsSound ==
  ASSUME TwoConsoles, NEW w, SoundWorld(w), NEW s \in Splitters,
         NEW d \in Consoles(w.splitter[s]), NEW failing
  PROVE  LET p == Removed(w.splitter[s], d)
         IN  /\ p.count = 0 => SoundWorld([w EXCEPT !.splitter[s] = Emptied(p)])
             /\ p.count # 0 => SoundWorld(GetIntersectionBetweenConOutAndStrErr(
                                 [w EXCEPT !.splitter[s] = Rebuilt(p)], failing))
<1> DEFINE old == w.splitter[s]
           p == Removed(old, d)
<1>1. RightWorld(w) /\ Good(old) /\ ModeIn(old) /\ \A t \in Splitters : ModeIn(w.splitter[t])
      /\ CursorIn(w.splitter[t])
  BY DEF SoundWorld, RightWorld
<1>2. \A t \in Splitters : t = s \/ t \in Splitters \ {s}
  OBVIOUS
<1>3. p.count = old.count - 1 /\ p.count \in Nat
  BY <1>1, RemovedIs
<1>4. CASE p.count = 0
  <2> DEFINE q == Emptied(p)
             v == [w EXCEPT !.splitter[s] = q]
  <2>1. Good(q) /\ ModeIn(q) /\ CursorIn(q) /\ q.count = 0
    BY <1>1, <1>4, EmptiedIsGood
  <2> HIDE DEF q
  <2>2. RightWorld(v) /\ v.splitter[s] = q
        /\ \A t \in Splitters \ {s} : v.splitter[t] = w.splitter[t]
    BY <1>1, <2>1, PutIsRight
  <2> HIDE DEF v
  <2>3. SharedMatch(v)
    <3>1. Consoles(q) = {}
      BY <2>1 DEF Consoles, Columns
    <3>2. s = "ConOut" \/ s = "StdErr"
      BY DEF Splitters
    <3> QED BY <2>1, <2>2, <3>1, <3>2 DEF SharedMatch
  <2>4. \A t \in Splitters : ModeIn(v.splitter[t]) /\ CursorIn(v.splitter[t])
    BY <1>1, <1>2, <2>1, <2>2
  <2>5. SoundWorld(v)
    BY <2>2, <2>3, <2>4 DEF SoundWorld
  <2> QED BY <1>4, <2>5 DEF v, q
<1>5. CASE p.count # 0
  <2> DEFINE q == Rebuilt(p)
             u == [w EXCEPT !.splitter[s] = q]
             v == GetIntersectionBetweenConOutAndStrErr(u, failing)
  <2>1. p.count = 1
    <3>1. old.count \in 0..2
      BY <1>1, CountTwo
    <3> HIDE DEF p, old
    <3> QED BY <1>3, <1>5, <3>1
  <2>2. Good(q) /\ ModeIn(q) /\ q.count = 1
    BY <1>1, <2>1, RebuiltIsGood
  <2> HIDE DEF q
  <2>3. RightWorld(u) /\ u.splitter[s] = q
        /\ \A t \in Splitters \ {s} : u.splitter[t] = w.splitter[t]
    BY <1>1, <2>2, PutIsRight
  <2>4. CursorIn(q)
    BY <2>2 DEF CursorIn
  <2> HIDE DEF u
  <2>5. \A t \in Splitters : ModeIn(u.splitter[t]) /\ CursorIn(u.splitter[t])
    BY <1>1, <1>2, <2>2, <2>3, <2>4
  <2>6. RightWorld(v) /\ SharedMatch(v) /\ \A t \in Splitters : Followed(u.splitter[t],
        v.splitter[t])
    BY <2>3, GetIsRight
  <2> HIDE DEF v
  <2>7. \A t \in Splitters : ModeIn(v.splitter[t]) /\ CursorIn(v.splitter[t])
    BY <2>5, <2>6, FollowedStays
  <2>8. SoundWorld(v)
    BY <2>6, <2>7 DEF SoundWorld
  <2> QED BY <1>5, <2>8 DEF v, u, q
<1> QED BY <1>4, <1>5

LEMMA AdjustedIsSound ==
  ASSUME NEW w, SoundWorld(w), NEW s \in Splitters, NEW m, NEW v, Adjusted(w, v, s, m)
  PROVE  SoundWorld(v)
<1> DEFINE p == w.splitter[s]
           q == v.splitter[s]
<1>1. RightWorld(w) /\ SharedMatch(w) /\ \A t \in Splitters : ModeIn(w.splitter[t])
      /\ CursorIn(w.splitter[t])
  BY DEF SoundWorld
<1>2. RightWorld(v) /\ \A t \in Splitters : SameModes(w.splitter[t], v.splitter[t])
  BY <1>1, AdjustedIsRight
<1>3. SharedMatch(v)
  BY <1>1, <1>2, SharedSame
<1>4. /\ \A t \in Splitters \ {s} : v.splitter[t] = w.splitter[t]
      /\ \/ q.mode = p.mode /\ q.cursor = p.cursor
         \/ m \in 0..(p.maxMode - 1) /\ q.mode = m /\ q.cursor = <<0, 0>>
  BY DEF Adjusted
<1>5. q.maxMode = p.maxMode /\ q.count = p.count
  BY <1>2 DEF SameModes
<1>6. ModeIn(p) /\ CursorIn(p)
  BY <1>1
<1> HIDE DEF p, q
<1>7. ModeIn(q)
  BY <1>4, <1>5, <1>6 DEF ModeIn
<1>8. CursorIn(q)
  <2>1. 0 \in 0..(Base[1] - 1) /\ 0 \in 0..(Base[2] - 1)
    BY NumbersOfModes
  <2> QED BY <1>4, <1>5, <1>6, <2>1 DEF CursorIn
<1>9. \A t \in Splitters : t = s \/ t \in Splitters \ {s}
  OBVIOUS
<1>10. \A t \in Splitters : ModeIn(v.splitter[t]) /\ CursorIn(v.splitter[t])
  BY <1>1, <1>4, <1>7, <1>8, <1>9 DEF q
<1> QED BY <1>2, <1>3, <1>10 DEF SoundWorld

-----------------------------------------------------------------------------
(* The steps.                                                               *)

LEMMA WorldIs ==
  /\ World.splitter = splitter /\ World.console = console /\ World.preferred = preferred
  /\ World'.splitter = splitter' /\ World'.console = console' /\ World'.preferred = preferred'
BY DEF World

LEMMA BecomesIs ==
  ASSUME NEW w, w \in Worlds, Becomes(w)
  PROVE  World' = w
<1>1. w = [splitter |-> w.splitter, console |-> w.console, preferred |-> w.preferred]
  BY DEF Worlds
<1> QED BY <1>1 DEF Becomes, World

LEMMA OutInvTyped ==
  ASSUME OutInv
  PROVE  /\ splitter \in [Splitters -> Private] /\ console \in [Outputs -> Int]
         /\ preferred \in {Preferred, Base}
         /\ \A d \in Outputs : Accepts(d, console[d])
         /\ \A s \in Splitters : Good(splitter[s]) /\ ModeIn(splitter[s]) /\ CursorIn(splitter[s])
BY WorldIs DEF OutInv, SoundWorld, RightWorld, Accepting, Worlds

LEMMA WorldTyped ==
  ASSUME splitter' \in [Splitters -> Private], console' \in [Outputs -> Int],
         preferred' \in {Preferred, Base}
  PROVE  World' \in Worlds
BY DEF World, Worlds

LEMMA StartStep ==
  ASSUME OutInv, NEW s \in Splitters, NEW d \in Outputs, NEW failing,
         DriverBindingStart(s, d, failing)
  PROVE  /\ OutInv'
         /\ failing = NoFailures =>
              \A c \in Consoles(splitter'[s]) :
                Shows(console', c) = SizeOf(splitter'[s], splitter'[s].mode)
<1> DEFINE set == Started(World, s, d, failing)
<1>1. /\ d \notin Consoles(splitter[s]) /\ splitter[s].count < Slots
      /\ set.ok /\ Becomes(set.w)
  BY DEF DriverBindingStart, Started
<1>2. World.splitter[s] = splitter[s]
  BY WorldIs
<1>3. SoundWorld(World)
  BY DEF OutInv
<1>4. /\ SoundWorld(set.w)
      /\ failing = NoFailures =>
           \A c \in Consoles(set.w.splitter[s]) :
             Shows(set.w.console, c) = SizeOf(set.w.splitter[s], set.w.splitter[s].mode)
  BY <1>1, <1>2, <1>3, StartIsSound
<1> HIDE DEF set
<1>5. World' = set.w
  BY <1>1, <1>4, BecomesIs DEF SoundWorld, RightWorld
<1>6. splitter' = set.w.splitter /\ console' = set.w.console
  BY <1>1 DEF Becomes
<1>7. OutInv'
  BY <1>4, <1>5 DEF OutInv
<1> QED BY <1>4, <1>6, <1>7

LEMMA StopStep ==
  ASSUME TwoConsoles, OutInv, NEW s \in Splitters, NEW d \in Outputs, NEW failing,
         DriverBindingStop(s, d, failing)
  PROVE  OutInv'
<1> DEFINE p == Removed(splitter[s], d)
<1>1. d \in Consoles(splitter[s]) /\ World.splitter[s] = splitter[s] /\ SoundWorld(World)
  BY WorldIs DEF DriverBindingStop, OutInv
<1>2. CASE p.count = 0
  <2> DEFINE v == [World EXCEPT !.splitter[s] = Emptied(p)]
  <2>1. SoundWorld(v)
    BY <1>1, <1>2, StopIsSound
  <2>2. Becomes(v)
    BY <1>2 DEF DriverBindingStop
  <2> HIDE DEF v
  <2>3. World' = v
    BY <2>1, <2>2, BecomesIs DEF SoundWorld, RightWorld
  <2> QED BY <2>1, <2>3 DEF OutInv
<1>3. CASE p.count # 0
  <2> DEFINE v == GetIntersectionBetweenConOutAndStrErr([World EXCEPT !.splitter[s] = Rebuilt(p)],
      failing)
  <2>1. SoundWorld(v)
    BY <1>1, <1>3, StopIsSound
  <2>2. Becomes(v)
    BY <1>3 DEF DriverBindingStop
  <2> HIDE DEF v
  <2>3. World' = v
    BY <2>1, <2>2, BecomesIs DEF SoundWorld, RightWorld
  <2> QED BY <2>1, <2>3 DEF OutInv
<1> QED BY <1>2, <1>3

LEMMA SetModeStep ==
  ASSUME OutInv, NEW s \in Splitters, NEW m, NEW failing, SetMode(s, m, failing)
  PROVE  OutInv'
<1> DEFINE v == WithMode(World, s, m, failing).w
<1>1. SoundWorld(World) /\ RightWorld(World)
  BY DEF OutInv, SoundWorld
<1>2. Adjusted(World, v, s, m)
  BY <1>1, WithModeAdjusts
<1>3. Becomes(v)
  BY DEF SetMode
<1> HIDE DEF v
<1>4. World' = v
  BY <1>2, <1>3, BecomesIs DEF Adjusted
<1>5. SoundWorld(v)
  BY <1>1, <1>2, AdjustedIsSound
<1> QED BY <1>4, <1>5 DEF OutInv

LEMMA ResetStep ==
  ASSUME OutInv, NEW s \in Splitters, NEW failing, TextOutReset(s, failing)
  PROVE  OutInv'
<1> DEFINE p == splitter[s]
           q == TextOutSetMode(p, 0)
           S == [splitter EXCEPT ![s] = q]
           C == [d \in Outputs |-> IF d \in Consoles(splitter[s]) \ failing THEN 0 ELSE console[d]]
<1>1. splitter' = S /\ console' = C /\ preferred' = preferred
  BY DEF TextOutReset
<1>2. /\ splitter \in [Splitters -> Private] /\ console \in [Outputs -> Int]
      /\ preferred \in {Preferred, Base} /\ p \in Private
      /\ \A d \in Outputs : Accepts(d, console[d])
  BY OutInvTyped
<1>3. SameModes(p, q) /\ q.mode = 0 /\ q.cursor = <<0, 0>> /\ q \in Private
  BY <1>2, ModeIsSet DEF SameModes
<1>4. ASSUME NEW d \in Outputs PROVE C[d] \in Int /\ Accepts(d, C[d])
  <2>1. Accepts(d, 0)
    BY ModesOfConsole DEF Accepts
  <2>2. C[d] = 0 \/ C[d] = console[d]
    OBVIOUS
  <2> HIDE DEF C
  <2>3. console[d] \in Int
    BY <1>2
  <2> QED BY <1>2, <2>1, <2>2, <2>3
<1>5. C \in [Outputs -> Int]
  BY <1>4
<1> HIDE DEF q, C
<1>6. S \in [Splitters -> Private] /\ S[s] = q /\ \A t \in Splitters \ {s} : S[t] = splitter[t]
  BY <1>2, <1>3
<1>7. 0 \in 0..(p.maxMode - 1)
  BY <1>2, NumbersOfModes DEF Private
<1> HIDE DEF S, p
<1>8. World' \in Worlds
  BY <1>1, <1>2, <1>5, <1>6, WorldTyped
<1>9. Adjusted(World, World', s, 0)
  <2>1. Accepting(World')
    BY <1>1, <1>4, WorldIs DEF Accepting
  <2>2. World.splitter[s] = p /\ World'.splitter[s] = q
    BY <1>1, <1>6, WorldIs DEF p
  <2>3. World'.preferred = World.preferred
        /\ \A t \in Splitters \ {s} : World'.splitter[t] = World.splitter[t]
    BY <1>1, <1>6, WorldIs
  <2> QED BY <1>3, <1>7, <1>8, <2>1, <2>2, <2>3 DEF Adjusted
<1>10. SoundWorld(World')
  BY <1>9, AdjustedIsSound DEF OutInv
<1> QED BY <1>10 DEF OutInv

LEMMA CursorStep ==
  ASSUME OutInv, NEW s \in Splitters, NEW cursor \in (0..(Base[1] - 1)) \X (0..(Base[2] - 1)),
         splitter' = [splitter EXCEPT ![s].cursor = cursor], console' = console,
         preferred' = preferred
  PROVE  OutInv'
<1> DEFINE p == splitter[s]
           q == [p EXCEPT !.cursor = cursor]
           S == [splitter EXCEPT ![s] = q]
<1>1. splitter' = S
  OBVIOUS
<1>2. /\ splitter \in [Splitters -> Private] /\ console \in [Outputs -> Int]
      /\ preferred \in {Preferred, Base} /\ p \in Private
      /\ \A d \in Outputs : Accepts(d, console[d])
      /\ \A t \in Splitters : Good(splitter[t]) /\ ModeIn(splitter[t]) /\ CursorIn(splitter[t])
  BY OutInvTyped
<1>3. cursor \in Int \X Int /\ cursor[1] \in 0..(Base[1] - 1) /\ cursor[2] \in 0..(Base[2] - 1)
  BY NumbersOfModes
<1> HIDE DEF p, q
<1>4. /\ p = [slots |-> p.slots, count |-> p.count, query |-> p.query, map |-> p.map,
              maxMode |-> p.maxMode, mode |-> p.mode, cursor |-> p.cursor]
      /\ p.slots \in [0..(Slots - 1) -> Outputs \cup {NoDevice}] /\ p.count \in 0..Slots
      /\ p.query \in [0..(Rows - 1) -> Sizes] /\ p.map \in Maps \cup {NoMap}
      /\ p.maxMode \in 1..Rows /\ p.mode \in Int
  BY <1>2 DEF Private
<1>5. q = [slots |-> p.slots, count |-> p.count, query |-> p.query, map |-> p.map,
           maxMode |-> p.maxMode, mode |-> p.mode, cursor |-> cursor]
  BY <1>4 DEF q
<1>6. q \in Private
  BY <1>3, <1>4, <1>5 DEF Private
<1>7. SameModes(p, q) /\ q.mode = p.mode /\ q.cursor = cursor
  BY <1>5, <1>6 DEF SameModes
<1>8. /\ S \in [Splitters -> Private] /\ S[s] = q
      /\ \A t \in Splitters \ {s} : S[t] = splitter[t]
  BY <1>2, <1>6
<1> HIDE DEF S
<1>9. \A t \in Splitters : t = s \/ t \in Splitters \ {s}
  OBVIOUS
<1>10. ASSUME NEW t \in Splitters PROVE SameModes(World.splitter[t], World'.splitter[t])
  <2>1. splitter[t] \in Private
    BY <1>2
  <2> QED BY <1>1, <1>7, <1>8, <1>9, <2>1, WorldIs DEF SameModes, p
<1>11. RightWorld(World')
  <2>1. World' \in Worlds
    BY <1>1, <1>2, <1>8, WorldTyped
  <2>2. \A t \in Splitters : Good(World'.splitter[t])
    BY <1>2, <1>10, SameIsGood, WorldIs
  <2>3. Accepting(World')
    BY <1>2, WorldIs DEF Accepting
  <2> QED BY <2>1, <2>2, <2>3 DEF RightWorld
<1>12. SharedMatch(World')
  BY <1>10, SharedSame DEF OutInv, SoundWorld
<1>13. ModeIn(q) /\ CursorIn(q)
  <2>1. q.maxMode = p.maxMode
    BY <1>7 DEF SameModes
  <2>2. ModeIn(p)
    BY <1>2 DEF p
  <2> QED BY <1>3, <1>7, <2>1, <2>2 DEF ModeIn, CursorIn
<1>14. \A t \in Splitters : ModeIn(World'.splitter[t]) /\ CursorIn(World'.splitter[t])
  BY <1>1, <1>2, <1>8, <1>9, <1>13, WorldIs
<1> QED BY <1>11, <1>12, <1>14 DEF OutInv, SoundWorld

\* The screen of a splitter without consoles has the base size.
LEMMA BaseScreen ==
  ASSUME OutInv, NEW s \in Splitters, splitter[s].count = 0
  PROVE  SizeOf(splitter[s], splitter[s].mode) = Base
<1>1. Good(splitter[s]) /\ ModeIn(splitter[s])
  BY OutInvTyped
<1>2. splitter[s].maxMode = 1 /\ SizeOf(splitter[s], 0) = Base
  BY <1>1 DEF Good
<1>3. splitter[s].mode = 0
  BY <1>1, <1>2 DEF ModeIn
<1> QED BY <1>2, <1>3

LEMMA MovedStays ==
  ASSUME NEW cursor \in (0..(Base[1] - 1)) \X (0..(Base[2] - 1)), NEW char
  PROVE  Moved(cursor, Base, char) \in (0..(Base[1] - 1)) \X (0..(Base[2] - 1))
<1> DEFINE column == cursor[1]
           row == cursor[2]
           down == IF row < Base[2] - 1 THEN row + 1 ELSE row
           A == 0..(Base[1] - 1)
           B == 0..(Base[2] - 1)
<1>1. column \in A /\ row \in B /\ cursor = <<column, row>>
  OBVIOUS
<1>2. Base[1] \in Int /\ Base[1] > 0 /\ Base[2] \in Int /\ Base[2] > 0
  BY NumbersOfModes
<1> HIDE DEF column, row
<1>3. down \in B /\ 0 \in A /\ Base[1] - 1 \in A
  BY <1>1, <1>2
<1>4. row > 0 => row - 1 \in B
  BY <1>1, <1>2
<1>5. (column > 0 => column - 1 \in A) /\ (column < Base[1] - 1 => column + 1 \in A)
  BY <1>1, <1>2
<1> HIDE DEF down, A, B
<1>6. \A x \in A, y \in B : <<x, y>> \in A \X B
  OBVIOUS
<1>7. Moved(cursor, Base, char) \in A \X B
  <2> DEFINE M == Moved(cursor, Base, char)
  <2>1. M = CASE char = "backspace" /\ column = 0 /\ row > 0 -> <<Base[1] - 1, row - 1>>
              [] char = "backspace" /\ column > 0 -> <<column - 1, row>>
              [] char = "linefeed" -> <<column, down>>
              [] char = "return" -> <<0, row>>
              [] char = "glyph" /\ column < Base[1] - 1 -> <<column + 1, row>>
              [] char = "glyph" /\ column >= Base[1] - 1 -> <<0, down>>
              [] OTHER -> cursor
    BY DEF Moved, column, row, down
  <2> HIDE DEF M
  <2>2. \/ row > 0 /\ M = <<Base[1] - 1, row - 1>>
        \/ column > 0 /\ M = <<column - 1, row>>
        \/ M = <<column, down>> \/ M = <<0, row>>
        \/ column < Base[1] - 1 /\ M = <<column + 1, row>>
        \/ M = <<0, down>> \/ M = <<column, row>>
    BY <1>1, <2>1
  <2>3. M \in A \X B
    BY <1>1, <1>3, <1>4, <1>5, <1>6, <2>2
  <2> QED BY <2>3 DEF M
<1> QED BY <1>7 DEF A, B

LEMMA OutputStep ==
  ASSUME OutInv, NEW s \in Splitters, NEW char, OutputString(s, char)
  PROVE  OutInv'
<1> DEFINE p == splitter[s]
           cursor == Moved(p.cursor, Base, char)
<1>1. p.count = 0 /\ splitter' = [splitter EXCEPT ![s].cursor = Moved(@, SizeOf(p, p.mode), char)]
      /\ console' = console /\ preferred' = preferred
  BY DEF OutputString
<1>2. SizeOf(p, p.mode) = Base
  BY <1>1, BaseScreen
<1>3. p.cursor \in (0..(Base[1] - 1)) \X (0..(Base[2] - 1))
  <2>1. p \in Private /\ CursorIn(p)
    BY OutInvTyped
  <2>2. p.cursor \in Int \X Int
    BY <2>1 DEF Private
  <2>3. p.cursor[1] \in 0..(Base[1] - 1) /\ p.cursor[2] \in 0..(Base[2] - 1)
    BY <1>1, <2>1 DEF CursorIn
  <2> QED BY <2>2, <2>3
<1>4. cursor \in (0..(Base[1] - 1)) \X (0..(Base[2] - 1))
  BY <1>3, MovedStays
<1>5. splitter' = [splitter EXCEPT ![s].cursor = cursor]
  BY <1>1, <1>2
<1> HIDE DEF cursor
<1> QED BY <1>1, <1>4, <1>5, CursorStep

LEMMA PositionStep ==
  ASSUME OutInv, NEW s \in Splitters, NEW cursor \in (0..Base[1]) \X (0..Base[2]),
         SetCursorPosition(s, cursor)
  PROVE  OutInv'
<1>1. /\ splitter[s].count = 0 /\ splitter' = [splitter EXCEPT ![s].cursor = cursor]
      /\ console' = console /\ preferred' = preferred
      /\ cursor[1] < SizeOf(splitter[s], splitter[s].mode)[1]
      /\ cursor[2] < SizeOf(splitter[s], splitter[s].mode)[2]
  BY DEF SetCursorPosition
<1>2. SizeOf(splitter[s], splitter[s].mode) = Base
  BY <1>1, BaseScreen
<1>3. cursor \in (0..(Base[1] - 1)) \X (0..(Base[2] - 1))
  <2>1. cursor[1] \in 0..(Base[1] - 1) /\ cursor[2] \in 0..(Base[2] - 1)
    BY <1>1, <1>2, NumbersOfModes
  <2> QED BY <2>1
<1> QED BY <1>1, <1>3, CursorStep

LEMMA RestartStep ==
  ASSUME OutInv, NEW d \in Outputs, Restarted(d)
  PROVE  OutInv'
<1>1. /\ splitter \in [Splitters -> Private] /\ console \in [Outputs -> Int]
      /\ preferred \in {Preferred, Base} /\ \A e \in Outputs : Accepts(e, console[e])
  BY OutInvTyped
<1>2. console' = [console EXCEPT ![d] = 0] /\ splitter' = splitter /\ preferred' = preferred
  BY DEF Restarted
<1>3. console' \in [Outputs -> Int] /\ \A e \in Outputs : console'[e] \in {0, console[e]}
  BY <1>1, <1>2
<1>4. \A e \in Outputs : Accepts(e, 0)
  BY ModesOfConsole DEF Accepts
<1>5. World' \in Worlds
  BY <1>1, <1>2, <1>3, WorldTyped
<1>6. Accepting(World')
  BY <1>1, <1>3, <1>4, WorldIs DEF Accepting
<1>7. World'.splitter = World.splitter
  BY <1>2, WorldIs
<1> QED BY <1>5, <1>6, <1>7 DEF OutInv, SoundWorld, RightWorld, SharedMatch

LEMMA OutInitInv ==
  ASSUME OutInit PROVE OutInv
<1> DEFINE p == [slots |-> [i \in 0..(Slots - 1) |-> NoDevice], count |-> 0,
                 query |-> [m \in 0..(Rows - 1) |-> IF m = 0 THEN Base ELSE NoSize],
                 map |-> NoMap, maxMode |-> 1, mode |-> 0, cursor |-> <<0, 0>>]
<1>1. /\ splitter = [s \in Splitters |-> p] /\ console = [d \in Outputs |-> 0]
      /\ preferred = Preferred
  BY DEF OutInit
<1>2. p \in Private
  <2>1. Base \in Sizes /\ NoSize \in Sizes
    BY DEF Sizes
  <2>2. p.query \in [0..(Rows - 1) -> Sizes]
    <3> HIDE DEF NoSize
    <3> QED BY <2>1
  <2>3. p.slots \in [0..(Slots - 1) -> Outputs \cup {NoDevice}]
    OBVIOUS
  <2>4. 0 \in 0..Slots /\ 1 \in 1..Rows
    BY NumbersOfModes
  <2> QED BY <2>2, <2>3, <2>4 DEF Private
<1>3. p.count = 0 /\ p.maxMode = 1 /\ p.mode = 0 /\ p.cursor = <<0, 0>> /\ p.map = NoMap
      /\ p.query = [m \in 0..(Rows - 1) |-> IF m = 0 THEN Base ELSE NoSize]
  OBVIOUS
<1> HIDE DEF p
<1>4. Good(p)
  <2>1. 0 \in 0..(Rows - 1)
    BY NumbersOfModes
  <2>2. SizeOf(p, 0) = Base
    BY <1>3, <2>1 DEF SizeOf
  <2>3. Columns(p) = {}
    BY <1>3 DEF Columns
  <2> QED BY <1>2, <1>3, <2>2, <2>3 DEF Good
<1>5. ModeIn(p) /\ CursorIn(p)
  <2>1. 0 \in 0..(Base[1] - 1) /\ 0 \in 0..(Base[2] - 1)
    BY NumbersOfModes
  <2> QED BY <1>3, <2>1 DEF ModeIn, CursorIn
<1>6. \A s \in Splitters : splitter[s] = p
  BY <1>1
<1>7. World \in Worlds
  <2>1. splitter \in [Splitters -> Private]
    BY <1>1, <1>2
  <2>2. console \in [Outputs -> Int]
    BY <1>1
  <2> QED BY <1>1, <2>1, <2>2 DEF World, Worlds
<1>8. Accepting(World)
  BY <1>1, ModesOfConsole, WorldIs DEF Accepting, Accepts
<1>9. SharedMatch(World)
  <2>1. World.splitter["ConOut"].count = 0
    BY <1>3, <1>6, WorldIs DEF Splitters
  <2> QED BY <2>1 DEF SharedMatch
<1> QED BY <1>4, <1>5, <1>6, <1>7, <1>8, <1>9, WorldIs DEF OutInv, SoundWorld, RightWorld

LEMMA OutStepInv ==
  ASSUME TwoConsoles, OutInv, [OutNext]_outVars
  PROVE  OutInv'
<1>1. CASE UNCHANGED outVars
  <2>1. World' = World
    BY <1>1 DEF outVars, World
  <2> QED BY <2>1 DEF OutInv
<1>2. CASE OutNext
  <2>1. CASE \/ \E d \in Outputs : Restarted(d)
             \/ \E s \in Splitters :
                  \/ \E char \in Chars : OutputString(s, char)
                  \/ \E cursor \in (0..Base[1]) \X (0..Base[2]) : SetCursorPosition(s, cursor)
    BY <2>1, RestartStep, OutputStep, PositionStep
  <2>2. CASE \E s \in Splitters, d \in Outputs, f \in OneFailure : DriverBindingStart(s, d, f)
    BY <2>2, StartStep
  <2>3. CASE \E s \in Splitters, failing \in OneFailing :
               (\E m \in 0..splitter[s].maxMode : SetMode(s, m, failing))
                 \/ TextOutReset(s, failing)
    BY <2>3, SetModeStep, ResetStep
  <2>4. CASE \E s \in Splitters, d \in Outputs,
        failing \in OneFailing : DriverBindingStop(s, d, failing)
    BY <2>4, StopStep
  <2> QED BY <1>2, <2>1, <2>2, <2>3, <2>4 DEF OutNext
<1> QED BY <1>1, <1>2

LEMMA OutInvAgrees ==
  ASSUME TwoConsoles, OutInv
  PROVE  OutputsAgree
<1>1. /\ splitter \in [Splitters -> Private] /\ preferred \in {Preferred, Base}
      /\ \A d \in Outputs : Accepts(d, console[d])
      /\ \A s \in Splitters : Good(splitter[s]) /\ ModeIn(splitter[s]) /\ CursorIn(splitter[s])
  BY OutInvTyped
<1>2. ASSUME NEW s \in Splitters
      PROVE  LET p == splitter[s]
             IN  /\ p.slots \in [0..(Slots - 1) -> Outputs \cup {NoDevice}]
                 /\ p.count \in 0..Cardinality(Outputs)
                 /\ p.maxMode \in 1..Rows
                 /\ p.mode \in 0..(p.maxMode - 1)
                 /\ p.map # NoMap => p.map \in [0..(Rows - 1) -> [0..(Slots - 1) -> -1..(Rows - 1)]]
                 /\ p.count > 0 => p.map # NoMap
  <2> DEFINE p == splitter[s]
  <2>1. Good(p) /\ p \in Private /\ ModeIn(p)
    BY <1>1
  <2> HIDE DEF p
  <2>2. p.count \in 0..Cardinality(Outputs)
    BY <2>1, CountTwo
  <2>3. p.count > 0 => p.map # NoMap
    BY <2>1, MapIsSome DEF Good, Mapped
  <2>4. /\ p.slots \in [0..(Slots - 1) -> Outputs \cup {NoDevice}] /\ p.maxMode \in 1..Rows
        /\ p.map \in Maps \cup {NoMap}
    BY <2>1 DEF Private
  <2>5. p.map # NoMap => p.map \in [0..(Rows - 1) -> [0..(Slots - 1) -> -1..(Rows - 1)]]
    BY <2>4 DEF Maps
  <2>6. p.mode \in 0..(p.maxMode - 1)
    BY <2>1 DEF ModeIn
  <2> QED BY <2>2, <2>3, <2>4, <2>5, <2>6 DEF p
<1>3. OutTypeOK
  BY <1>1, <1>2 DEF OutTypeOK
<1>4. ModesMapped
  <2>1. SUFFICES ASSUME NEW s \in Splitters, splitter[s].count > 0,
                        NEW m \in 0..(splitter[s].maxMode - 1), NEW i \in Columns(splitter[s]),
                        QueryMode(splitter[s], m)
                 PROVE  /\ Accepts(splitter[s].slots[i], splitter[s].map[m][i])
                        /\ TextModes[splitter[s].slots[i]][splitter[s].map[m][i]]
                             = SizeOf(splitter[s], m)
    BY DEF ModesMapped
  <2> DEFINE p == splitter[s]
  <2>2. Mapped(p, p.slots, p.count, LaterModes(p)) /\ SizeOf(p, m) # NoSize
    BY <1>1, <2>1 DEF Good, QueryMode
  <2>3. i \in 0..(p.count - 1) /\ m \in 0..(p.maxMode - 1)
    BY <2>1 DEF Columns
  <2> HIDE DEF p
  <2>4. \A j \in 0..(p.count - 1) : /\ Accepts(p.slots[j], p.map[m][j])
                                   /\ TextModes[p.slots[j]][p.map[m][j]] = SizeOf(p, m)
    BY <2>2, <2>3, ReportedModes
  <2> QED BY <2>3, <2>4 DEF p
<1>5. SharedModesMatch
  BY WorldIs DEF OutInv, SoundWorld, SharedMatch, SharedModesMatch, LaterSizesOf, LaterModes
<1>6. CursorOnScreen
  BY <1>1 DEF CursorOnScreen, CursorIn
<1> QED BY <1>3, <1>4, <1>5, <1>6 DEF OutputsAgree

\* With the platform's two consoles the modes, maps and consoles of the two
\* splitters always fit together: a mode that is reported has its size on every
\* console, the current mode is one of the modes, and the splitters that share
\* their first console offer the same sizes (ConSplitterTextOutAddDevice,
\* ConSplitterTextOutDeleteDevice, ConSplitterGetIntersection).
THEOREM OutputsAlwaysAgree == TwoConsoles => (OutSpec => []OutputsAgree)
<1> SUFFICES ASSUME TwoConsoles PROVE OutSpec => []OutputsAgree
  OBVIOUS
<1>1. OutInit => OutInv
  BY OutInitInv
<1>2. OutInv /\ [OutNext]_outVars => OutInv'
  BY OutStepInv
<1>3. OutInv => OutputsAgree
  BY OutInvAgrees
<1> QED BY <1>1, <1>2, <1>3, PTL DEF OutSpec

\* With the platform's two consoles, the start of a console, and a client that
\* sets another mode that is reported, bring every console of the splitter to
\* the size the splitter says it is in (ConsplitterSetConsoleOutMode,
\* ConSplitterTextOutSetMode).
THEOREM ModesAlwaysEntered == TwoConsoles => (OutSpec => ModesEntered)
<1> SUFFICES ASSUME TwoConsoles PROVE OutSpec => ModesEntered
  OBVIOUS
<1> DEFINE Agree == \A s \in Splitters, d \in Outputs :
             /\ splitter'[s].count > splitter[s].count
             /\ DriverBindingStart(s, d, NoFailures)
             => \A c \in Consoles(splitter'[s]) :
                 Shows(console', c) = SizeOf(splitter'[s], splitter'[s].mode)
           Enter == \A s \in Splitters, m \in 0..Rows :
             /\ m # splitter[s].mode
             /\ m = splitter'[s].mode
             /\ QueryMode(splitter[s], m)
             /\ SetMode(s, m, {})
             => \A d \in Consoles(splitter[s]) :
                  Shows(console', d) = SizeOf(splitter[s], m)
<1>1. OutInit => OutInv
  BY OutInitInv
<1>2. OutInv /\ [OutNext]_outVars => OutInv'
  BY OutStepInv
<1>3. OutInv /\ [OutNext]_outVars => [Agree]_outVars
  BY StartStep
<1>4. OutInv /\ [OutNext]_outVars => [Enter]_outVars
  <2> SUFFICES ASSUME OutInv, NEW s \in Splitters, NEW m \in 0..Rows,
                      m # splitter[s].mode, QueryMode(splitter[s], m), SetMode(s, m, {}),
                      NEW d \in Consoles(splitter[s])
               PROVE  Shows(console', d) = SizeOf(splitter[s], m)
    OBVIOUS
  <2>1. RightWorld(World) /\ World.splitter = splitter
    BY WorldIs DEF OutInv, SoundWorld
  <2>2. Shows(WithMode(World, s, m, {}).w.console, d) = SizeOf(splitter[s], m)
    BY <2>1, AllSwitched
  <2>3. console' = WithMode(World, s, m, {}).w.console
    BY DEF SetMode, Becomes
  <2> QED BY <2>2, <2>3
<1>5. OutSpec => [][Agree]_outVars
  BY <1>1, <1>2, <1>3, PTL DEF OutSpec
<1>6. OutSpec => [][Enter]_outVars
  BY <1>1, <1>2, <1>4, PTL DEF OutSpec
<1> QED BY <1>5, <1>6, Zenon DEF ModesEntered, AddedConsolesAgree, ModeEntered
=============================================================================
