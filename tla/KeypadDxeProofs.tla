-------------------------- MODULE KeypadDxeProofs --------------------------
(***************************************************************************)
(* The keypad driver keeps its keystrokes, for every queue size and set of *)
(* clients: none is left in the notify queue with nobody to take it out,   *)
(* calls and reads are made in the order of typing, and whoever asked for  *)
(* a keystroke gets it, though polls come between any two steps of the     *)
(* notification handler.                                                   *)
(***************************************************************************)
EXTENDS KeypadDxe, SequenceTheorems, FiniteSetTheorems, TLAPS

\* A walk has a keystroke, and the nodes of the list are different ones.
HandlerHasKey == handler.pc \in {"walk", "call"} => handler.key \in Stroke

NodesDiffer ==
  \A i, j \in Positions(notifyList) : notifyList[i] = notifyList[j] => i = j

IInv == TypeOK /\ HandlerHasKey /\ NodesDiffer /\ NoLostWakeup

-----------------------------------------------------------------------------
\* A function on 1 .. n is a sequence of that length.
LEMMA FunctionIsSeq ==
  ASSUME NEW S, NEW n \in Nat, NEW f \in [1 .. n -> S]
  PROVE  f \in Seq(S) /\ Len(f) = n
BY SeqDef

\* Pushing keeps a queue a queue that is no longer than its capacity.
LEMMA PushType ==
  ASSUME NEW S, NEW q \in Seq(S), NEW key \in S, NEW m \in Nat
  PROVE  /\ PushEfikeyBufTail(q, key, m) \in Seq(S)
         /\ Len(PushEfikeyBufTail(q, key, m)) <= Capacity
<1> USE CapacityAssumption DEF CapacityAssumption
<1> DEFINE all == Len(q) + m
           lost == IF all <= Capacity THEN 0 ELSE all - Capacity
           f == [i \in 1 .. all - lost |-> IF i + lost <= Len(q) THEN q[i + lost] ELSE key]
<1>1. Len(q) \in Nat /\ all \in Nat /\ lost \in Nat /\ all - lost \in 0 .. Capacity
  BY LenProperties
<1>2. ASSUME NEW i \in 1 .. all - lost, i + lost <= Len(q) PROVE q[i + lost] \in S
  <2>1. i + lost \in 1 .. Len(q)
    BY <1>1, <1>2
  <2> QED BY <2>1, ElementOfSeq
<1>3. f \in [1 .. all - lost -> S]
  BY <1>2
<1>4. f \in Seq(S) /\ Len(f) = all - lost
  <2> HIDE DEF f, all, lost
  <2> QED BY <1>1, <1>3, FunctionIsSeq
<1>5. PushEfikeyBufTail(q, key, m) = f
  BY DEF PushEfikeyBufTail
<1> QED BY <1>1, <1>4, <1>5

\* A keystroke nobody waits for leaves the notify queue as it was.
LEMMA PushNothing ==
  ASSUME NEW S, NEW q \in Seq(S), Len(q) <= Capacity, NEW key
  PROVE  PushEfikeyBufTail(q, key, 0) = q
<1>1. Len(q) \in Nat /\ q = [i \in 1 .. Len(q) |-> q[i]]
  BY LenProperties
<1>2. PushEfikeyBufTail(q, key, 0) = [i \in 1 .. Len(q) |-> q[i]]
  BY <1>1, CapacityAssumption DEF CapacityAssumption, PushEfikeyBufTail
<1> QED BY <1>1, <1>2

\* Dropping the leading partial keystrokes leaves a queue.
LEMMA WithoutPartialsType ==
  ASSUME NEW S, NEW q \in Seq(S), Len(q) <= Capacity
  PROVE  /\ WithoutLeadingPartials(q) \in Seq(S)
         /\ Len(WithoutLeadingPartials(q)) <= Capacity
<1> USE CapacityAssumption DEF CapacityAssumption
<1> DEFINE m == Cardinality(LeadingPartials(q)) + 1
<1>1. Len(q) \in Nat /\ LeadingPartials(q) \in SUBSET (1 .. Len(q))
  BY LenProperties DEF LeadingPartials, Positions
<1>2. IsFiniteSet(LeadingPartials(q))
  <2>1. IsFiniteSet(1 .. Len(q))
    BY <1>1, FS_Interval
  <2> QED BY <1>1, <2>1, FS_Subset
<1>3. m \in Nat \ {0}
  BY <1>2, FS_CardinalityType
<1>4. \A i \in m .. Len(q) : q[i] \in S
  BY <1>1, <1>3, ElementOfSeq
<1>5. /\ SubSeq(q, m, Len(q)) \in Seq(S)
      /\ Len(SubSeq(q, m, Len(q))) = IF m <= Len(q) THEN Len(q) - m + 1 ELSE 0
  <2> HIDE DEF m
  <2> QED BY <1>1, <1>3, <1>4, SubSeqProperties
<1> QED BY <1>1, <1>3, <1>5 DEF WithoutLeadingPartials

-----------------------------------------------------------------------------
\* What GetKeys reports is nothing, or the next keystroke.
LEMMA NextKeyType ==
  ASSUME strokes \in 0 .. MaxStrokes, NEW key \in NextKeys, key # NoKey
  PROVE  key \in Stroke /\ key.n \in 1 .. MaxStrokes
<1> USE MaxStrokesAssumption DEF MaxStrokesAssumption
<1>1. strokes < MaxStrokes /\ key \in [code : Codes \cup {Partial}, n : {strokes + 1}]
  BY DEF NextKeys
<1>2. strokes + 1 \in 1 .. MaxStrokes
  BY <1>1
<1> QED BY <1>1, <1>2 DEF Stroke

\* The key queue after a poll.
LEMMA KeysAfterType ==
  ASSUME TypeOK, NEW key \in NextKeys
  PROVE  KeysAfter(key) \in Seq(Stroke) /\ Len(KeysAfter(key)) <= Capacity
<1>1. CASE Accepted(key)
  <2>1. key \in Stroke
    BY <1>1, NextKeyType DEF Accepted, TypeOK
  <2>2. keyQueue \in Seq(Stroke)
    BY DEF TypeOK
  <2> QED BY <1>1, <2>1, <2>2, PushType DEF KeysAfter
<1>2. CASE ~Accepted(key)
  BY <1>2 DEF KeysAfter, TypeOK
<1> QED BY <1>1, <1>2

\* The positions of the notify list that match are finitely many.
LEMMA MatchingFinite ==
  ASSUME TypeOK, NEW key
  PROVE  IsFiniteSet(Matching(key)) /\ Cardinality(Matching(key)) \in Nat
<1>1. Len(notifyList) \in Nat
  BY LenProperties DEF TypeOK
<1>2. IsFiniteSet(1 .. Len(notifyList))
  BY <1>1, FS_Interval
<1>3. Matching(key) \in SUBSET (1 .. Len(notifyList))
  BY DEF Matching, Positions
<1>4. IsFiniteSet(Matching(key))
  BY <1>2, <1>3, FS_Subset
<1> QED BY <1>4, FS_CardinalityType

\* A listed node is a registration.
LEMMA ListedNode ==
  ASSUME TypeOK, NEW i \in Positions(notifyList)
  PROVE  notifyList[i] \in Handles /\ node[notifyList[i]] \in Registration
<1>1. notifyList \in Seq(Handles) /\ i \in 1 .. Len(notifyList)
  BY DEF TypeOK, Positions
<1>2. notifyList[i] \in Handles
  BY <1>1, ElementOfSeq
<1> QED BY <1>2 DEF TypeOK

\* What a poll does to the notify side: whatever it pushes it also signals.
LEMMA NotifyStep ==
  ASSUME TypeOK, NEW key \in NextKeys, Notify(key)
  PROVE  /\ notifyQueue' \in Seq(Stroke) /\ Len(notifyQueue') <= Capacity
         /\ notifyEvent' \in BOOLEAN
         /\ strokes' \in 0 .. MaxStrokes
         /\ owed' \subseteq Fns \X (1 .. MaxStrokes)
         /\ notifyEvent' \/ (notifyQueue' = notifyQueue /\ notifyEvent' = notifyEvent)
<1> DEFINE m == IF Accepted(key) THEN Matching(key) ELSE {}
           new == {<<node[notifyList[i]].fn, key.n>> : i \in m}
<1>1. notifyQueue' = PushEfikeyBufTail(notifyQueue, key, Cardinality(m))
  BY DEF Notify
<1>2. notifyEvent' = (notifyEvent \/ m # {})
  BY DEF Notify
<1>3. notifyQueue \in Seq(Stroke) /\ Len(notifyQueue) <= Capacity
  BY DEF TypeOK
<1>4. strokes' \in 0 .. MaxStrokes
  <2>1. CASE key = NoKey
    BY <2>1 DEF Notify, TypeOK
  <2>2. CASE key # NoKey
    <3>1. key.n \in 1 .. MaxStrokes
      BY <2>2, NextKeyType DEF TypeOK
    <3> QED BY <2>2, <3>1, MaxStrokesAssumption DEF MaxStrokesAssumption, Notify
  <2> QED BY <2>1, <2>2
<1>5. new \subseteq Fns \X (1 .. MaxStrokes)
  <2> SUFFICES ASSUME NEW i \in m
               PROVE  <<node[notifyList[i]].fn, key.n>> \in Fns \X (1 .. MaxStrokes)
    OBVIOUS
  <2>1. Accepted(key) /\ i \in Positions(notifyList)
    BY DEF Matching
  <2>2. key.n \in 1 .. MaxStrokes
    BY <2>1, NextKeyType DEF Accepted, TypeOK
  <2>3. node[notifyList[i]].fn \in Fns
    BY <2>1, ListedNode DEF Registration
  <2> QED BY <2>2, <2>3
<1>6. owed' \subseteq Fns \X (1 .. MaxStrokes)
  <2>1. owed' \subseteq owed \cup new
    BY DEF Notify
  <2> QED BY <1>5, <2>1 DEF TypeOK
<1>7. CASE m = {}
  <2>1. Cardinality(m) = 0
    BY <1>7, FS_EmptySet
  <2>2. notifyQueue' = notifyQueue
    BY <1>1, <1>3, <2>1, PushNothing
  <2> QED BY <1>2, <1>3, <1>4, <1>6, <1>7, <2>2 DEF TypeOK
<1>8. CASE m # {}
  <2>1. Accepted(key) /\ m = Matching(key)
    BY <1>8
  <2>2. key \in Stroke
    BY <2>1, NextKeyType DEF Accepted, TypeOK
  <2>3. Cardinality(m) \in Nat
    BY <2>1, MatchingFinite
  <2>4. notifyQueue' \in Seq(Stroke) /\ Len(notifyQueue') <= Capacity
    <3> HIDE DEF m
    <3> QED BY <1>1, <1>3, <2>2, <2>3, PushType
  <2> QED BY <1>2, <1>4, <1>6, <1>8, <2>4
<1> QED BY <1>7, <1>8

-----------------------------------------------------------------------------
\* A zeroed device satisfies the invariant's clauses about what was zeroed.
LEMMA ZeroedType ==
  ASSUME Zeroed
  PROVE  /\ keyQueue' \in Seq(Stroke) /\ Len(keyQueue') <= Capacity
         /\ notifyQueue' \in Seq(Stroke) /\ Len(notifyQueue') <= Capacity
         /\ notifyList' \in Seq(Handles) /\ Positions(notifyList') = {}
         /\ node' \in [Handles -> Registration \cup {NoNode}]
         /\ owed' \subseteq Fns \X (1 .. MaxStrokes)
         /\ NodesDiffer' /\ NoLostWakeup'
<1> USE CapacityAssumption DEF CapacityAssumption
<1>1. << >> \in Seq(Stroke) /\ << >> \in Seq(Handles) /\ Len(<< >>) = 0
  BY EmptySeq
<1>2. Positions(notifyList') = {}
  BY <1>1 DEF Zeroed, Positions
<1>3. NodesDiffer'
  BY <1>2 DEF NodesDiffer
<1> QED BY <1>1, <1>2, <1>3 DEF Zeroed, NoLostWakeup

\* The driver is loaded and not started.
LEMMA InitInv == Init => IInv
<1> SUFFICES ASSUME Init PROVE IInv
  OBVIOUS
<1> USE CapacityAssumption, MaxStrokesAssumption
    DEF CapacityAssumption, MaxStrokesAssumption
<1>1. << >> \in Seq(Stroke) /\ << >> \in Seq(Handles) /\ Len(<< >>) = 0
  BY EmptySeq
<1>2. Positions(notifyList) = {}
  BY <1>1 DEF Init, Positions
<1>3. handler \in [pc : {"idle", "pop", "walk", "call"},
                   key : Stroke \cup {NoKey}, link : Handles \cup {NoNode}]
  BY DEF Init, Drained
<1>4. calls \in [Fns -> 0 .. MaxStrokes] /\ 0 \in 0 .. MaxStrokes
  BY DEF Init
<1>5. TypeOK
  <2>1. /\ keyQueue \in Seq(Stroke) /\ Len(keyQueue) <= Capacity
        /\ notifyQueue \in Seq(Stroke) /\ Len(notifyQueue) <= Capacity
        /\ notifyList \in Seq(Handles)
    BY <1>1 DEF Init
  <2>2. node \in [Handles -> Registration \cup {NoNode}]
    BY DEF Init
  <2>3. owed \subseteq Fns \X (1 .. MaxStrokes)
    BY DEF Init
  <2>4. strokes \in 0 .. MaxStrokes /\ lastRead \in 0 .. MaxStrokes
    BY <1>4 DEF Init
  <2>5. /\ phase \in {"stopped", "starting", "running"} /\ timer \in BOOLEAN
        /\ notifyEvent \in BOOLEAN /\ exposePartial \in BOOLEAN
        /\ promised \in BOOLEAN
    BY DEF Init
  <2> QED BY <1>2, <1>3, <1>4, <2>1, <2>2, <2>3, <2>4, <2>5 DEF TypeOK
<1>6. HandlerHasKey /\ NoLostWakeup
  BY DEF Init, Drained, HandlerHasKey, NoLostWakeup
<1>7. NodesDiffer
  BY <1>2 DEF NodesDiffer
<1> QED BY <1>5, <1>6, <1>7 DEF IInv

\* Start, its error exit and Stop leave an empty driver or change nothing that
\* the invariant is about.
LEMMA StartInv == IInv /\ (Start \/ StartFails \/ Stop) => IInv'
<1> SUFFICES ASSUME IInv, Start \/ StartFails \/ Stop PROVE IInv'
  OBVIOUS
<1>1. UNCHANGED <<handler, strokes, lastRead, calls>>
  BY DEF Start, StartFails, Stop
<1>2. phase' \in {"stopped", "starting", "running"} /\ timer' \in BOOLEAN
  BY DEF Start, StartFails, Stop, IInv, TypeOK
<1>3. CASE Zeroed
  <2>1. TypeOK'
    BY <1>1, <1>2, <1>3, ZeroedType DEF IInv, TypeOK, Zeroed
  <2>2. HandlerHasKey'
    BY <1>1 DEF IInv, HandlerHasKey
  <2> QED BY <1>3, <2>1, <2>2, ZeroedType DEF IInv
<1>4. CASE UNCHANGED <<phase, keyQueue, notifyQueue, notifyList, node,
                       notifyEvent, exposePartial, promised, owed>>
  <2>1. TypeOK'
    BY <1>1, <1>2, <1>4 DEF IInv, TypeOK
  <2>2. HandlerHasKey' /\ NodesDiffer' /\ NoLostWakeup'
    BY <1>1, <1>4 DEF IInv, HandlerHasKey, NodesDiffer, NoLostWakeup, HandlerIdle
  <2> QED BY <2>1, <2>2 DEF IInv
<1> QED BY <1>3, <1>4 DEF Start, StartFails, Stop

\* A reset empties both queues.
LEMMA ResetInv == IInv /\ (Started \/ KeypadEfiReset) => IInv'
<1> SUFFICES ASSUME IInv, Started \/ KeypadEfiReset PROVE IInv'
  OBVIOUS
<1> USE CapacityAssumption DEF CapacityAssumption
<1>1. UNCHANGED <<timer, notifyList, node, notifyEvent, handler,
                  strokes, lastRead, calls>>
  BY DEF Started, KeypadEfiReset
<1>2. phase' \in {"stopped", "starting", "running"} /\ InitKeypad
  BY DEF Started, KeypadEfiReset, IInv, TypeOK
<1>3. << >> \in Seq(Stroke) /\ Len(<< >>) = 0
  BY EmptySeq
<1>4. TypeOK'
  <2>1. /\ keyQueue' \in Seq(Stroke) /\ Len(keyQueue') <= Capacity
        /\ notifyQueue' \in Seq(Stroke) /\ Len(notifyQueue') <= Capacity
    BY <1>2, <1>3 DEF InitKeypad
  <2>2. owed' \subseteq Fns \X (1 .. MaxStrokes)
    BY <1>2 DEF InitKeypad
  <2>3. exposePartial' \in BOOLEAN /\ promised' \in BOOLEAN
    BY <1>2 DEF InitKeypad
  <2> QED BY <1>1, <1>2, <2>1, <2>2, <2>3 DEF IInv, TypeOK
<1>5. HandlerHasKey' /\ NodesDiffer' /\ NoLostWakeup'
  BY <1>1, <1>2 DEF IInv, HandlerHasKey, NodesDiffer, NoLostWakeup, InitKeypad
<1> QED BY <1>4, <1>5 DEF IInv

\* What every step that polls has in common: the queues keep their types and
\* what is pushed is signalled.
LEMMA PollInv ==
  ASSUME IInv, NEW key \in NextKeys, Notify(key),
         UNCHANGED <<phase, timer, notifyList, node, exposePartial, handler, calls>>,
         keyQueue' \in Seq(Stroke), Len(keyQueue') <= Capacity,
         lastRead' \in 0 .. MaxStrokes, promised' \in BOOLEAN
  PROVE  IInv'
<1>1. TypeOK'
  BY NotifyStep DEF IInv, TypeOK
<1>2. HandlerHasKey' /\ NodesDiffer'
  BY DEF IInv, HandlerHasKey, NodesDiffer
<1>3. NoLostWakeup'
  BY NotifyStep DEF IInv, NoLostWakeup, HandlerIdle
<1> QED BY <1>1, <1>2, <1>3 DEF IInv

\* A poll by the timer, or by a notification function.
LEMMA TimerInv == IInv /\ KeypadTimerHandler => IInv'
<1> SUFFICES ASSUME IInv, KeypadTimerHandler PROVE IInv'
  OBVIOUS
<1>1. PICK key \in NextKeys : /\ keyQueue' = KeysAfter(key)
                              /\ Notify(key)
                              /\ promised' = (promised /\ ~Overflows(key))
  BY DEF KeypadTimerHandler
<1>2. keyQueue' \in Seq(Stroke) /\ Len(keyQueue') <= Capacity
  BY <1>1, KeysAfterType DEF IInv
<1>3. lastRead' \in 0 .. MaxStrokes
  BY DEF KeypadTimerHandler, IInv, TypeOK
<1>4. promised' \in BOOLEAN
  BY <1>1
<1>5. UNCHANGED <<phase, timer, notifyList, node, exposePartial, handler, calls>>
  BY DEF KeypadTimerHandler
<1> QED BY <1>1, <1>2, <1>3, <1>4, <1>5, PollInv

\* A read polls and takes one keystroke.
LEMMA ReadInv ==
  ASSUME IInv, NEW ex \in BOOLEAN, KeypadReadKeyStroke(ex)
  PROVE  IInv'
<1>1. PICK key \in NextKeys :
        /\ Notify(key)
        /\ IF KeysAfter(key) = << >>
             THEN UNCHANGED <<keyQueue, lastRead, promised>>
             ELSE LET returned == ex \/ Head(KeysAfter(key)).code # Partial IN
                  /\ keyQueue' = Tail(KeysAfter(key))
                  /\ lastRead' = IF returned THEN Head(KeysAfter(key)).n ELSE lastRead
                  /\ promised' = (promised /\ ~Overflows(key)
                                    /\ Head(KeysAfter(key)).code = Partial)
  BY DEF KeypadReadKeyStroke
<1> DEFINE q == KeysAfter(key)
<1>2. q \in Seq(Stroke) /\ Len(q) <= Capacity
  BY KeysAfterType DEF IInv
<1>3. UNCHANGED <<phase, timer, notifyList, node, exposePartial, handler, calls>>
  BY DEF KeypadReadKeyStroke
<1>4. lastRead \in 0 .. MaxStrokes /\ promised \in BOOLEAN
      /\ keyQueue \in Seq(Stroke) /\ Len(keyQueue) <= Capacity
  BY DEF IInv, TypeOK
<1>5. CASE q = << >>
  BY <1>1, <1>3, <1>4, <1>5, PollInv
<1>6. CASE q # << >>
  <2>1. Head(q) \in Stroke /\ Tail(q) \in Seq(Stroke) /\ Len(Tail(q)) = Len(q) - 1
        /\ Len(q) \in Nat
    <3> HIDE DEF q
    <3> QED BY <1>2, <1>6, HeadTailProperties, LenProperties
  <2>2. keyQueue' \in Seq(Stroke) /\ Len(keyQueue') <= Capacity
    BY <1>1, <1>2, <1>6, <2>1, CapacityAssumption DEF CapacityAssumption
  <2>3. Head(q).n \in 0 .. MaxStrokes
    BY <2>1, MaxStrokesAssumption DEF MaxStrokesAssumption, Stroke
  <2>4. lastRead' \in 0 .. MaxStrokes
    BY <1>1, <1>4, <1>6, <2>3
  <2>5. promised' \in BOOLEAN
    BY <1>1, <1>6
  <2> QED BY <1>1, <1>3, <2>2, <2>4, <2>5, PollInv
<1> QED BY <1>5, <1>6

\* Waiting polls and drops leading partial keystrokes.
LEMMA WaitInv == IInv /\ KeypadWaitForKey => IInv'
<1> SUFFICES ASSUME IInv, KeypadWaitForKey PROVE IInv'
  OBVIOUS
<1>1. PICK key \in NextKeys :
        /\ Notify(key)
        /\ keyQueue' = WithoutLeadingPartials(KeysAfter(key))
        /\ promised' = ((promised /\ ~Overflows(key)) \/ keyQueue' # << >>)
  BY DEF KeypadWaitForKey
<1>2. KeysAfter(key) \in Seq(Stroke) /\ Len(KeysAfter(key)) <= Capacity
  BY KeysAfterType DEF IInv
<1>3. keyQueue' \in Seq(Stroke) /\ Len(keyQueue') <= Capacity
  BY <1>1, <1>2, WithoutPartialsType
<1>4. lastRead' \in 0 .. MaxStrokes
  BY DEF KeypadWaitForKey, IInv, TypeOK
<1>5. promised' \in BOOLEAN
  BY <1>1
<1>6. UNCHANGED <<phase, timer, notifyList, node, exposePartial, handler, calls>>
  BY DEF KeypadWaitForKey
<1> QED BY <1>1, <1>3, <1>4, <1>5, <1>6, PollInv

-----------------------------------------------------------------------------
\* Registering adds a node that the list does not have.
LEMMA RegisterInv ==
  ASSUME IInv, NEW h \in Handles, NEW c \in Codes, NEW plain \in BOOLEAN,
         NEW f \in Fns, KeypadRegisterKeyNotify(h, c, plain, f)
  PROVE  IInv'
<1> DEFINE r == [code |-> c, plain |-> plain, fn |-> f]
<1>1. notifyList \in Seq(Handles) /\ Len(notifyList) \in Nat
  BY LenProperties DEF IInv, TypeOK
<1>2. /\ notifyList' \in Seq(Handles) /\ Len(notifyList') = Len(notifyList) + 1
      /\ \A i \in 1 .. Len(notifyList) : notifyList'[i] = notifyList[i]
      /\ notifyList'[Len(notifyList) + 1] = h
  BY <1>1, AppendProperties DEF KeypadRegisterKeyNotify
<1>3. r \in Registration /\ r # NoNode
  BY NoNodeAssumption DEF NoNodeAssumption, Registration
<1>4. /\ node' \in [Handles -> Registration \cup {NoNode}]
      /\ node'[h] # NoNode
      /\ \A g \in Handles \ {h} : node'[g] = node[g]
  BY <1>3 DEF KeypadRegisterKeyNotify, IInv, TypeOK
<1>5. \A i \in 1 .. Len(notifyList) : /\ notifyList[i] # h
                                      /\ notifyList[i] \in Handles
                                      /\ node[notifyList[i]] # NoNode
  BY <1>1, ElementOfSeq DEF KeypadRegisterKeyNotify, IInv, TypeOK, Positions
<1>6. \A i \in Positions(notifyList') : node'[notifyList'[i]] # NoNode
  BY <1>1, <1>2, <1>4, <1>5 DEF Positions
<1>7. NodesDiffer'
  BY <1>1, <1>2, <1>5 DEF Positions, NodesDiffer, IInv
<1>8. UNCHANGED <<phase, timer, keyQueue, notifyQueue, notifyEvent,
                  exposePartial, handler, history>>
  BY DEF KeypadRegisterKeyNotify
<1>9. TypeOK'
  BY <1>2, <1>4, <1>6, <1>8 DEF IInv, TypeOK, history
<1>10. HandlerHasKey' /\ NoLostWakeup'
  BY <1>8 DEF IInv, HandlerHasKey, NoLostWakeup, HandlerIdle
<1> QED BY <1>7, <1>9, <1>10 DEF IInv

\* Unregistering takes out the node and leaves the other ones.
LEMMA UnregisterInv ==
  ASSUME IInv, NEW h \in Handles, KeypadUnregisterKeyNotify(h)
  PROVE  IInv'
<1>1. PICK i \in Positions(notifyList) :
        notifyList[i] = h /\ notifyList' = RemoveEntryList(notifyList, i)
  BY DEF KeypadUnregisterKeyNotify
<1>2. notifyList \in Seq(Handles) /\ Len(notifyList) \in Nat
      /\ i \in 1 .. Len(notifyList)
  BY LenProperties DEF IInv, TypeOK, Positions
<1>3. \A j \in 1 .. Len(notifyList) : notifyList[j] \in Handles
  BY <1>2, ElementOfSeq
<1>4. notifyList' \in [1 .. Len(notifyList) - 1 -> Handles]
  BY <1>1, <1>2, <1>3 DEF RemoveEntryList
<1>5. notifyList' \in Seq(Handles) /\ Len(notifyList') = Len(notifyList) - 1
  <2>1. Len(notifyList) - 1 \in Nat
    BY <1>2
  <2> QED BY <1>4, <2>1, FunctionIsSeq
<1> DEFINE old(j) == IF j < i THEN j ELSE j + 1
<1>6. \A j \in Positions(notifyList') :
        /\ old(j) \in Positions(notifyList) /\ old(j) # i
        /\ notifyList'[j] = notifyList[old(j)]
  BY <1>1, <1>2, <1>5 DEF RemoveEntryList, Positions
<1>7. NodesDiffer'
  <2> SUFFICES ASSUME NEW j \in Positions(notifyList'), NEW k \in Positions(notifyList'),
                      notifyList'[j] = notifyList'[k]
               PROVE  j = k
    BY DEF NodesDiffer
  <2>1. old(j) = old(k)
    BY <1>6 DEF IInv, NodesDiffer
  <2>2. j \in Int /\ k \in Int /\ i \in Int
    BY <1>2, <1>5 DEF Positions
  <2> QED BY <2>1, <2>2
<1>8. /\ node' \in [Handles -> Registration \cup {NoNode}]
      /\ \A g \in Handles \ {h} : node'[g] = node[g]
  BY DEF KeypadUnregisterKeyNotify, IInv, TypeOK
<1>9. \A j \in Positions(notifyList') : node'[notifyList'[j]] # NoNode
  <2> SUFFICES ASSUME NEW j \in Positions(notifyList')
               PROVE  node'[notifyList'[j]] # NoNode
    OBVIOUS
  <2>1. notifyList[old(j)] # h
    BY <1>1, <1>6 DEF IInv, NodesDiffer
  <2>2. notifyList'[j] \in Handles \ {h}
    BY <1>3, <1>6, <2>1 DEF Positions
  <2> QED BY <1>6, <1>8, <2>2 DEF IInv, TypeOK
<1>10. UNCHANGED <<phase, timer, keyQueue, notifyQueue, notifyEvent,
                   exposePartial, handler, history>>
  BY DEF KeypadUnregisterKeyNotify
<1>11. TypeOK'
  BY <1>5, <1>8, <1>9, <1>10 DEF IInv, TypeOK, history
<1>12. HandlerHasKey' /\ NoLostWakeup'
  BY <1>10 DEF IInv, HandlerHasKey, NoLostWakeup, HandlerIdle
<1> QED BY <1>7, <1>11, <1>12 DEF IInv

\* Asking for partial keystrokes touches neither queue.
LEMMA SetStateInv ==
  ASSUME IInv, NEW expose \in BOOLEAN, KeypadSetState(expose)
  PROVE  IInv'
<1>1. TypeOK'
  BY DEF KeypadSetState, history, IInv, TypeOK
<1>2. HandlerHasKey' /\ NodesDiffer' /\ NoLostWakeup'
  BY DEF KeypadSetState, IInv, HandlerHasKey, NodesDiffer, NoLostWakeup, HandlerIdle
<1> QED BY <1>1, <1>2 DEF IInv

-----------------------------------------------------------------------------
\* The node at a position is a handle or the list head.
LEMMA NodeAtType ==
  ASSUME TypeOK, NEW i
  PROVE  NodeAt(i) \in Handles \cup {NoNode}
BY ElementOfSeq DEF TypeOK, NodeAt, Positions

\* What every handler step leaves alone.
LEMMA HandlerFrame ==
  ASSUME IInv,
         UNCHANGED <<phase, timer, keyQueue, notifyList, node, exposePartial,
                     strokes, lastRead, promised>>,
         notifyQueue' \in Seq(Stroke), Len(notifyQueue') <= Capacity,
         notifyEvent' \in BOOLEAN,
         handler' \in [pc : {"idle", "pop", "walk", "call"},
                       key : Stroke \cup {NoKey}, link : Handles \cup {NoNode}],
         calls' \in [Fns -> 0 .. MaxStrokes],
         owed' \subseteq owed,
         HandlerHasKey', NoLostWakeup'
  PROVE  IInv'
<1>1. TypeOK'
  BY DEF IInv, TypeOK
<1>2. NodesDiffer'
  BY DEF IInv, NodesDiffer
<1> QED BY <1>1, <1>2 DEF IInv

\* The notification is dispatched: from here the handler is not idle.
LEMMA DispatchedInv == IInv /\ HandlerDispatched => IInv'
<1> SUFFICES ASSUME IInv, HandlerDispatched PROVE IInv'
  OBVIOUS
<1>1. handler' \in [pc : {"idle", "pop", "walk", "call"},
                    key : Stroke \cup {NoKey}, link : Handles \cup {NoNode}]
      /\ handler'.pc = "pop"
  BY DEF HandlerDispatched, IInv, TypeOK
<1>2. UNCHANGED <<phase, timer, keyQueue, notifyQueue, notifyList, node,
                  exposePartial, history>> /\ notifyEvent' = FALSE
  BY DEF HandlerDispatched
<1>3. HandlerHasKey' /\ NoLostWakeup'
  BY <1>1 DEF HandlerHasKey, NoLostWakeup, HandlerIdle
<1>4. notifyQueue' \in Seq(Stroke) /\ Len(notifyQueue') <= Capacity
      /\ calls' \in [Fns -> 0 .. MaxStrokes]
  BY <1>2 DEF IInv, TypeOK, history
<1> QED BY <1>1, <1>2, <1>3, <1>4, HandlerFrame DEF history

\* The handler goes idle only when it finds the queue empty, in one step with
\* looking.
LEMMA PopsInv == IInv /\ HandlerPops => IInv'
<1> SUFFICES ASSUME IInv, HandlerPops PROVE IInv'
  OBVIOUS
<1>1. UNCHANGED <<phase, timer, keyQueue, notifyList, node, notifyEvent,
                  exposePartial, history>>
  BY DEF HandlerPops
<1>2. notifyQueue \in Seq(Stroke) /\ Len(notifyQueue) <= Capacity
      /\ calls' \in [Fns -> 0 .. MaxStrokes] /\ notifyEvent' \in BOOLEAN
  BY <1>1 DEF IInv, TypeOK, history
<1>3. CASE notifyQueue = << >>
  <2>1. handler' = Drained /\ notifyQueue' = notifyQueue
    BY <1>3 DEF HandlerPops
  <2>2. handler' \in [pc : {"idle", "pop", "walk", "call"},
                      key : Stroke \cup {NoKey}, link : Handles \cup {NoNode}]
    BY <2>1 DEF Drained
  <2>3. HandlerHasKey' /\ NoLostWakeup'
    BY <1>3, <2>1 DEF HandlerHasKey, NoLostWakeup, Drained
  <2> QED BY <1>1, <1>2, <2>1, <2>2, <2>3, HandlerFrame DEF history
<1>4. CASE notifyQueue # << >>
  <2>1. /\ handler' = [pc |-> "walk", key |-> Head(notifyQueue), link |-> NodeAt(1)]
        /\ notifyQueue' = Tail(notifyQueue)
    BY <1>4 DEF HandlerPops
  <2>2. /\ Head(notifyQueue) \in Stroke /\ Tail(notifyQueue) \in Seq(Stroke)
        /\ Len(Tail(notifyQueue)) = Len(notifyQueue) - 1 /\ Len(notifyQueue) \in Nat
    BY <1>2, <1>4, HeadTailProperties, LenProperties
  <2>3. notifyQueue' \in Seq(Stroke) /\ Len(notifyQueue') <= Capacity
    BY <1>2, <2>1, <2>2, CapacityAssumption DEF CapacityAssumption
  <2>4. NodeAt(1) \in Handles \cup {NoNode}
    BY NodeAtType DEF IInv
  <2>5. handler' \in [pc : {"idle", "pop", "walk", "call"},
                      key : Stroke \cup {NoKey}, link : Handles \cup {NoNode}]
    BY <2>1, <2>2, <2>4
  <2>6. HandlerHasKey' /\ NoLostWakeup'
    BY <2>1, <2>2 DEF HandlerHasKey, NoLostWakeup, HandlerIdle
  <2> QED BY <1>1, <1>2, <2>3, <2>5, <2>6, HandlerFrame DEF history
<1> QED BY <1>3, <1>4

\* A step of the walk: the handler keeps its keystroke and does not go idle.
LEMMA WalksInv == IInv /\ HandlerWalks => IInv'
<1> SUFFICES ASSUME IInv, HandlerWalks PROVE IInv'
  OBVIOUS
<1> DEFINE h == handler.link
           key == handler.key
           Places == [pc : {"idle", "pop", "walk", "call"},
                      key : Stroke \cup {NoKey}, link : Handles \cup {NoNode}]
<1>1. /\ UNCHANGED <<phase, timer, keyQueue, notifyQueue, notifyList, node,
                     notifyEvent, exposePartial, strokes, lastRead, promised>>
      /\ handler.pc = "walk"
  BY DEF HandlerWalks
<1>2. /\ handler \in Places /\ key \in Stroke
      /\ notifyQueue' \in Seq(Stroke) /\ Len(notifyQueue') <= Capacity
      /\ calls \in [Fns -> 0 .. MaxStrokes] /\ notifyEvent' \in BOOLEAN
  BY <1>1 DEF IInv, TypeOK, HandlerHasKey
<1>3. NextNode(h) \in Handles \cup {NoNode}
  BY NodeAtType DEF IInv, NextNode
<1>4. handler' \in Places /\ handler'.pc # "idle" /\ handler'.key = key
  BY <1>1, <1>2, <1>3 DEF HandlerWalks
<1>5. HandlerHasKey' /\ NoLostWakeup'
  BY <1>2, <1>4 DEF HandlerHasKey, NoLostWakeup, HandlerIdle
<1>6. calls' \in [Fns -> 0 .. MaxStrokes]
  <2>1. key.n \in 0 .. MaxStrokes
    BY <1>2, MaxStrokesAssumption DEF MaxStrokesAssumption, Stroke
  <2> QED BY <1>2, <2>1 DEF HandlerWalks
<1>7. owed' \subseteq owed
  BY DEF HandlerWalks
<1> QED BY <1>1, <1>2, <1>4, <1>5, <1>6, <1>7, HandlerFrame

\* A called function returns and the walk goes on.
LEMMA ReturnsInv == IInv /\ HandlerReturns => IInv'
<1> SUFFICES ASSUME IInv, HandlerReturns PROVE IInv'
  OBVIOUS
<1> DEFINE Places == [pc : {"idle", "pop", "walk", "call"},
                      key : Stroke \cup {NoKey}, link : Handles \cup {NoNode}]
<1>1. UNCHANGED <<phase, timer, keyQueue, notifyQueue, notifyList, node,
                  notifyEvent, exposePartial, history>>
  BY DEF HandlerReturns
<1>2. /\ handler \in Places /\ handler.key \in Stroke
      /\ notifyQueue' \in Seq(Stroke) /\ Len(notifyQueue') <= Capacity
      /\ calls' \in [Fns -> 0 .. MaxStrokes] /\ notifyEvent' \in BOOLEAN
  BY <1>1 DEF IInv, TypeOK, HandlerHasKey, HandlerReturns, history
<1>3. NextNode(handler.link) \in Handles \cup {NoNode}
  BY NodeAtType DEF IInv, NextNode
<1>4. handler' \in Places /\ handler'.pc = "walk" /\ handler'.key = handler.key
  BY <1>2, <1>3 DEF HandlerReturns
<1>5. HandlerHasKey' /\ NoLostWakeup'
  BY <1>2, <1>4 DEF HandlerHasKey, NoLostWakeup, HandlerIdle
<1> QED BY <1>1, <1>2, <1>4, <1>5, HandlerFrame DEF history

-----------------------------------------------------------------------------
\* Every step, of the driver, of a client or of the handler, keeps IInv.
LEMMA NextInv == IInv /\ [Next]_vars => IInv'
<1> SUFFICES ASSUME IInv, [Next]_vars PROVE IInv'
  OBVIOUS
<1>1. CASE Client
  BY <1>1, StartInv, ResetInv, ReadInv, WaitInv, SetStateInv, RegisterInv,
     UnregisterInv DEF Client
<1>2. CASE KeypadTimerHandler
  BY <1>2, TimerInv
<1>3. CASE Handler
  BY <1>3, DispatchedInv, PopsInv, WalksInv, ReturnsInv DEF Handler
<1>4. CASE UNCHANGED vars
  <2>1. TypeOK'
    BY <1>4 DEF vars, driver, history, IInv, TypeOK
  <2>2. HandlerHasKey' /\ NodesDiffer' /\ NoLostWakeup'
    BY <1>4 DEF vars, driver, history, IInv, HandlerHasKey, NodesDiffer,
                NoLostWakeup, HandlerIdle
  <2> QED BY <2>1, <2>2 DEF IInv
<1> QED BY <1>1, <1>2, <1>3, <1>4 DEF Next

\* IInv is an invariant of the driver.
LEMMA Invariance == Spec => []IInv
BY InitInv, NextInv, PTL DEF Spec

\* Both queues stay within their capacity, every listed node is allocated and
\* every history stays in its bounds.
THEOREM TypeCorrect == Spec => []TypeOK
<1>1. IInv => TypeOK
  BY DEF IInv
<1> QED BY <1>1, Invariance, PTL

\* Whenever a keystroke waits in the notify queue, the handler is signalled or
\* still running: KeyNotifyProcessHandler cannot return with one left behind.
THEOREM NoWakeupLost == Spec => []NoLostWakeup
<1>1. IInv => NoLostWakeup
  BY DEF IInv
<1> QED BY <1>1, Invariance, PTL

-----------------------------------------------------------------------------
(* Keystrokes are read, and calls are made, in the order they were typed.  *)
(* Their numbers are ordered from what a client or a function has had, over *)
(* the keystroke of the running walk, to the queues and to the last one     *)
(* typed.                                                                   *)

KeysInOrder ==
  /\ lastRead <= strokes
  /\ \A i \in Positions(keyQueue) : keyQueue[i].n > lastRead /\ keyQueue[i].n <= strokes
  /\ \A i, j \in Positions(keyQueue) : i < j => keyQueue[i].n < keyQueue[j].n

\* A keystroke stands in the notify queue once for each registration.
NotesInOrder ==
  /\ \A i \in Positions(notifyQueue) : notifyQueue[i].n <= strokes
  /\ \A i, j \in Positions(notifyQueue) : i < j => notifyQueue[i].n <= notifyQueue[j].n

CallsInOrder ==
  \A f \in Fns :
    /\ calls[f] <= strokes
    /\ \A i \in Positions(notifyQueue) : calls[f] <= notifyQueue[i].n
    /\ handler.pc \in {"walk", "call"} => calls[f] <= handler.key.n

WalkInOrder ==
  handler.pc \in {"walk", "call"} =>
    /\ handler.key.n <= strokes
    /\ \A i \in Positions(notifyQueue) : handler.key.n <= notifyQueue[i].n

(* A call is owed for a keystroke that was typed, to a function that is    *)
(* still registered for it: a client that changes the list runs only when  *)
(* nothing is owed.                                                         *)
OwedNodesListed ==
  \A c \in owed :
    /\ c[2] <= strokes
    /\ \A k \in Positions(notifyQueue) : notifyQueue[k].n = c[2] =>
         \E j \in Positions(notifyList) :
           node[notifyList[j]].fn = c[1] /\ IsKeyRegistered(notifyList[j], notifyQueue[k])

\* The function that is being called is not owed the call any more.
CallIsPaid ==
  handler.pc = "call" => <<node[handler.link].fn, handler.key.n>> \notin owed

OrderInv ==
  /\ KeysInOrder /\ WaitForKeyKeepsPromise
  /\ NotesInOrder /\ CallsInOrder /\ WalkInOrder
  /\ OwedCallsArePending /\ OwedNodesListed /\ CallIsPaid

\* What m pushes of key make of queue q: its oldest entries are lost, and what
\* was pushed comes after the rest.
Pushed(p, q, key, m, lost) ==
  /\ Len(p) = Len(q) + m - lost
  /\ Len(q) + m <= Capacity => lost = 0
  /\ m > 0 => lost < Len(q) + m
  /\ \A i \in Positions(p) : p[i] = IF i + lost <= Len(q) THEN q[i + lost] ELSE key

\* PushEfikeyBufTail drops the oldest entries, and only to make room.
LEMMA PushElements ==
  ASSUME NEW S, NEW q \in Seq(S), Len(q) <= Capacity, NEW key \in S, NEW m \in Nat
  PROVE  \E lost \in Nat : Pushed(PushEfikeyBufTail(q, key, m), q, key, m, lost)
<1> USE CapacityAssumption DEF CapacityAssumption
<1> DEFINE all == Len(q) + m
           lost == IF all <= Capacity THEN 0 ELSE all - Capacity
           f == [i \in 1 .. all - lost |-> IF i + lost <= Len(q) THEN q[i + lost] ELSE key]
<1>1. Len(q) \in Nat /\ all \in Nat /\ lost \in Nat /\ all - lost \in 0 .. Capacity
  BY LenProperties
<1>2. ASSUME NEW i \in 1 .. all - lost, i + lost <= Len(q) PROVE q[i + lost] \in S
  <2>1. i + lost \in 1 .. Len(q)
    BY <1>1, <1>2
  <2> QED BY <2>1, ElementOfSeq
<1>3. f \in [1 .. all - lost -> S]
  BY <1>2
<1>4. f \in Seq(S) /\ Len(f) = all - lost
  <2> HIDE DEF f, all, lost
  <2> QED BY <1>1, <1>3, FunctionIsSeq
<1>5. PushEfikeyBufTail(q, key, m) = f
  BY DEF PushEfikeyBufTail
<1>6. \A i \in Positions(f) : f[i] = IF i + lost <= Len(q) THEN q[i + lost] ELSE key
  <2> HIDE DEF lost, all
  <2> QED BY <1>4 DEF Positions
<1>7. /\ Len(f) = Len(q) + m - lost
      /\ Len(q) + m <= Capacity => lost = 0
      /\ m > 0 => lost < Len(q) + m
  <2>1. Len(f) = all - lost
    BY <1>4
  <2> HIDE DEF f
  <2> QED BY <1>1, <2>1
<1>8. Pushed(f, q, key, m, lost)
  <2> HIDE DEF f, lost
  <2> QED BY <1>6, <1>7 DEF Pushed
<1> QED
  <2> HIDE DEF f, lost
  <2> QED BY <1>1, <1>5, <1>8

\* A keystroke that GetKeys reports is one more than those before.
LEMMA NextKeyNumber ==
  ASSUME NEW key \in NextKeys, key # NoKey
  PROVE  key.n = strokes + 1
BY DEF NextKeys

\* The key queue after a poll is still in order, and keeps a promised keystroke
\* unless it overflows.
LEMMA KeysAfterOrder ==
  ASSUME IInv, KeysInOrder, WaitForKeyKeepsPromise, NEW key \in NextKeys
  PROVE  LET q == KeysAfter(key) IN
         /\ \A i \in Positions(q) : /\ q[i] \in Stroke
                                    /\ q[i].n > lastRead
                                    /\ q[i].n <= IF key = NoKey THEN strokes ELSE key.n
         /\ \A i, j \in Positions(q) : i < j => q[i].n < q[j].n
         /\ (promised /\ ~Overflows(key)) => \E i \in Positions(q) : q[i].code # Partial
<1> DEFINE q == KeysAfter(key)
<1> HIDE DEF q
<1>1. /\ keyQueue \in Seq(Stroke) /\ Len(keyQueue) <= Capacity /\ Len(keyQueue) \in Nat
      /\ strokes \in Nat /\ lastRead \in Nat
  BY LenProperties, MaxStrokesAssumption DEF MaxStrokesAssumption, IInv, TypeOK
<1>2. \A i \in Positions(keyQueue) : keyQueue[i] \in Stroke /\ keyQueue[i].n \in Nat
  <2>1. ASSUME NEW i \in Positions(keyQueue) PROVE keyQueue[i] \in Stroke
    BY <1>1, ElementOfSeq DEF Positions
  <2> QED BY <2>1 DEF Stroke
<1>3. CASE ~Accepted(key)
  <2>1. q = keyQueue
    BY <1>3 DEF KeysAfter, q
  <2>2. key # NoKey => key.n = strokes + 1
    BY NextKeyNumber
  <2> QED BY <1>1, <1>2, <2>1, <2>2 DEF KeysInOrder, WaitForKeyKeepsPromise, q
<1>4. CASE Accepted(key)
  <2>1. key # NoKey /\ key \in Stroke /\ key.n = strokes + 1
    BY <1>4, NextKeyNumber, NextKeyType DEF Accepted, IInv, TypeOK
  <2>2. PICK lost \in Nat :
          /\ Len(q) = Len(keyQueue) + 1 - lost
          /\ Len(keyQueue) + 1 <= Capacity => lost = 0
          /\ \A i \in Positions(q) :
               q[i] = IF i + lost <= Len(keyQueue) THEN keyQueue[i + lost] ELSE key
    <3> DEFINE one == 1
    <3>1. q = PushEfikeyBufTail(keyQueue, key, one)
      BY <1>4 DEF KeysAfter, q
    <3>2. one \in Nat /\ one = 1
      OBVIOUS
    <3> HIDE DEF one
    <3>3. \E lost \in Nat : Pushed(PushEfikeyBufTail(keyQueue, key, one), keyQueue, key, one, lost)
      BY <1>1, <2>1, <3>2, PushElements
    <3>4. PICK lost \in Nat : Pushed(q, keyQueue, key, 1, lost)
      BY <3>1, <3>2, <3>3
    <3> QED BY <3>4 DEF Pushed
  <2>3. Len(q) \in Nat
    BY KeysAfterType, LenProperties DEF q, IInv
  <2>4. ASSUME NEW i \in Positions(q)
        PROVE  /\ q[i] \in Stroke /\ q[i].n > lastRead /\ q[i].n <= strokes + 1
               /\ i + lost <= Len(keyQueue) =>
                    i + lost \in Positions(keyQueue) /\ q[i] = keyQueue[i + lost]
               /\ i + lost > Len(keyQueue) => q[i] = key /\ i = Len(q)
    <3>1. i \in Nat /\ i >= 1 /\ i <= Len(q)
      BY <2>3 DEF Positions
    <3>2. CASE i + lost <= Len(keyQueue)
      BY <1>1, <1>2, <2>2, <3>1, <3>2 DEF KeysInOrder, Positions
    <3>3. CASE i + lost > Len(keyQueue)
      BY <1>1, <2>1, <2>2, <3>1, <3>3 DEF KeysInOrder
    <3> QED BY <1>1, <3>1, <3>2, <3>3
  <2>5. ASSUME NEW i \in Positions(q), NEW j \in Positions(q), i < j PROVE q[i].n < q[j].n
    <3>1. i + lost <= Len(keyQueue)
      BY <1>1, <2>2, <2>3, <2>5 DEF Positions
    <3>2. q[i] = keyQueue[i + lost] /\ i + lost \in Positions(keyQueue)
      BY <2>4, <3>1
    <3>3. CASE j + lost <= Len(keyQueue)
      BY <2>3, <2>4, <2>5, <3>2, <3>3 DEF KeysInOrder, Positions
    <3>4. CASE j + lost > Len(keyQueue)
      BY SMTT(30), <1>1, <1>2, <2>1, <2>4, <3>2, <3>4 DEF KeysInOrder
    <3> QED BY <1>1, <2>3, <3>3, <3>4 DEF Positions
  <2>6. ASSUME promised, ~Overflows(key) PROVE \E i \in Positions(q) : q[i].code # Partial
    <3>1. lost = 0 /\ Len(q) = Len(keyQueue) + 1
      BY <1>1, <1>4, <2>2, <2>6, CapacityAssumption DEF Overflows, CapacityAssumption
    <3>2. PICK i \in Positions(keyQueue) : keyQueue[i].code # Partial
      BY <2>6 DEF WaitForKeyKeepsPromise
    <3>3. i \in Positions(q) /\ q[i] = keyQueue[i]
      BY <1>1, <2>2, <3>1 DEF Positions
    <3> QED BY <3>2, <3>3
  <2>7. \A i \in Positions(q) : q[i].n <= IF key = NoKey THEN strokes ELSE key.n
    BY <2>1, <2>4
  <2> QED BY <2>4, <2>5, <2>6, <2>7 DEF q
<1> QED BY <1>3, <1>4

\* The numbers that the order is about are natural.
LEMMA NumbersAreNat ==
  ASSUME IInv
  PROVE  /\ strokes \in Nat /\ lastRead \in Nat
         /\ Len(keyQueue) \in Nat /\ Len(notifyQueue) \in Nat /\ Len(notifyList) \in Nat
         /\ \A i \in Positions(keyQueue) : keyQueue[i] \in Stroke /\ keyQueue[i].n \in Nat
         /\ \A i \in Positions(notifyQueue) : notifyQueue[i] \in Stroke /\ notifyQueue[i].n \in Nat
         /\ handler.pc \in {"walk", "call"} => handler.key.n \in Nat
         /\ \A f \in Fns : calls[f] \in Nat
         /\ \A c \in owed : c[1] \in Fns /\ c[2] \in Nat
<1>1. /\ keyQueue \in Seq(Stroke) /\ notifyQueue \in Seq(Stroke) /\ notifyList \in Seq(Handles)
      /\ strokes \in Nat /\ lastRead \in Nat
      /\ owed \subseteq Fns \X (1 .. MaxStrokes) /\ calls \in [Fns -> 0 .. MaxStrokes]
  BY MaxStrokesAssumption DEF MaxStrokesAssumption, IInv, TypeOK
<1>2. \A x \in Stroke : x.n \in Nat
  BY DEF Stroke
<1>3. ASSUME NEW i \in Positions(keyQueue) PROVE keyQueue[i] \in Stroke
  BY <1>1, ElementOfSeq DEF Positions
<1>4. ASSUME NEW i \in Positions(notifyQueue) PROVE notifyQueue[i] \in Stroke
  BY <1>1, ElementOfSeq DEF Positions
<1>5. handler.pc \in {"walk", "call"} => handler.key.n \in Nat
  BY <1>2 DEF IInv, HandlerHasKey
<1>6. \A c \in owed : c[1] \in Fns /\ c[2] \in Nat
  BY <1>1
<1>7. \A f \in Fns : calls[f] \in Nat
  BY <1>1
<1> QED BY <1>1, <1>2, <1>3, <1>4, <1>5, <1>6, <1>7, LenProperties

\* A keystroke that nobody is registered for changes nothing on the notify side.
LEMMA NobodyNotified ==
  ASSUME IInv, OrderInv, NEW key \in NextKeys, Notify(key),
         ~Accepted(key) \/ Matching(key) = {}
  PROVE  notifyQueue' = notifyQueue /\ owed' = owed
<1> DEFINE m == IF Accepted(key) THEN Matching(key) ELSE {}
<1>1. m = {}
  OBVIOUS
<1>2. Cardinality(m) = 0
  BY <1>1, FS_EmptySet
<1>3. notifyQueue' = notifyQueue
  <2>1. notifyQueue' = PushEfikeyBufTail(notifyQueue, key, Cardinality(m))
    BY DEF Notify
  <2>2. notifyQueue \in Seq(Stroke) /\ Len(notifyQueue) <= Capacity
    BY DEF IInv, TypeOK
  <2> QED BY <1>2, <2>1, <2>2, PushNothing
<1>4. owed' = owed
  <2>1. owed' = {c \in owed \cup {<<node[notifyList[i]].fn, key.n>> : i \in m} :
                   c[2] \in Queued(notifyQueue) => c[2] \in Queued(notifyQueue')}
    BY DEF Notify
  <2> QED BY <1>1, <1>3, <2>1
<1> QED BY <1>3, <1>4

\* The notify queue after a keystroke that somebody is registered for.
LEMMA NotifiedQueue ==
  ASSUME IInv, OrderInv, NEW key \in NextKeys, Notify(key),
         Accepted(key), Matching(key) # {}
  PROVE  /\ key \in Stroke /\ key.n = strokes + 1 /\ strokes' = strokes + 1
         /\ Len(notifyQueue') \in Nat
         /\ \E lost \in Nat :
              \A i \in Positions(notifyQueue') :
                \/ i + lost \in Positions(notifyQueue) /\ notifyQueue'[i] = notifyQueue[i + lost]
                \/ i + lost > Len(notifyQueue) /\ notifyQueue'[i] = key
         /\ key.n \in Queued(notifyQueue')
<1>1. key \in Stroke /\ key.n = strokes + 1 /\ key # NoKey
  BY NextKeyNumber, NextKeyType DEF Accepted, IInv, TypeOK
<1>2. PICK m \in Nat : m = Cardinality(Matching(key)) /\ m > 0
  <2>1. IsFiniteSet(Matching(key)) /\ Cardinality(Matching(key)) \in Nat
    BY MatchingFinite DEF IInv
  <2>2. Cardinality(Matching(key)) # 0
    BY <2>1, FS_EmptySet
  <2> QED BY <2>1, <2>2
<1>3. notifyQueue' = PushEfikeyBufTail(notifyQueue, key, m) /\ strokes' = strokes + 1
  BY <1>1, <1>2 DEF Notify
<1>4. notifyQueue \in Seq(Stroke) /\ Len(notifyQueue) <= Capacity /\ Len(notifyQueue) \in Nat
  BY LenProperties DEF IInv, TypeOK
<1> DEFINE p == PushEfikeyBufTail(notifyQueue, key, m)
<1>5. p \in Seq(Stroke)
  BY <1>1, <1>2, <1>4, PushType
<1>6. \E lost \in Nat : Pushed(p, notifyQueue, key, m, lost)
  BY <1>1, <1>2, <1>4, PushElements
<1>7. p = notifyQueue'
  BY <1>3
<1> HIDE DEF p
<1>8. PICK lost \in Nat :
        /\ Len(p) = Len(notifyQueue) + m - lost
        /\ lost < Len(notifyQueue) + m
        /\ \A i \in Positions(p) :
             p[i] = IF i + lost <= Len(notifyQueue) THEN notifyQueue[i + lost] ELSE key
  BY <1>2, <1>6 DEF Pushed
<1>9. Len(p) \in Nat
  BY <1>5, LenProperties
<1>10. ASSUME NEW i \in Positions(p)
       PROVE  \/ i + lost \in Positions(notifyQueue) /\ p[i] = notifyQueue[i + lost]
              \/ i + lost > Len(notifyQueue) /\ p[i] = key
  BY SMTT(30), <1>4, <1>8, <1>9 DEF Positions
<1>11. Len(p) \in Positions(p) /\ p[Len(p)] = key
  BY <1>2, <1>4, <1>8, <1>9 DEF Positions
<1>12. key.n \in Queued(p)
  BY <1>11 DEF Queued
<1> QED BY <1>1, <1>3, <1>7, <1>9, <1>10, <1>12

\* A poll adds the newest keystroke to the notify queue, if anybody is registered
\* for it, and a call that is owed for each.
LEMMA NotifyOrder ==
  ASSUME IInv, OrderInv, NEW key \in NextKeys, Notify(key),
         UNCHANGED <<notifyList, node, handler, calls>>
  PROVE  /\ NotesInOrder' /\ CallsInOrder' /\ WalkInOrder'
         /\ OwedCallsArePending' /\ OwedNodesListed' /\ CallIsPaid'
<1>1. /\ NotesInOrder /\ CallsInOrder /\ WalkInOrder
      /\ OwedCallsArePending /\ OwedNodesListed /\ CallIsPaid
  BY DEF OrderInv
<1>2. CASE ~Accepted(key) \/ Matching(key) = {}
  <2>1. notifyQueue' = notifyQueue /\ owed' = owed
    BY <1>2, NobodyNotified
  <2>2. strokes' \in Nat /\ strokes' >= strokes
    BY NextKeyNumber, NumbersAreNat DEF Notify
  <2>3. NotesInOrder' /\ CallsInOrder' /\ WalkInOrder'
    BY <1>1, <2>1, <2>2, NumbersAreNat DEF NotesInOrder, CallsInOrder, WalkInOrder
  <2>4. OwedCallsArePending' /\ CallIsPaid'
    BY <1>1, <2>1 DEF OwedCallsArePending, CallIsPaid, IsKeyRegistered
  <2>5. OwedNodesListed'
    BY <1>1, <2>1, <2>2, NumbersAreNat DEF OwedNodesListed, IsKeyRegistered
  <2> QED BY <2>3, <2>4, <2>5
<1>3. CASE Accepted(key) /\ Matching(key) # {}
  <2>1. /\ key \in Stroke /\ key.n = strokes + 1 /\ strokes' = strokes + 1
        /\ Len(notifyQueue') \in Nat
        /\ key.n \in Queued(notifyQueue')
    BY <1>3, NotifiedQueue
  <2>2. PICK lost \in Nat :
          \A i \in Positions(notifyQueue') :
            \/ i + lost \in Positions(notifyQueue) /\ notifyQueue'[i] = notifyQueue[i + lost]
            \/ i + lost > Len(notifyQueue) /\ notifyQueue'[i] = key
    BY <1>3, NotifiedQueue
  <2>3. NotesInOrder'
    <3>1. ASSUME NEW i \in Positions(notifyQueue') PROVE notifyQueue'[i].n <= strokes + 1
      BY SMTT(30), <1>1, <2>1, <2>2, NumbersAreNat DEF NotesInOrder
    <3>2. ASSUME NEW i \in Positions(notifyQueue'), NEW j \in Positions(notifyQueue'), i < j
          PROVE  notifyQueue'[i].n <= notifyQueue'[j].n
      <4>1. CASE notifyQueue'[j] = key
        BY <2>1, <3>1, <4>1
      <4>2. CASE j + lost \in Positions(notifyQueue) /\ notifyQueue'[j] = notifyQueue[j + lost]
        <5>1. i + lost \in Positions(notifyQueue) /\ notifyQueue'[i] = notifyQueue[i + lost]
          BY <2>1, <2>2, <3>2, <4>2, NumbersAreNat DEF Positions
        <5>2. i + lost < j + lost
          BY <2>1, <3>2 DEF Positions
        <5> QED BY <1>1, <4>2, <5>1, <5>2 DEF NotesInOrder
      <4> QED BY <2>2, <4>1, <4>2
    <3> QED BY <2>1, <3>1, <3>2 DEF NotesInOrder
  <2>4. CallsInOrder' /\ WalkInOrder'
    <3>1. ASSUME NEW f \in Fns PROVE calls[f] <= strokes + 1
      BY <1>1, NumbersAreNat DEF CallsInOrder
    <3>2. ASSUME NEW f \in Fns, NEW i \in Positions(notifyQueue')
          PROVE calls[f] <= notifyQueue'[i].n
      BY <1>1, <2>1, <2>2, <3>1 DEF CallsInOrder
    <3>3. CallsInOrder'
      BY <1>1, <2>1, <3>1, <3>2 DEF CallsInOrder
    <3>4. ASSUME handler.pc \in {"walk", "call"}
          PROVE  /\ handler.key.n <= strokes + 1
                 /\ \A i \in Positions(notifyQueue') : handler.key.n <= notifyQueue'[i].n
      <4>1. handler.key.n <= strokes + 1
        BY <1>1, <3>4, NumbersAreNat DEF WalkInOrder
      <4> QED BY <1>1, <2>1, <2>2, <3>4, <4>1 DEF WalkInOrder
    <3> QED BY <2>1, <3>3, <3>4 DEF WalkInOrder
  <2> DEFINE new == {<<node[notifyList[i]].fn, key.n>> : i \in Matching(key)}
  <2>5. \A c \in owed' : /\ c \in owed \/ c \in new
                         /\ c[2] \in Queued(notifyQueue) => c[2] \in Queued(notifyQueue')
    BY <1>3 DEF Notify
  <2>6. \A c \in owed : c[2] <= strokes /\ c[2] \in Nat
    BY <1>1, NumbersAreNat DEF OwedNodesListed
  <2>7. \A c \in new : c[2] = strokes + 1
    BY <2>1
  <2>8. OwedCallsArePending'
    <3> SUFFICES ASSUME NEW c \in owed'
                 PROVE  \/ c[2] \in Queued(notifyQueue')
                        \/ /\ handler.pc \in {"walk", "call"} /\ handler.key.n = c[2]
                           /\ \E i, j \in Positions(notifyList) :
                                /\ notifyList[i] = handler.link /\ i <= j
                                /\ node[notifyList[j]].fn = c[1]
                                /\ IsKeyRegistered(notifyList[j], handler.key)
      BY DEF OwedCallsArePending, IsKeyRegistered
    <3>1. CASE c \in owed
      BY <1>1, <2>5, <3>1 DEF OwedCallsArePending
    <3>2. CASE c \in new
      BY <2>1, <2>7, <3>2
    <3> QED BY <2>5, <3>1, <3>2
  <2>9. OwedNodesListed'
    <3> SUFFICES ASSUME NEW c \in owed'
                 PROVE  /\ c[2] <= strokes + 1
                        /\ \A k \in Positions(notifyQueue') : notifyQueue'[k].n = c[2] =>
                             \E j \in Positions(notifyList) :
                               /\ node[notifyList[j]].fn = c[1]
                               /\ IsKeyRegistered(notifyList[j], notifyQueue'[k])
      BY <2>1 DEF OwedNodesListed, IsKeyRegistered
    <3>1. c[2] <= strokes + 1
      BY <2>5, <2>6, <2>7, NumbersAreNat
    <3>2. ASSUME NEW k \in Positions(notifyQueue'), notifyQueue'[k].n = c[2]
          PROVE  \E j \in Positions(notifyList) :
                   /\ node[notifyList[j]].fn = c[1]
                   /\ IsKeyRegistered(notifyList[j], notifyQueue'[k])
      <4>1. CASE k + lost \in Positions(notifyQueue) /\ notifyQueue'[k] = notifyQueue[k + lost]
        <5>1. c[2] <= strokes
          BY <1>1, <3>2, <4>1 DEF NotesInOrder
        <5>2. c \in owed
          BY <2>5, <2>7, <5>1, NumbersAreNat
        <5> QED BY <1>1, <3>2, <4>1, <5>2 DEF OwedNodesListed
      <4>2. CASE notifyQueue'[k] = key
        <5>1. c \notin owed
          BY <2>1, <2>6, <3>2, <4>2, NumbersAreNat
        <5>2. PICK j \in Matching(key) : c = <<node[notifyList[j]].fn, key.n>>
          BY <2>5, <5>1
        <5> QED BY <4>2, <5>2 DEF Matching
      <4> QED BY <2>2, <4>1, <4>2
    <3> QED BY <3>1, <3>2
  <2>10. CallIsPaid'
    <3> SUFFICES ASSUME handler.pc = "call", <<node[handler.link].fn, handler.key.n>> \in owed'
                 PROVE  FALSE
      BY DEF CallIsPaid
    <3>1. handler.key.n <= strokes /\ handler.key.n \in Nat
      BY <1>1, NumbersAreNat DEF WalkInOrder
    <3>2. <<node[handler.link].fn, handler.key.n>> \in owed
      <4> DEFINE c == <<node[handler.link].fn, handler.key.n>>
      <4>1. c[2] = handler.key.n
        OBVIOUS
      <4> HIDE DEF c
      <4>2. c \in new => FALSE
        BY <2>7, <3>1, <4>1, NumbersAreNat
      <4> QED BY <2>5, <4>2 DEF c
    <3> QED BY <1>1, <3>2 DEF CallIsPaid
  <2> QED BY <2>3, <2>4, <2>8, <2>9, <2>10
<1> QED BY <1>2, <1>3
-----------------------------------------------------------------------------
\* The tail of a queue is the queue from its second entry on.
LEMMA TailElements ==
  ASSUME NEW S, NEW q \in Seq(S), q # << >>
  PROVE  /\ 1 \in Positions(q) /\ Head(q) = q[1]
         /\ Tail(q) \in Seq(S)
         /\ \A i \in Positions(Tail(q)) : i + 1 \in Positions(q) /\ Tail(q)[i] = q[i + 1]
         /\ \A i \in Positions(q) : i > 1 => i - 1 \in Positions(Tail(q)) /\ Tail(q)[i - 1] = q[i]
<1>1. Len(q) \in Nat /\ Len(q) > 0
  BY LenProperties, EmptySeq
<1>2. /\ Tail(q) \in Seq(S) /\ Len(Tail(q)) = Len(q) - 1
      /\ \A i \in 1 .. Len(Tail(q)) : Tail(q)[i] = q[i + 1]
  BY HeadTailProperties
<1>3. Head(q) = q[1]
  BY SMTT(30)
<1> DEFINE t == Tail(q)
<1> HIDE DEF t
<1>4. /\ t \in Seq(S) /\ Len(t) = Len(q) - 1
      /\ \A i \in 1 .. Len(t) : t[i] = q[i + 1]
  BY <1>2 DEF t
<1>5. \A i \in Positions(t) : i + 1 \in Positions(q) /\ t[i] = q[i + 1]
  BY <1>1, <1>4 DEF Positions
<1>6. \A i \in Positions(q) : i > 1 => i - 1 \in Positions(t) /\ t[i - 1] = q[i]
  BY <1>1, <1>4 DEF Positions
<1> QED BY <1>1, <1>3, <1>4, <1>5, <1>6 DEF t, Positions

\* There are n numbers from 1 to n.
LEMMA IntervalSize ==
  ASSUME NEW n \in Nat PROVE IsFiniteSet(1 .. n) /\ Cardinality(1 .. n) = n
<1> DEFINE one == 1
<1>1. one \in Int /\ n \in Int /\ one = 1
  OBVIOUS
<1> HIDE DEF one
<1>2. IsFiniteSet(one .. n) /\ Cardinality(one .. n) = IF one > n THEN 0 ELSE n - one + 1
  BY <1>1, FS_Interval
<1> QED BY <1>1, <1>2

\* The leading partial keystrokes stand at the first positions, with no gap.
LEMMA LeadingPartialsFill ==
  ASSUME NEW q \in Seq(Stroke)
  PROVE  \E k \in 0 .. Len(q) :
           LeadingPartials(q) = 1 .. k /\ k = Cardinality(LeadingPartials(q))
<1> DEFINE s == LeadingPartials(q)
<1>1. Len(q) \in Nat
  BY LenProperties
<1>2. s \subseteq 1 .. Len(q)
  BY DEF LeadingPartials, Positions
<1>3. \A i \in s : 1 .. i \subseteq s
  BY <1>1 DEF LeadingPartials, Positions
<1> HIDE DEF s
<1>4. IsFiniteSet(1 .. Len(q)) /\ Cardinality(1 .. Len(q)) = Len(q)
  BY <1>1, IntervalSize
<1>5. IsFiniteSet(s) /\ Cardinality(s) <= Len(q) /\ Cardinality(s) \in Nat
  BY <1>2, <1>4, FS_Subset, FS_CardinalityType
<1> DEFINE k == Cardinality(s)
<1>6. ASSUME NEW i \in s PROVE i \in 1 .. k
  <2>1. i \in Nat /\ i >= 1 /\ 1 .. i \in SUBSET s
    BY <1>2, <1>3
  <2>2. Cardinality(1 .. i) = i
    BY <2>1, IntervalSize
  <2>3. Cardinality(1 .. i) <= Cardinality(s)
    BY <1>5, <2>1, FS_Subset
  <2> QED BY <1>5, <2>1, <2>2, <2>3
<1> HIDE DEF k
<1>7. k \in Nat /\ k <= Len(q) /\ k = Cardinality(s)
  BY <1>5 DEF k
<1>8. s \in SUBSET (1 .. k) /\ IsFiniteSet(1 .. k) /\ Cardinality(1 .. k) = k
  BY <1>6, <1>7, IntervalSize
<1>9. s = 1 .. k
  BY <1>7, <1>8, FS_Subset
<1> QED BY <1>1, <1>7, <1>9 DEF s

\* What WaitForKey drops are partial keystrokes, and what it leaves begins with
\* one that is not partial.
LEMMA WithoutPartialsElements ==
  ASSUME NEW q \in Seq(Stroke)
  PROVE  \E k \in Nat :
           /\ \A i \in Positions(WithoutLeadingPartials(q)) :
                i + k \in Positions(q) /\ WithoutLeadingPartials(q)[i] = q[i + k]
           /\ \A i \in Positions(q) : q[i].code # Partial =>
                /\ i - k \in Positions(WithoutLeadingPartials(q))
                /\ WithoutLeadingPartials(q)[i - k] = q[i]
           /\ WithoutLeadingPartials(q) # << >> =>
                \E i \in Positions(WithoutLeadingPartials(q)) :
                  WithoutLeadingPartials(q)[i].code # Partial
<1>1. PICK k \in 0 .. Len(q) :
        LeadingPartials(q) = 1 .. k /\ k = Cardinality(LeadingPartials(q))
  BY LeadingPartialsFill
<1>2. Len(q) \in Nat /\ k \in Nat /\ k <= Len(q)
  BY <1>1, LenProperties
<1> DEFINE w == WithoutLeadingPartials(q)
           first == k + 1
<1>3. w = SubSeq(q, first, Len(q)) /\ first \in Int
  <2>1. k = Cardinality(LeadingPartials(q))
    BY <1>1
  <2>2. w = SubSeq(q, Cardinality(LeadingPartials(q)) + 1, Len(q))
    BY DEF WithoutLeadingPartials
  <2> HIDE DEF w
  <2> QED BY <1>2, <2>1, <2>2
<1>4. \A i \in first .. Len(q) : q[i] \in Stroke
  <2>1. ASSUME NEW i \in first .. Len(q) PROVE q[i] \in Stroke
    <3>1. i \in 1 .. Len(q)
      BY <1>2
    <3> QED BY <3>1, ElementOfSeq
  <2> QED BY <2>1
<1> HIDE DEF first, w
<1>5. /\ w \in Seq(Stroke)
      /\ Len(w) = IF first <= Len(q) THEN Len(q) - first + 1 ELSE 0
      /\ \A i \in 1 .. Len(q) - first + 1 : w[i] = q[first + i - 1]
  BY <1>2, <1>3, <1>4, SubSeqProperties
<1>6. first = k + 1
  BY DEF first
<1>7. Len(w) = Len(q) - k
  BY <1>2, <1>5, <1>6
<1>8. \A i \in 1 .. Len(q) - k : w[i] = q[i + k]
  <2>1. ASSUME NEW i \in 1 .. Len(q) - k PROVE w[i] = q[i + k]
    <3>1. i \in 1 .. Len(q) - first + 1 /\ first + i - 1 = i + k
      BY <1>2, <1>6
    <3> QED BY <1>5, <3>1
  <2> QED BY <2>1
<1>9. \A i \in Positions(w) : i + k \in Positions(q) /\ w[i] = q[i + k]
  BY <1>2, <1>7, <1>8 DEF Positions
<1>10. ASSUME NEW i \in Positions(q), q[i].code # Partial
       PROVE  i - k \in Positions(w) /\ w[i - k] = q[i]
  <2>1. i \notin 1 .. k
    <3>1. i \notin LeadingPartials(q)
      BY <1>2, <1>10 DEF LeadingPartials, Positions
    <3> QED BY <1>1, <3>1
  <2>2. i - k \in 1 .. Len(q) - k /\ (i - k) + k = i
    BY <1>2, <2>1 DEF Positions
  <2> QED BY <1>7, <1>8, <2>2 DEF Positions
<1>11. ASSUME w # << >> PROVE \E i \in Positions(w) : w[i].code # Partial
  <2>1. Len(w) # 0
    BY <1>5, <1>11, EmptySeq
  <2>2. k < Len(q) /\ k + 1 \in Positions(q)
    BY <1>2, <1>7, <2>1 DEF Positions
  <2>3. k + 1 \notin LeadingPartials(q)
    BY <1>1, <1>2
  <2>4. q[k + 1].code # Partial
    <3>1. PICK j \in 1 .. k + 1 : q[j].code # Partial
      BY <2>2, <2>3 DEF LeadingPartials
    <3>2. ASSUME j \in 1 .. k PROVE FALSE
      <4>1. j \in LeadingPartials(q)
        BY <1>1, <3>2
      <4>2. q[j].code = Partial
        BY <1>2, <3>2, <4>1 DEF LeadingPartials
      <4> QED BY <3>1, <4>2
    <3>3. j = k + 1
      BY <1>2, <3>2
    <3> QED BY <3>1, <3>3
  <2>5. 1 \in Positions(w) /\ w[1] = q[k + 1]
    <3>1. 1 \in 1 .. Len(q) - k
      BY <1>2, <2>2
    <3>2. w[1] = q[1 + k]
      BY <1>8, <3>1
    <3> QED BY <1>2, <1>7, <3>1, <3>2 DEF Positions
  <2> QED BY <2>4, <2>5
<1> QED BY <1>2, <1>9, <1>10, <1>11 DEF w

\* Nothing is owed to anybody while a client runs.
LEMMA NothingOwed ==
  ASSUME IInv, OrderInv, HandlerIdle, notifyQueue = << >> \/ ~notifyEvent
  PROVE  notifyQueue = << >> /\ owed = {}
<1>1. notifyQueue = << >>
  BY DEF IInv, NoLostWakeup
<1>2. Queued(notifyQueue) = {}
  <2>1. Len(<< >>) = 0
    BY EmptySeq
  <2> QED BY <1>1, <2>1 DEF Queued, Positions
<1>3. handler.pc \notin {"walk", "call"}
  BY DEF HandlerIdle
<1> QED BY <1>1, <1>2, <1>3 DEF OrderInv, OwedCallsArePending

-----------------------------------------------------------------------------
\* The driver is loaded and nothing was typed.
LEMMA InitOrder == Init => OrderInv
<1> SUFFICES ASSUME Init PROVE OrderInv
  OBVIOUS
<1>1. Positions(keyQueue) = {} /\ Positions(notifyQueue) = {}
  <2>1. Len(<< >>) = 0
    BY EmptySeq
  <2> QED BY <2>1 DEF Init, Positions
<1>2. handler.pc = "idle"
  BY DEF Init, Drained
<1>3. owed = {} /\ strokes = 0 /\ lastRead = 0 /\ promised = FALSE
      /\ calls = [f \in Fns |-> 0]
  BY DEF Init
<1> QED BY <1>1, <1>2, <1>3 DEF OrderInv, KeysInOrder, WaitForKeyKeepsPromise, NotesInOrder,
           CallsInOrder, WalkInOrder, OwedCallsArePending, OwedNodesListed, CallIsPaid

\* Emptied queues are in order.
LEMMA EmptiedOrder ==
  ASSUME IInv, OrderInv, keyQueue' = << >>, notifyQueue' = << >>, owed' = {},
         promised' = FALSE, UNCHANGED <<handler, strokes, lastRead, calls>>
  PROVE  OrderInv'
<1>1. Positions(keyQueue') = {} /\ Positions(notifyQueue') = {}
  <2>1. Len(<< >>) = 0
    BY EmptySeq
  <2> QED BY <2>1 DEF Positions
<1>2. KeysInOrder' /\ WaitForKeyKeepsPromise' /\ NotesInOrder' /\ OwedNodesListed'
  BY <1>1 DEF OrderInv, KeysInOrder, WaitForKeyKeepsPromise, NotesInOrder, OwedNodesListed
<1>3. CallsInOrder' /\ WalkInOrder'
  BY <1>1 DEF OrderInv, CallsInOrder, WalkInOrder
<1>4. OwedCallsArePending' /\ CallIsPaid'
  BY DEF OwedCallsArePending, CallIsPaid
<1> QED BY <1>2, <1>3, <1>4 DEF OrderInv

\* Start, a failed start, Stop and a reset empty the queues.
LEMMA EmptyingOrder ==
  ASSUME IInv, OrderInv, Start \/ StartFails \/ Started \/ KeypadEfiReset
  PROVE  OrderInv'
<1>1. CASE Start
  BY <1>1, EmptiedOrder DEF Start, Zeroed
<1>2. CASE StartFails
  BY <1>2, EmptiedOrder DEF StartFails, Zeroed
<1>3. CASE Started
  BY <1>3, EmptiedOrder DEF Started, InitKeypad
<1>4. CASE KeypadEfiReset
  BY <1>4, EmptiedOrder DEF KeypadEfiReset, InitKeypad
<1> QED BY <1>1, <1>2, <1>3, <1>4

\* What is in order stays so when only the driver's other fields change.
LEMMA OrderFrame ==
  ASSUME OrderInv, UNCHANGED <<keyQueue, notifyQueue, notifyList, node, handler, history>>
  PROVE  OrderInv'
<1>1. /\ keyQueue' = keyQueue /\ notifyQueue' = notifyQueue /\ notifyList' = notifyList
      /\ node' = node /\ handler' = handler /\ strokes' = strokes /\ lastRead' = lastRead
      /\ promised' = promised /\ owed' = owed /\ calls' = calls
  BY DEF history
<1>2. KeysInOrder' /\ WaitForKeyKeepsPromise' /\ NotesInOrder' /\ CallsInOrder' /\ WalkInOrder'
  BY <1>1 DEF OrderInv, KeysInOrder, WaitForKeyKeepsPromise, NotesInOrder, CallsInOrder, WalkInOrder
<1>3. OwedCallsArePending' /\ OwedNodesListed' /\ CallIsPaid'
  BY <1>1 DEF OrderInv, OwedCallsArePending, OwedNodesListed, CallIsPaid, IsKeyRegistered
<1> QED BY <1>2, <1>3 DEF OrderInv

\* A stop that gives up, and a change of the partial-key mode, leave the order.
LEMMA StopOrder ==
  ASSUME IInv, OrderInv, Stop \/ (\E expose \in BOOLEAN : KeypadSetState(expose))
  PROVE  OrderInv'
<1>1. CASE Stop
  <2>1. CASE Zeroed
    BY <1>1, <2>1, EmptiedOrder DEF Stop, Zeroed
  <2>2. CASE ~Zeroed
    <3>1. UNCHANGED <<keyQueue, notifyQueue, notifyList, node, handler>>
          /\ UNCHANGED <<strokes, lastRead, promised, owed, calls>>
      BY <1>1, <2>2 DEF Stop
    <3> QED BY <3>1, OrderFrame DEF history
  <2> QED BY <2>1, <2>2
<1>2. CASE \E expose \in BOOLEAN : KeypadSetState(expose)
  BY <1>2, OrderFrame DEF KeypadSetState
<1> QED BY <1>1, <1>2

\* The list of registrations changes only when no call is owed.
LEMMA ListOrder ==
  ASSUME IInv, OrderInv, ClientRuns,
         UNCHANGED <<keyQueue, notifyQueue, handler, history>>
  PROVE  OrderInv'
<1>1. /\ keyQueue' = keyQueue /\ notifyQueue' = notifyQueue
      /\ handler' = handler /\ strokes' = strokes /\ lastRead' = lastRead
      /\ promised' = promised /\ owed' = owed /\ calls' = calls
  BY DEF history
<1>2. owed = {}
  BY NothingOwed DEF ClientRuns
<1>3. KeysInOrder' /\ WaitForKeyKeepsPromise' /\ NotesInOrder' /\ CallsInOrder' /\ WalkInOrder'
  BY <1>1 DEF OrderInv, KeysInOrder, WaitForKeyKeepsPromise, NotesInOrder, CallsInOrder, WalkInOrder
<1>4. OwedCallsArePending' /\ OwedNodesListed' /\ CallIsPaid'
  BY <1>1, <1>2 DEF OwedCallsArePending, OwedNodesListed, CallIsPaid
<1> QED BY <1>3, <1>4 DEF OrderInv

\* The number of the last keystroke after a poll.
LEMMA StrokesAfter ==
  ASSUME IInv, NEW key \in NextKeys, Notify(key)
  PROVE  /\ strokes' = IF key = NoKey THEN strokes ELSE key.n
         /\ strokes' \in Nat /\ strokes' >= strokes
<1>1. strokes' = IF key = NoKey THEN strokes ELSE key.n
  BY DEF Notify
<1> QED BY <1>1, NextKeyNumber, NumbersAreNat

\* A poll by the timer keeps the order.
LEMMA TimerOrder ==
  ASSUME IInv, OrderInv, KeypadTimerHandler PROVE OrderInv'
<1>1. PICK key \in NextKeys :
        /\ keyQueue' = KeysAfter(key) /\ Notify(key)
        /\ promised' = (promised /\ ~Overflows(key))
  BY DEF KeypadTimerHandler
<1>2. UNCHANGED <<notifyList, node, handler, calls>> /\ lastRead' = lastRead
  BY DEF KeypadTimerHandler
<1>3. /\ NotesInOrder' /\ CallsInOrder' /\ WalkInOrder'
      /\ OwedCallsArePending' /\ OwedNodesListed' /\ CallIsPaid'
  BY <1>1, <1>2, NotifyOrder
<1>4. /\ \A i \in Positions(keyQueue') : keyQueue'[i].n > lastRead /\ keyQueue'[i].n <= strokes'
      /\ \A i, j \in Positions(keyQueue') : i < j => keyQueue'[i].n < keyQueue'[j].n
      /\ (promised /\ ~Overflows(key))
        => \E i \in Positions(keyQueue') : keyQueue'[i].code # Partial
  BY <1>1, KeysAfterOrder, StrokesAfter DEF OrderInv
<1>5. lastRead <= strokes'
  BY <1>1, StrokesAfter, NumbersAreNat DEF OrderInv, KeysInOrder
<1>6. KeysInOrder' /\ WaitForKeyKeepsPromise'
  BY <1>1, <1>2, <1>4, <1>5 DEF KeysInOrder, WaitForKeyKeepsPromise
<1> QED BY <1>3, <1>6 DEF OrderInv

\* A read takes the oldest keystroke: those left are younger than what the
\* client has had, and a promised one is not skipped.
LEMMA ReadOrder ==
  ASSUME IInv, OrderInv, NEW ex \in BOOLEAN, KeypadReadKeyStroke(ex) PROVE OrderInv'
<1>1. PICK key \in NextKeys :
        /\ Notify(key)
        /\ IF KeysAfter(key) = << >>
             THEN UNCHANGED <<keyQueue, lastRead, promised>>
             ELSE /\ keyQueue' = Tail(KeysAfter(key))
                  /\ lastRead' = IF ex \/ Head(KeysAfter(key)).code # Partial
                                   THEN Head(KeysAfter(key)).n ELSE lastRead
                  /\ promised' = (promised /\ ~Overflows(key)
                                            /\ Head(KeysAfter(key)).code = Partial)
  BY DEF KeypadReadKeyStroke
<1>2. UNCHANGED <<notifyList, node, handler, calls>>
  BY DEF KeypadReadKeyStroke
<1>3. /\ NotesInOrder' /\ CallsInOrder' /\ WalkInOrder'
      /\ OwedCallsArePending' /\ OwedNodesListed' /\ CallIsPaid'
  BY <1>1, <1>2, NotifyOrder
<1> DEFINE q == KeysAfter(key)
<1>4. /\ \A i \in Positions(q) : q[i] \in Stroke /\ q[i].n > lastRead /\ q[i].n <= strokes'
      /\ \A i, j \in Positions(q) : i < j => q[i].n < q[j].n
      /\ (promised /\ ~Overflows(key)) => \E i \in Positions(q) : q[i].code # Partial
  BY <1>1, KeysAfterOrder, StrokesAfter DEF OrderInv
<1>5. strokes' \in Nat /\ strokes' >= strokes /\ strokes \in Nat /\ lastRead \in Nat
  BY <1>1, StrokesAfter, NumbersAreNat
<1>6. CASE q = << >>
  <2>1. keyQueue' = keyQueue /\ lastRead' = lastRead /\ promised' = promised
    BY <1>1, <1>6
  <2>2. KeysInOrder'
    <3>1. \A i \in Positions(keyQueue) : keyQueue[i].n > lastRead /\ keyQueue[i].n <= strokes'
      BY <1>5, NumbersAreNat DEF OrderInv, KeysInOrder
    <3>2. \A i, j \in Positions(keyQueue) : i < j => keyQueue[i].n < keyQueue[j].n
      BY DEF OrderInv, KeysInOrder
    <3>3. lastRead <= strokes'
      BY <1>5 DEF OrderInv, KeysInOrder
    <3> QED BY <2>1, <3>1, <3>2, <3>3 DEF KeysInOrder
  <2>3. WaitForKeyKeepsPromise'
    BY <2>1 DEF OrderInv, WaitForKeyKeepsPromise
  <2> QED BY <1>3, <2>2, <2>3 DEF OrderInv
<1>7. CASE q # << >>
  <2>1. /\ keyQueue' = Tail(q)
        /\ lastRead' = IF ex \/ Head(q).code # Partial THEN Head(q).n ELSE lastRead
        /\ promised' = (promised /\ ~Overflows(key) /\ Head(q).code = Partial)
    BY <1>1, <1>7
  <2>2. q \in Seq(Stroke)
    BY KeysAfterType DEF IInv
  <2> HIDE DEF q
  <2>3. /\ 1 \in Positions(q) /\ Head(q) = q[1]
        /\ \A i \in Positions(Tail(q)) : i + 1 \in Positions(q) /\ Tail(q)[i] = q[i + 1]
        /\ \A i \in Positions(q) : i > 1 => i - 1 \in Positions(Tail(q)) /\ Tail(q)[i - 1] = q[i]
        /\ Tail(q) \in Seq(Stroke)
    BY <1>7, <2>2, TailElements
  <2>4. Len(q) \in Nat /\ Len(Tail(q)) \in Nat
    BY <2>2, <2>3, LenProperties
  <2>5. \A i \in Positions(q) : q[i].n \in Nat
    BY <1>4 DEF Stroke
  <2>6. /\ lastRead' \in Nat /\ lastRead' <= q[1].n /\ lastRead' <= strokes'
    BY <1>4, <1>5, <2>1, <2>3, <2>5
  <2> DEFINE t == Tail(q)
  <2> HIDE DEF t
  <2>7. \A i \in Positions(t) : i + 1 \in Positions(q) /\ t[i] = q[i + 1] /\ i + 1 > 1 /\ i \in Nat
    BY <2>3, <2>4 DEF Positions, t
  <2>8. ASSUME NEW i \in Positions(t) PROVE t[i].n > lastRead' /\ t[i].n <= strokes'
    <3>1. q[1].n < q[i + 1].n
      BY <1>4, <2>3, <2>7
    <3> QED BY <1>4, <1>5, <2>3, <2>5, <2>6, <2>7, <3>1
  <2>9. ASSUME NEW i \in Positions(t), NEW j \in Positions(t), i < j PROVE t[i].n < t[j].n
    <3>1. i + 1 < j + 1 /\ i + 1 \in Positions(q) /\ j + 1 \in Positions(q)
      BY <2>7, <2>9
    <3> QED BY <1>4, <2>7, <3>1
  <2>10. ASSUME promised' PROVE \E i \in Positions(t) : t[i].code # Partial
    <3>1. promised /\ ~Overflows(key) /\ q[1].code = Partial
      BY <2>1, <2>3, <2>10
    <3>2. PICK i \in Positions(q) : q[i].code # Partial
      BY <1>4, <3>1
    <3>3. i \in Nat /\ i > 1
      BY <2>4, <3>1, <3>2 DEF Positions
    <3>4. i - 1 \in Positions(t) /\ t[i - 1] = q[i]
      BY <2>3, <3>2, <3>3 DEF t
    <3> QED BY <3>2, <3>4
  <2>11. keyQueue' = t
    BY <2>1 DEF t
  <2>12. KeysInOrder'
    BY <2>6, <2>8, <2>9, <2>11 DEF KeysInOrder
  <2>13. WaitForKeyKeepsPromise'
    BY <2>10, <2>11 DEF WaitForKeyKeepsPromise
  <2> QED BY <1>3, <2>12, <2>13 DEF OrderInv
<1> QED BY <1>6, <1>7

\* WaitForKey signals only when a keystroke that is not partial is left.
LEMMA WaitOrder ==
  ASSUME IInv, OrderInv, KeypadWaitForKey PROVE OrderInv'
<1>1. PICK key \in NextKeys :
        /\ Notify(key)
        /\ keyQueue' = WithoutLeadingPartials(KeysAfter(key))
        /\ promised' = ((promised /\ ~Overflows(key)) \/ keyQueue' # << >>)
  BY DEF KeypadWaitForKey
<1>2. UNCHANGED <<notifyList, node, handler, calls>> /\ lastRead' = lastRead
  BY DEF KeypadWaitForKey
<1>3. /\ NotesInOrder' /\ CallsInOrder' /\ WalkInOrder'
      /\ OwedCallsArePending' /\ OwedNodesListed' /\ CallIsPaid'
  BY <1>1, <1>2, NotifyOrder
<1> DEFINE q == KeysAfter(key)
           w == WithoutLeadingPartials(q)
<1>4. /\ \A i \in Positions(q) : q[i] \in Stroke /\ q[i].n > lastRead /\ q[i].n <= strokes'
      /\ \A i, j \in Positions(q) : i < j => q[i].n < q[j].n
      /\ (promised /\ ~Overflows(key)) => \E i \in Positions(q) : q[i].code # Partial
  BY <1>1, KeysAfterOrder, StrokesAfter DEF OrderInv
<1>5. lastRead <= strokes'
  BY <1>1, StrokesAfter, NumbersAreNat DEF OrderInv, KeysInOrder
<1>6. q \in Seq(Stroke)
  BY KeysAfterType DEF IInv
<1>7. keyQueue' = w
  BY <1>1
<1> HIDE DEF q
<1>8. w \in Seq(Stroke) /\ Len(w) \in Nat
  <2>1. keyQueue' \in Seq(Stroke)
    BY WaitInv DEF IInv, TypeOK
  <2> QED BY <1>7, <2>1, LenProperties
<1>9. \E k \in Nat :
        /\ \A i \in Positions(w) : i + k \in Positions(q) /\ w[i] = q[i + k]
        /\ \A i \in Positions(q) : q[i].code # Partial =>
             i - k \in Positions(w) /\ w[i - k] = q[i]
        /\ w # << >> => \E i \in Positions(w) : w[i].code # Partial
  BY <1>6, WithoutPartialsElements
<1> HIDE DEF w
<1>10. PICK k \in Nat :
         /\ \A i \in Positions(w) : i + k \in Positions(q) /\ w[i] = q[i + k]
         /\ \A i \in Positions(q) : q[i].code # Partial =>
              i - k \in Positions(w) /\ w[i - k] = q[i]
         /\ w # << >> => \E i \in Positions(w) : w[i].code # Partial
  BY <1>9
<1>11. \A i \in Positions(w) : w[i].n > lastRead /\ w[i].n <= strokes'
  BY <1>4, <1>10
<1>12. ASSUME NEW i \in Positions(w), NEW j \in Positions(w), i < j PROVE w[i].n < w[j].n
  <2>1. i + k < j + k
    BY <1>8, <1>12 DEF Positions
  <2> QED BY <1>4, <1>10, <2>1
<1>13. KeysInOrder'
  BY <1>2, <1>5, <1>7, <1>11, <1>12 DEF KeysInOrder
<1>14. WaitForKeyKeepsPromise'
  <2>1. ASSUME promised' PROVE \E i \in Positions(w) : w[i].code # Partial
    <3>1. CASE w # << >>
      BY <1>10, <3>1
    <3>2. CASE promised /\ ~Overflows(key)
      BY <1>4, <1>10, <3>2
    <3> QED BY <1>1, <1>7, <2>1, <3>1, <3>2
  <2> QED BY <1>7, <2>1 DEF WaitForKeyKeepsPromise
<1> QED BY <1>3, <1>13, <1>14 DEF OrderInv
\* The handler's own steps leave the key queue alone.
LEMMA KeySideFrame ==
  ASSUME OrderInv, UNCHANGED <<keyQueue, strokes, lastRead, promised>>
  PROVE  KeysInOrder' /\ WaitForKeyKeepsPromise'
BY DEF OrderInv, KeysInOrder, WaitForKeyKeepsPromise

\* A dispatched handler is not in a walk yet.
LEMMA DispatchedOrder ==
  ASSUME IInv, OrderInv, HandlerDispatched PROVE OrderInv'
<1>1. /\ notifyQueue' = notifyQueue /\ notifyList' = notifyList /\ node' = node
      /\ strokes' = strokes /\ owed' = owed /\ calls' = calls
      /\ UNCHANGED <<keyQueue, lastRead, promised>>
  BY DEF HandlerDispatched, history
<1>2. handler.pc = "idle" /\ handler'.pc = "pop"
  BY DEF HandlerDispatched, HandlerIdle, IInv, TypeOK
<1>3. KeysInOrder' /\ WaitForKeyKeepsPromise'
  BY <1>1, KeySideFrame
<1>4. NotesInOrder' /\ CallsInOrder' /\ WalkInOrder'
  BY <1>1, <1>2 DEF OrderInv, NotesInOrder, CallsInOrder, WalkInOrder
<1>5. OwedCallsArePending'
  BY <1>1, <1>2 DEF OrderInv, OwedCallsArePending
<1>6. OwedNodesListed' /\ CallIsPaid'
  BY <1>1, <1>2 DEF OrderInv, OwedNodesListed, CallIsPaid, IsKeyRegistered
<1> QED BY <1>3, <1>4, <1>5, <1>6 DEF OrderInv

\* The keystroke that is taken out of the queue is walked with, from the first
\* node on: whoever is owed a call for it is still ahead.
LEMMA PopsOrder ==
  ASSUME IInv, OrderInv, HandlerPops PROVE OrderInv'
<1>1. /\ notifyList' = notifyList /\ node' = node
      /\ strokes' = strokes /\ owed' = owed /\ calls' = calls
      /\ UNCHANGED <<keyQueue, lastRead, promised>>
  BY DEF HandlerPops, history
<1>2. handler.pc = "pop"
  BY DEF HandlerPops
<1>3. KeysInOrder' /\ WaitForKeyKeepsPromise'
  BY <1>1, KeySideFrame
<1>4. \A c \in owed : c[2] \in Queued(notifyQueue)
  BY <1>2 DEF OrderInv, OwedCallsArePending
<1>5. CASE notifyQueue = << >>
  <2>1. handler' = Drained /\ notifyQueue' = notifyQueue
    BY <1>5 DEF HandlerPops
  <2>2. handler'.pc = "idle"
    BY <2>1 DEF Drained
  <2>3. NotesInOrder' /\ CallsInOrder' /\ WalkInOrder'
    BY <1>1, <2>1, <2>2 DEF OrderInv, NotesInOrder, CallsInOrder, WalkInOrder
  <2>4. OwedCallsArePending'
    BY <1>1, <1>4, <2>1 DEF OwedCallsArePending
  <2>5. OwedNodesListed' /\ CallIsPaid'
    BY <1>1, <2>1, <2>2 DEF OrderInv, OwedNodesListed, CallIsPaid, IsKeyRegistered
  <2> QED BY <1>3, <2>3, <2>4, <2>5 DEF OrderInv
<1>6. CASE notifyQueue # << >>
  <2>1. /\ handler' = [pc |-> "walk", key |-> Head(notifyQueue), link |-> NodeAt(1)]
        /\ notifyQueue' = Tail(notifyQueue)
    BY <1>6 DEF HandlerPops
  <2>2. notifyQueue \in Seq(Stroke)
    BY DEF IInv, TypeOK
  <2> DEFINE t == Tail(notifyQueue)
  <2>3. /\ 1 \in Positions(notifyQueue) /\ Head(notifyQueue) = notifyQueue[1]
        /\ t \in Seq(Stroke)
        /\ \A i \in Positions(t) : i + 1 \in Positions(notifyQueue) /\ t[i] = notifyQueue[i + 1]
        /\ \A i \in Positions(notifyQueue) : i > 1 =>
             i - 1 \in Positions(t) /\ t[i - 1] = notifyQueue[i]
    BY <1>6, <2>2, TailElements
  <2>4. notifyQueue' = t
    BY <2>1
  <2> HIDE DEF t
  <2>5. Len(t) \in Nat
    BY <2>3, LenProperties
  <2>6. \A i \in Positions(t) : i \in Nat /\ i + 1 > 1
    BY <2>5 DEF Positions
  <2>7. handler'.pc = "walk" /\ handler'.key = notifyQueue[1] /\ handler'.link = NodeAt(1)
    BY <2>1, <2>3
  <2>8. NotesInOrder'
    <3>1. \A i \in Positions(t) : t[i].n <= strokes
      BY <2>3 DEF OrderInv, NotesInOrder
    <3>2. ASSUME NEW i \in Positions(t), NEW j \in Positions(t), i < j PROVE t[i].n <= t[j].n
      <4>1. i + 1 < j + 1
        BY <2>6, <3>2
      <4> QED BY <2>3, <4>1 DEF OrderInv, NotesInOrder
    <3> QED BY <1>1, <2>4, <3>1, <3>2 DEF NotesInOrder
  <2>9. \A i \in Positions(t) : notifyQueue[1].n <= t[i].n
    BY <2>3, <2>6 DEF OrderInv, NotesInOrder
  <2>10. WalkInOrder'
    <3>1. notifyQueue[1].n <= strokes
      BY <2>3 DEF OrderInv, NotesInOrder
    <3> QED BY <1>1, <2>4, <2>7, <2>9, <3>1 DEF WalkInOrder
  <2>11. CallsInOrder'
    <3>1. ASSUME NEW f \in Fns
          PROVE  /\ calls[f] <= strokes /\ calls[f] <= notifyQueue[1].n
                 /\ \A i \in Positions(t) : calls[f] <= t[i].n
      BY <2>3 DEF OrderInv, CallsInOrder
    <3> QED BY <1>1, <2>4, <2>7, <3>1 DEF CallsInOrder
  <2>12. OwedCallsArePending'
    <3> SUFFICES ASSUME NEW c \in owed, c[2] \notin Queued(t)
                 PROVE  /\ notifyQueue[1].n = c[2]
                        /\ \E i, j \in Positions(notifyList) :
                             /\ notifyList[i] = NodeAt(1) /\ i <= j
                             /\ node[notifyList[j]].fn = c[1]
                             /\ IsKeyRegistered(notifyList[j], notifyQueue[1])
      BY <1>1, <2>4, <2>7 DEF OwedCallsArePending, IsKeyRegistered
    <3>1. PICK k \in Positions(notifyQueue) : notifyQueue[k].n = c[2]
      BY <1>4 DEF Queued
    <3>2. k \in Nat /\ k >= 1
      BY NumbersAreNat DEF Positions
    <3>3. ~(k > 1)
      <4>1. k > 1 => k - 1 \in Positions(t) /\ t[k - 1].n = c[2]
        BY <2>3, <3>1
      <4> QED BY <4>1 DEF Queued
    <3>4. k = 1
      BY <3>2, <3>3
    <3>5. PICK j \in Positions(notifyList) :
            node[notifyList[j]].fn = c[1] /\ IsKeyRegistered(notifyList[j], notifyQueue[1])
      BY <3>1, <3>4 DEF OrderInv, OwedNodesListed
    <3>6. 1 \in Positions(notifyList) /\ 1 <= j
      BY NumbersAreNat DEF Positions
    <3>7. notifyList[1] = NodeAt(1)
      BY <3>6 DEF NodeAt
    <3> QED BY <3>1, <3>4, <3>5, <3>6, <3>7
  <2>13. OwedNodesListed'
    <3> SUFFICES ASSUME NEW c \in owed
                 PROVE  /\ c[2] <= strokes
                        /\ \A k \in Positions(t) : t[k].n = c[2] =>
                             \E j \in Positions(notifyList) :
                               node[notifyList[j]].fn = c[1] /\ IsKeyRegistered(notifyList[j], t[k])
      BY <1>1, <2>4 DEF OwedNodesListed, IsKeyRegistered
    <3> QED BY <2>3 DEF OrderInv, OwedNodesListed
  <2>14. CallIsPaid'
    BY <2>7 DEF CallIsPaid
  <2> QED BY <1>3, <2>8, <2>10, <2>11, <2>12, <2>13, <2>14 DEF OrderInv
<1> QED BY <1>5, <1>6

\* The node after a listed one.
LEMMA NextOfListed ==
  ASSUME IInv, NEW i \in Positions(notifyList)
  PROVE  NextNode(notifyList[i]) = NodeAt(1 + i)
<1> DEFINE at == CHOOSE j \in Positions(notifyList) : notifyList[j] = notifyList[i]
<1>1. at \in Positions(notifyList) /\ notifyList[at] = notifyList[i]
  OBVIOUS
<1>2. at = i
  BY <1>1 DEF IInv, NodesDiffer
<1> QED BY <1>2 DEF NextNode

\* Whoever is further on in the list than the node just left is still ahead.
LEMMA StillAhead ==
  ASSUME IInv, NEW i \in Positions(notifyList), NEW j \in Positions(notifyList),
         i <= j, i # j
  PROVE  \E k \in Positions(notifyList) :
           notifyList[k] = NextNode(notifyList[i]) /\ k <= j
<1>1. i \in Nat /\ j \in Nat /\ i >= 1 /\ j <= Len(notifyList) /\ Len(notifyList) \in Nat
  BY NumbersAreNat DEF Positions
<1>2. 1 + i \in Positions(notifyList) /\ 1 + i <= j
  BY <1>1 DEF Positions
<1>3. NextNode(notifyList[i]) = notifyList[1 + i]
  BY <1>2, NextOfListed DEF NodeAt
<1> QED BY <1>2, <1>3

\* The walk calls a function, and the call is not owed any more, or it goes on.
LEMMA WalksOrder ==
  ASSUME IInv, OrderInv, HandlerWalks PROVE OrderInv'
<1> DEFINE h == handler.link
           key == handler.key
<1>1. /\ notifyQueue' = notifyQueue /\ notifyList' = notifyList /\ node' = node
      /\ strokes' = strokes
      /\ UNCHANGED <<keyQueue, lastRead, promised>>
  BY DEF HandlerWalks
<1>2. handler.pc = "walk" /\ key \in Stroke /\ key.n \in Nat
  BY NumbersAreNat DEF HandlerWalks, IInv, HandlerHasKey
<1>3. KeysInOrder' /\ WaitForKeyKeepsPromise'
  BY <1>1, KeySideFrame
<1>4. NotesInOrder'
  BY <1>1 DEF OrderInv, NotesInOrder
<1>5. \A c \in owed :
        \/ c[2] \in Queued(notifyQueue)
        \/ /\ key.n = c[2]
           /\ \E i, j \in Positions(notifyList) :
                /\ notifyList[i] = h /\ i <= j
                /\ node[notifyList[j]].fn = c[1]
                /\ IsKeyRegistered(notifyList[j], key)
  BY <1>2 DEF OrderInv, OwedCallsArePending
<1>6. CASE h # NoNode /\ IsKeyRegistered(h, key)
  <2>1. /\ handler' = [handler EXCEPT !.pc = "call"]
        /\ calls' = [calls EXCEPT ![node[h].fn] = key.n]
        /\ owed' = owed \ {<<node[h].fn, key.n>>}
    BY <1>6 DEF HandlerWalks
  <2>2. handler'.pc = "call" /\ handler'.key = key /\ handler'.link = h
    BY <2>1 DEF IInv, TypeOK
  <2>3. WalkInOrder'
    BY <1>1, <1>2, <2>2 DEF OrderInv, WalkInOrder
  <2>4. CallsInOrder'
    <3>1. calls \in [Fns -> 0 .. MaxStrokes]
      BY DEF IInv, TypeOK
    <3>2. \A f \in Fns : calls'[f] = key.n \/ calls'[f] = calls[f]
      BY <2>1, <3>1
    <3>3. key.n <= strokes /\ (\A i \in Positions(notifyQueue) : key.n <= notifyQueue[i].n)
      BY <1>2 DEF OrderInv, WalkInOrder
    <3>4. \A f \in Fns : /\ calls[f] <= strokes /\ calls[f] <= key.n
                         /\ \A i \in Positions(notifyQueue) : calls[f] <= notifyQueue[i].n
      BY <1>2 DEF OrderInv, CallsInOrder
    <3>5. ASSUME NEW f \in Fns
          PROVE  /\ calls'[f] <= strokes /\ calls'[f] <= key.n
                 /\ \A i \in Positions(notifyQueue) : calls'[f] <= notifyQueue[i].n
      BY <1>2, <3>2, <3>3, <3>4
    <3> QED BY <1>1, <2>2, <3>5 DEF CallsInOrder
  <2>5. OwedCallsArePending'
    <3> SUFFICES ASSUME NEW c \in owed
                 PROVE  \/ c[2] \in Queued(notifyQueue)
                        \/ /\ key.n = c[2]
                           /\ \E i, j \in Positions(notifyList) :
                                /\ notifyList[i] = h /\ i <= j
                                /\ node[notifyList[j]].fn = c[1]
                                /\ IsKeyRegistered(notifyList[j], key)
      BY <1>1, <2>1, <2>2 DEF OwedCallsArePending, IsKeyRegistered
    <3> QED BY <1>5
  <2>6. OwedNodesListed'
    BY <1>1, <2>1 DEF OrderInv, OwedNodesListed, IsKeyRegistered
  <2>7. CallIsPaid'
    BY <1>1, <2>1, <2>2 DEF CallIsPaid
  <2> QED BY <1>3, <1>4, <2>3, <2>4, <2>5, <2>6, <2>7 DEF OrderInv
<1>7. CASE ~(h # NoNode /\ IsKeyRegistered(h, key))
  <2>1. /\ handler' = IF h = NoNode THEN [handler EXCEPT !.pc = "pop"]
                                    ELSE [handler EXCEPT !.link = NextNode(h)]
        /\ calls' = calls /\ owed' = owed
    BY <1>7 DEF HandlerWalks
  <2>2. /\ handler'.pc = IF h = NoNode THEN "pop" ELSE "walk"
        /\ handler'.key = key
        /\ h # NoNode => handler'.link = NextNode(h)
    BY <1>2, <2>1 DEF IInv, TypeOK
  <2>3. WalkInOrder'
    BY <1>1, <1>2, <2>2 DEF OrderInv, WalkInOrder
  <2>4. CallsInOrder'
    BY <1>1, <1>2, <2>1, <2>2 DEF OrderInv, CallsInOrder
  <2>5. OwedCallsArePending'
    <3> SUFFICES ASSUME NEW c \in owed, c[2] \notin Queued(notifyQueue)
                 PROVE  /\ h # NoNode /\ key.n = c[2]
                        /\ \E i, j \in Positions(notifyList) :
                             /\ notifyList[i] = NextNode(h) /\ i <= j
                             /\ node[notifyList[j]].fn = c[1]
                             /\ IsKeyRegistered(notifyList[j], key)
      BY <1>1, <2>1, <2>2 DEF OwedCallsArePending, IsKeyRegistered
    <3>1. PICK i \in Positions(notifyList), j \in Positions(notifyList) :
            /\ notifyList[i] = h /\ i <= j
            /\ node[notifyList[j]].fn = c[1]
            /\ IsKeyRegistered(notifyList[j], key)
      BY <1>5
    <3>2. notifyList[i] \in Handles
      BY ListedNode DEF IInv
    <3>3. h # NoNode
      BY <3>1, <3>2, NoNodeAssumption DEF NoNodeAssumption
    <3>4. i # j
      BY <1>7, <3>1, <3>3
    <3>5. PICK k \in Positions(notifyList) : notifyList[k] = NextNode(h) /\ k <= j
      BY <3>1, <3>4, StillAhead
    <3> QED BY <1>5, <3>1, <3>3, <3>5
  <2>6. OwedNodesListed'
    BY <1>1, <2>1 DEF OrderInv, OwedNodesListed, IsKeyRegistered
  <2>7. CallIsPaid'
    BY <2>2 DEF CallIsPaid
  <2> QED BY <1>3, <1>4, <2>3, <2>4, <2>5, <2>6, <2>7 DEF OrderInv
<1> QED BY <1>6, <1>7

\* The function has returned: nothing is owed at its node any more.
LEMMA ReturnsOrder ==
  ASSUME IInv, OrderInv, HandlerReturns PROVE OrderInv'
<1> DEFINE h == handler.link
           key == handler.key
<1>1. /\ notifyQueue' = notifyQueue /\ notifyList' = notifyList /\ node' = node
      /\ strokes' = strokes /\ calls' = calls /\ owed' = owed
      /\ UNCHANGED <<keyQueue, lastRead, promised>>
  BY DEF HandlerReturns, history
<1>2. handler.pc = "call"
  BY DEF HandlerReturns
<1>3. handler'.pc = "walk" /\ handler'.key = key /\ handler'.link = NextNode(h)
  BY DEF HandlerReturns, IInv, TypeOK
<1>4. KeysInOrder' /\ WaitForKeyKeepsPromise'
  BY <1>1, KeySideFrame
<1>5. NotesInOrder' /\ CallsInOrder' /\ WalkInOrder'
  BY <1>1, <1>2, <1>3 DEF OrderInv, NotesInOrder, CallsInOrder, WalkInOrder
<1>6. OwedCallsArePending'
  <2> SUFFICES ASSUME NEW c \in owed, c[2] \notin Queued(notifyQueue)
               PROVE  /\ key.n = c[2]
                      /\ \E i, j \in Positions(notifyList) :
                           /\ notifyList[i] = NextNode(h) /\ i <= j
                           /\ node[notifyList[j]].fn = c[1]
                           /\ IsKeyRegistered(notifyList[j], key)
    BY <1>1, <1>3 DEF OwedCallsArePending, IsKeyRegistered
  <2>1. PICK i \in Positions(notifyList), j \in Positions(notifyList) :
          /\ notifyList[i] = h /\ i <= j
          /\ node[notifyList[j]].fn = c[1]
          /\ IsKeyRegistered(notifyList[j], key)
    BY <1>2 DEF OrderInv, OwedCallsArePending
  <2>2. key.n = c[2]
    BY <1>2 DEF OrderInv, OwedCallsArePending
  <2>3. c = <<c[1], c[2]>>
    BY DEF IInv, TypeOK
  <2>4. i # j
    BY <1>2, <2>1, <2>2, <2>3 DEF OrderInv, CallIsPaid
  <2>5. PICK k \in Positions(notifyList) : notifyList[k] = NextNode(h) /\ k <= j
    BY <2>1, <2>4, StillAhead
  <2> QED BY <2>1, <2>2, <2>5
<1>7. OwedNodesListed' /\ CallIsPaid'
  BY <1>1, <1>3 DEF OrderInv, OwedNodesListed, CallIsPaid, IsKeyRegistered
<1> QED BY <1>4, <1>5, <1>6, <1>7 DEF OrderInv

\* Every step of the driver keeps the order.
LEMMA NextOrder == IInv /\ OrderInv /\ [Next]_vars => OrderInv'
<1> SUFFICES ASSUME IInv, OrderInv, [Next]_vars PROVE OrderInv'
  OBVIOUS
<1>1. CASE Start \/ StartFails \/ Started \/ KeypadEfiReset
  BY <1>1, EmptyingOrder
<1>2. CASE Stop \/ (\E expose \in BOOLEAN : KeypadSetState(expose))
  BY <1>2, StopOrder
<1>3. CASE \E ex \in BOOLEAN : KeypadReadKeyStroke(ex)
  BY <1>3, ReadOrder
<1>4. CASE KeypadWaitForKey
  BY <1>4, WaitOrder
<1>5. CASE \E h \in Handles, c \in Codes, plain \in BOOLEAN, f \in Fns :
             KeypadRegisterKeyNotify(h, c, plain, f)
  BY <1>5, ListOrder DEF KeypadRegisterKeyNotify
<1>6. CASE \E h \in Handles : KeypadUnregisterKeyNotify(h)
  BY <1>6, ListOrder DEF KeypadUnregisterKeyNotify
<1>7. CASE KeypadTimerHandler
  BY <1>7, TimerOrder
<1>8. CASE Handler
  BY <1>8, DispatchedOrder, PopsOrder, WalksOrder, ReturnsOrder DEF Handler
<1>9. CASE UNCHANGED vars
  BY <1>9, OrderFrame DEF vars, driver
<1> QED BY <1>1, <1>2, <1>3, <1>4, <1>5, <1>6, <1>7, <1>8, <1>9 DEF Next, Client

\* The order is an invariant of the driver, on top of its types.
LEMMA OrderKept == Spec => []OrderInv
<1>1. Init => OrderInv
  BY InitOrder
<1>2. IInv /\ OrderInv /\ [Next]_vars => OrderInv'
  BY NextOrder
<1> QED BY <1>1, <1>2, Invariance, PTL DEF Spec

\* Whoever asked for a keystroke gets it, for every queue size, set of clients
\* and list of registrations: a call is owed to nobody that the queue or the walk
\* has passed, reads come in the order of typing, and WaitForKey is not signalled
\* for a keystroke that is gone.
THEOREM KeysReachAll == Spec => []KeysReachClients
<1>1. OrderInv => KeysReachClients
  BY DEF OrderInv, KeysReachClients, KeysInOrder, ReadInOrder
<1> QED BY <1>1, OrderKept, PTL

\* A step only ever calls a function with a keystroke that is not older than the
\* one it was called with before.
LEMMA CallsGoUp ==
  IInv /\ OrderInv /\ [Next]_vars => [\A f \in Fns : calls'[f] >= calls[f]]_vars
<1> SUFFICES ASSUME IInv, OrderInv, Next, NEW f \in Fns PROVE calls'[f] >= calls[f]
  OBVIOUS
<1>1. calls[f] \in Nat
  BY NumbersAreNat
<1>2. CASE HandlerWalks
  <2>1. calls[f] <= handler.key.n /\ handler.key.n \in Nat
    BY <1>2, NumbersAreNat DEF HandlerWalks, OrderInv, CallsInOrder
  <2>2. calls'[f] = handler.key.n \/ calls'[f] = calls[f]
    <3>1. calls \in [Fns -> 0 .. MaxStrokes]
      BY DEF IInv, TypeOK
    <3>2. calls' = calls \/ calls' = [calls EXCEPT ![node[handler.link].fn] = handler.key.n]
      BY <1>2 DEF HandlerWalks
    <3> QED BY <3>1, <3>2
  <2> QED BY <1>1, <2>1, <2>2
<1>3. CASE ~HandlerWalks
  <2>1. calls' = calls
    BY <1>3 DEF Next, Client, Handler, Start, Started, StartFails, Stop, KeypadReadKeyStroke,
       KeypadWaitForKey, KeypadEfiReset, KeypadSetState, KeypadRegisterKeyNotify,
       KeypadUnregisterKeyNotify, KeypadTimerHandler, HandlerDispatched, HandlerPops,
       HandlerReturns, history
  <2> QED BY <1>1, <2>1
<1> QED BY <1>2, <1>3

\* A function hears of keystrokes in the order they were typed, whatever polls
\* come between the steps of KeyNotifyProcessHandler.
THEOREM CallsComeInOrder == Spec => NotifiedInOrder
<1>1. IInv /\ OrderInv /\ [Next]_vars => [\A f \in Fns : calls'[f] >= calls[f]]_vars
  BY CallsGoUp
<1> QED BY <1>1, Invariance, OrderKept, PTL DEF Spec, NotifiedInOrder
=============================================================================
