----------------------------- MODULE KeypadDxe -----------------------------
(***************************************************************************)
(* KeypadDxe: the driver that polls the keypad, queues the keystrokes for  *)
(* the console and calls the functions registered for a key.               *)
(*                                                                         *)
(* Everything that touches the two queues runs at TPL_NOTIFY and is one    *)
(* step.  KeyNotifyProcessHandler runs at TPL_CALLBACK: it takes a         *)
(* keystroke at TPL_NOTIFY but walks the list and calls the functions with *)
(* the lock released, so a poll may come between any two of its steps.     *)
(* The console's own calls are made at TPL_APPLICATION and so never while  *)
(* the handler runs or is still to run.                                    *)
(*                                                                         *)
(* GetKeys is the external KEYPAD_DEVICE_PROTOCOL: a poll yields at most   *)
(* one keystroke here (a longer batch is the same polls in a row).         *)
(* KeypadErr stays FALSE: nothing calls KeypadError.                       *)
(***************************************************************************)
EXTENDS Naturals, Sequences, FiniteSets

CONSTANTS Codes,       \* scan code/character pairs a device reports
          Partial,     \* SCAN_NULL with CHAR_NULL
          Fns,         \* notification functions of the clients
          Handles,     \* addresses of list nodes
          Capacity,    \* KEYPAD_EFI_KEY_MAX_COUNT - 1
          MaxStrokes,  \* bound: keystrokes in a behaviour
          NoNode,      \* the list head, where a walk ends
          NoKey        \* no keystroke

\* A keystroke: what the device reported, and its number for the histories.
Stroke == [code : Codes \cup {Partial}, n : 1 .. MaxStrokes]

\* A node of the notify list: the keystroke and the function registered for it.
Registration == [code : Codes, plain : BOOLEAN, fn : Fns]

ASSUME CapacityAssumption == Capacity \in Nat \ {0}
ASSUME MaxStrokesAssumption == MaxStrokes \in Nat
ASSUME NoNodeAssumption == NoNode \notin Handles \cup Registration
ASSUME PartialAssumption == Partial \notin Codes

VARIABLES phase,         \* how far Start got: "stopped", "starting", "running"
          timer,         \* TimerEvent is armed
          keyQueue,      \* EfiKeyQueue
          notifyQueue,   \* EfiKeyQueueForNotify
          notifyList,    \* NotifyList, as the sequence of its nodes' addresses
          node,          \* contents of the allocated nodes
          notifyEvent,   \* KeyNotifyProcessEvent is signalled, not dispatched
          exposePartial, \* IsSupportPartialKey
          handler,       \* KeyNotifyProcessHandler: where it is, with what
          strokes,       \* history: keystrokes reported so far
          lastRead,      \* history: number of the last keystroke read
          promised,      \* history: WaitForKey was signalled, key not yet read
          owed,          \* history: calls that are still to be made
          calls          \* history: last keystroke each function was called with

driver == <<phase, timer, keyQueue, notifyQueue, notifyList, node,
            notifyEvent, exposePartial, handler>>
history == <<strokes, lastRead, promised, owed, calls>>
vars == <<driver, history>>

\* What one call of GetKeys may report.
NextKeys ==
  {NoKey} \cup (IF strokes < MaxStrokes
                  THEN [code : Codes \cup {Partial}, n : {strokes + 1}] ELSE {})

\* Mutant: a full queue grows instead of dropping its oldest entry.
PushEfikeyBufTailGrows(q, key, m) == q \o [i \in 1 .. m |-> key]

\* m calls of PushEfikeyBufTail with one keystroke, on a queue that keeps the
\* newest Capacity of its entries (KeyFifo).
PushEfikeyBufTail(q, key, m) ==
  LET all == Len(q) + m
      lost == IF all <= Capacity THEN 0 ELSE all - Capacity
  IN  [i \in 1 .. all - lost |-> IF i + lost <= Len(q) THEN q[i + lost] ELSE key]

\* IsKeyRegistered: the device reports no shift or toggle state, so a node that
\* asks for one (plain = FALSE) matches no keystroke.
IsKeyRegistered(h, key) == node[h].plain /\ node[h].code = key.code

Positions(list) == 1 .. Len(list)
Matching(key) ==
  {i \in Positions(notifyList) : IsKeyRegistered(notifyList[i], key)}
Queued(q) == {q[i].n : i \in Positions(q)}

\* The partial keystrokes are dropped unless a client asked for them.
Accepted(key) == key # NoKey /\ (key.code = Partial => exposePartial)

\* KeypadReturnApiPushEfikeyBufTail: one entry of the key queue ...
KeysAfter(key) ==
  IF Accepted(key) THEN PushEfikeyBufTail(keyQueue, key, 1) ELSE keyQueue

\* Mutant: the event is not signalled.
NotifyUnsignalled(key) ==
  LET m == IF Accepted(key) THEN Matching(key) ELSE {}
      new == {<<node[notifyList[i]].fn, key.n>> : i \in m}
  IN  /\ notifyQueue' = PushEfikeyBufTail(notifyQueue, key, Cardinality(m))
      /\ notifyEvent' = notifyEvent
      /\ strokes' = IF key = NoKey THEN strokes ELSE key.n
      /\ owed' = {c \in owed \cup new :
                    c[2] \in Queued(notifyQueue) => c[2] \in Queued(notifyQueue')}

\* ... and one entry of the notify queue, with a signal, for every matching
\* registration.  A keystroke that falls out of the full notify queue is owed
\* to nobody any more.
Notify(key) ==
  LET m == IF Accepted(key) THEN Matching(key) ELSE {}
      new == {<<node[notifyList[i]].fn, key.n>> : i \in m}
  IN  /\ notifyQueue' = PushEfikeyBufTail(notifyQueue, key, Cardinality(m))
      /\ notifyEvent' = (notifyEvent \/ m # {})
      /\ strokes' = IF key = NoKey THEN strokes ELSE key.n
      /\ owed' = {c \in owed \cup new :
                    c[2] \in Queued(notifyQueue) => c[2] \in Queued(notifyQueue')}

\* A keystroke pushed into a full queue costs the oldest one.
Overflows(key) == Accepted(key) /\ Len(keyQueue) = Capacity

----------------------------------------------------------------------------
\* The handler runs at TPL_CALLBACK, clients at TPL_APPLICATION: a signalled
\* event is dispatched before a client gets on.
Drained == [pc |-> "idle", key |-> NoKey, link |-> NoNode]
HandlerIdle == handler.pc = "idle"
ClientRuns == phase = "running" /\ HandlerIdle /\ ~notifyEvent

\* AllocateZeroPool, and what Stop leaves behind.
Zeroed ==
  /\ keyQueue' = << >> /\ notifyQueue' = << >> /\ notifyList' = << >>
  /\ node' = [h \in Handles |-> NoNode]
  /\ notifyEvent' = FALSE /\ exposePartial' = FALSE
  /\ promised' = FALSE /\ owed' = {}

\* KeypadControllerDriverStart, up to the armed timer.
Start ==
  /\ phase = "stopped"
  /\ phase' = "starting" /\ timer' = TRUE
  /\ Zeroed
  /\ UNCHANGED <<handler, strokes, lastRead, calls>>

\* InitKeypad, called by KeypadEfiReset
InitKeypad ==
  /\ keyQueue' = << >> /\ notifyQueue' = << >>
  /\ exposePartial' = FALSE
  /\ promised' = FALSE /\ owed' = {}

\* The rest of Start: reset, then the protocols are installed.
Started ==
  /\ phase = "starting"
  /\ phase' = "running"
  /\ InitKeypad
  /\ UNCHANGED <<timer, notifyList, node, notifyEvent, handler,
                 strokes, lastRead, calls>>

\* ErrorExit of Start.
StartFails ==
  /\ phase = "starting"
  /\ phase' = "stopped" /\ timer' = FALSE
  /\ Zeroed
  /\ UNCHANGED <<handler, strokes, lastRead, calls>>

\* KeypadControllerDriverStop: the timer is closed first; when the protocols
\* cannot be uninstalled, Stop gives up there.
Stop ==
  /\ ClientRuns
  /\ timer' = FALSE
  /\ \/ phase' = "stopped" /\ Zeroed
     \/ UNCHANGED <<phase, keyQueue, notifyQueue, notifyList, node,
                    notifyEvent, exposePartial, promised, owed>>
  /\ UNCHANGED <<handler, strokes, lastRead, calls>>

\* KeypadTimerHandler, from the timer (which is at TPL_CALLBACK as well) or
\* from a notification function that polls.
KeypadTimerHandler ==
  /\ phase # "stopped"
  /\ (timer /\ HandlerIdle) \/ handler.pc = "call"
  /\ \E key \in NextKeys :
       /\ keyQueue' = KeysAfter(key)
       /\ Notify(key)
       /\ promised' = (promised /\ ~Overflows(key))
  /\ UNCHANGED <<phase, timer, notifyList, node, exposePartial, handler,
                 lastRead, calls>>

\* KeypadReadKeyStrokeWorker: poll and pop in one critical section.  Ex hands
\* out partial keystrokes; KeypadReadKeyStroke skips one and goes round again.
KeypadReadKeyStroke(ex) ==
  /\ ClientRuns
  /\ \E key \in NextKeys :
       LET q == KeysAfter(key) IN
       /\ Notify(key)
       /\ IF q = << >>
            THEN UNCHANGED <<keyQueue, lastRead, promised>>
            ELSE LET returned == ex \/ Head(q).code # Partial IN
                 /\ keyQueue' = Tail(q)
                 /\ lastRead' = IF returned THEN Head(q).n ELSE lastRead
                 /\ promised' = (promised /\ ~Overflows(key)
                                          /\ Head(q).code = Partial)
  /\ UNCHANGED <<phase, timer, notifyList, node, exposePartial, handler, calls>>

\* KeypadWaitForKey: poll, drop leading partial keystrokes, signal the caller's
\* event if a keystroke is left.
LeadingPartials(q) ==
  {i \in Positions(q) : \A j \in 1 .. i : q[j].code = Partial}

WithoutLeadingPartials(q) ==
  SubSeq(q, Cardinality(LeadingPartials(q)) + 1, Len(q))

KeypadWaitForKey ==
  /\ ClientRuns \/ handler.pc = "call"
  /\ \E key \in NextKeys :
       /\ Notify(key)
       /\ keyQueue' = WithoutLeadingPartials(KeysAfter(key))
       /\ promised' = ((promised /\ ~Overflows(key)) \/ keyQueue' # << >>)
  /\ UNCHANGED <<phase, timer, notifyList, node, exposePartial, handler,
                 lastRead, calls>>

KeypadEfiReset ==
  /\ ClientRuns
  /\ InitKeypad
  /\ UNCHANGED <<phase, timer, notifyList, node, notifyEvent, handler,
                 strokes, lastRead, calls>>

KeypadSetState(expose) ==
  /\ ClientRuns
  /\ exposePartial' = expose
  /\ UNCHANGED <<phase, timer, keyQueue, notifyQueue, notifyList, node,
                 notifyEvent, handler, history>>

\* KeypadRegisterKeyNotify: a function already registered for the keystroke
\* gets its old handle back, anything else a new node at the tail.
AlreadyRegistered(c, plain, f) ==
  \E i \in Positions(notifyList) :
    LET r == node[notifyList[i]]
    IN  r.code = c /\ r.fn = f /\ (r.plain \/ ~plain)

KeypadRegisterKeyNotify(h, c, plain, f) ==
  /\ ClientRuns
  /\ ~AlreadyRegistered(c, plain, f)
  /\ h \notin {notifyList[i] : i \in Positions(notifyList)}
  /\ node' = [node EXCEPT ![h] = [code |-> c, plain |-> plain, fn |-> f]]
  /\ notifyList' = Append(notifyList, h)
  /\ UNCHANGED <<phase, timer, keyQueue, notifyQueue, notifyEvent,
                 exposePartial, handler, history>>

RemoveEntryList(list, i) ==
  [j \in 1 .. Len(list) - 1 |-> IF j < i THEN list[j] ELSE list[j + 1]]

KeypadUnregisterKeyNotify(h) ==
  /\ ClientRuns
  /\ \E i \in Positions(notifyList) :
       /\ notifyList[i] = h
       /\ notifyList' = RemoveEntryList(notifyList, i)
  /\ node' = [node EXCEPT ![h] = NoNode]
  /\ UNCHANGED <<phase, timer, keyQueue, notifyQueue, notifyEvent,
                 exposePartial, handler, history>>

----------------------------------------------------------------------------
\* KeyNotifyProcessHandler, step by step.

HandlerDispatched ==
  /\ HandlerIdle /\ notifyEvent
  /\ notifyEvent' = FALSE
  /\ handler' = [handler EXCEPT !.pc = "pop"]
  /\ UNCHANGED <<phase, timer, keyQueue, notifyQueue, notifyList, node,
                 exposePartial, history>>

NodeAt(i) == IF i \in Positions(notifyList) THEN notifyList[i] ELSE NoNode

\* Mutant: the newest keystroke is taken first.
HandlerPopsNewest ==
  /\ handler.pc = "pop"
  /\ LET last == Len(notifyQueue) IN
     IF notifyQueue = << >>
       THEN handler' = Drained /\ UNCHANGED notifyQueue
       ELSE /\ handler' = [pc |-> "walk", key |-> notifyQueue[last],
                           link |-> NodeAt(1)]
            /\ notifyQueue' = SubSeq(notifyQueue, 1, last - 1)
  /\ UNCHANGED <<phase, timer, keyQueue, notifyList, node, notifyEvent,
                 exposePartial, history>>

HandlerPops ==
  /\ handler.pc = "pop"
  /\ IF notifyQueue = << >>
       THEN handler' = Drained /\ UNCHANGED notifyQueue
       ELSE /\ handler' = [pc |-> "walk", key |-> Head(notifyQueue),
                           link |-> NodeAt(1)]
            /\ notifyQueue' = Tail(notifyQueue)
  /\ UNCHANGED <<phase, timer, keyQueue, notifyList, node, notifyEvent,
                 exposePartial, history>>

\* Mutant: the walk ends at the first node.
NextNodeNone(h) == NoNode

NextNode(h) ==
  NodeAt(1 + CHOOSE i \in Positions(notifyList) : notifyList[i] = h)

\* The walk looks at a node: its function is called, or it is passed over.
HandlerWalks ==
  /\ handler.pc = "walk"
  /\ LET h == handler.link
         key == handler.key IN
     IF h # NoNode /\ IsKeyRegistered(h, key)
       THEN /\ handler' = [handler EXCEPT !.pc = "call"]
            /\ calls' = [calls EXCEPT ![node[h].fn] = key.n]
            /\ owed' = owed \ {<<node[h].fn, key.n>>}
       ELSE /\ handler' = IF h = NoNode
                            THEN [handler EXCEPT !.pc = "pop"]
                            ELSE [handler EXCEPT !.link = NextNode(h)]
            /\ UNCHANGED <<calls, owed>>
  /\ UNCHANGED <<phase, timer, keyQueue, notifyQueue, notifyList, node,
                 notifyEvent, exposePartial, strokes, lastRead, promised>>

\* Mutant: only the first matching function is called.
HandlerReturnsBreak ==
  /\ handler.pc = "call"
  /\ handler' = [handler EXCEPT !.pc = "pop"]
  /\ UNCHANGED <<phase, timer, keyQueue, notifyQueue, notifyList, node,
                 notifyEvent, exposePartial, history>>

HandlerReturns ==
  /\ handler.pc = "call"
  /\ handler' = [handler EXCEPT !.pc = "walk", !.link = NextNode(handler.link)]
  /\ UNCHANGED <<phase, timer, keyQueue, notifyQueue, notifyList, node,
                 notifyEvent, exposePartial, history>>

Handler == HandlerDispatched \/ HandlerPops \/ HandlerWalks \/ HandlerReturns

Client ==
  \/ Start \/ Started \/ StartFails \/ Stop
  \/ \E ex \in BOOLEAN : KeypadReadKeyStroke(ex)
  \/ KeypadWaitForKey \/ KeypadEfiReset
  \/ \E expose \in BOOLEAN : KeypadSetState(expose)
  \/ \E h \in Handles, c \in Codes, plain \in BOOLEAN, f \in Fns :
       KeypadRegisterKeyNotify(h, c, plain, f)
  \/ \E h \in Handles : KeypadUnregisterKeyNotify(h)

Next == Client \/ KeypadTimerHandler \/ Handler

Init ==
  /\ phase = "stopped" /\ timer = FALSE
  /\ keyQueue = << >> /\ notifyQueue = << >> /\ notifyList = << >>
  /\ node = [h \in Handles |-> NoNode]
  /\ notifyEvent = FALSE /\ exposePartial = FALSE
  /\ handler = Drained
  /\ strokes = 0 /\ lastRead = 0 /\ promised = FALSE
  /\ owed = {} /\ calls = [f \in Fns |-> 0]

Spec == Init /\ [][Next]_vars

\* A dispatched event notification runs to its end, and so do the functions it
\* calls.
FairSpec == Spec /\ WF_vars(Handler)
-----------------------------------------------------------------------------
TypeOK ==
  /\ phase \in {"stopped", "starting", "running"} /\ timer \in BOOLEAN
  /\ keyQueue \in Seq(Stroke) /\ Len(keyQueue) <= Capacity
  /\ notifyQueue \in Seq(Stroke) /\ Len(notifyQueue) <= Capacity
  /\ notifyList \in Seq(Handles)
  /\ node \in [Handles -> Registration \cup {NoNode}]
  /\ \A i \in Positions(notifyList) : node[notifyList[i]] # NoNode
  /\ notifyEvent \in BOOLEAN /\ exposePartial \in BOOLEAN
  /\ handler \in [pc : {"idle", "pop", "walk", "call"},
                  key : Stroke \cup {NoKey}, link : Handles \cup {NoNode}]
  /\ strokes \in 0 .. MaxStrokes /\ lastRead \in 0 .. MaxStrokes
  /\ promised \in BOOLEAN
  /\ owed \subseteq Fns \X (1 .. MaxStrokes)
  /\ calls \in [Fns -> 0 .. MaxStrokes]

\* No lost wakeup: keystrokes wait for notification only while the handler is
\* signalled or running, even if they come while it is on its way out.
NoLostWakeup == notifyQueue # << >> => notifyEvent \/ ~HandlerIdle

\* A function registered for a keystroke that was typed is called with it, or
\* the keystroke is still queued, or the walk has yet to reach its node: a poll
\* in the middle of a walk costs nobody a call.
OwedCallsArePending ==
  \A c \in owed :
    \/ c[2] \in Queued(notifyQueue)
    \/ /\ handler.pc \in {"walk", "call"} /\ handler.key.n = c[2]
       /\ \E i, j \in Positions(notifyList) :
            /\ notifyList[i] = handler.link /\ i <= j
            /\ node[notifyList[j]].fn = c[1]
            /\ IsKeyRegistered(notifyList[j], handler.key)

\* Keystrokes are read in the order they were typed, each at most once.
ReadInOrder ==
  /\ \A i \in Positions(keyQueue) : keyQueue[i].n > lastRead
  /\ \A i, j \in Positions(keyQueue) : i < j => keyQueue[i].n < keyQueue[j].n

\* A client whose WaitForKey was signalled finds a keystroke that is not partial
\* (unless the queue overflowed or was reset in between).
WaitForKeyKeepsPromise ==
  promised => \E i \in Positions(keyQueue) : keyQueue[i].code # Partial

\* A function hears of keystrokes in the order they were typed.
NotifiedInOrder == [][\A f \in Fns : calls'[f] >= calls[f]]_vars

\* A call that is owed is eventually made (or the keystroke is lost to an
\* overflow, a reset or a stop).
OwedCallsAreMade ==
  \A f \in Fns, n \in 1 .. MaxStrokes :
    <<f, n>> \in owed ~> <<f, n>> \notin owed

\* A keystroke reaches those who asked for it: the functions that are owed a call
\* with it, the reader in its turn, and the client that waited for it.
KeysReachClients == OwedCallsArePending /\ ReadInOrder /\ WaitForKeyKeepsPromise
=============================================================================
