------------------------- MODULE ConSplitterTextIn -------------------------
(***************************************************************************)
(* ConSplitterDxe, text input: one virtual console over the consoles that  *)
(* are connected, with their keystrokes and the notifications registered   *)
(* for them.                                                               *)
(*                                                                         *)
(* Clients call it at TPL_APPLICATION, and keys are typed at any time.  A  *)
(* call that goes through the consoles is one step all the same: a key     *)
(* typed in the middle of it counts as typed before the call if its        *)
(* console is still to be visited and as typed after it otherwise.         *)
(*                                                                         *)
(* The consoles are external (KeypadDxe is one): a queue of keystrokes and *)
(* a list of registrations, found again by key and function.  The address  *)
(* a console returns for a registration is written [dev, reg]: it is not   *)
(* used again for another registration.  PcdConInConnectOnDemand is FALSE. *)
(***************************************************************************)
EXTENDS Naturals, Sequences, FiniteSets

CONSTANTS Devices,     \* handles with a Simple Text Input protocol
          ExDevices,   \* those with the Ex protocol too
          Codes,       \* scan code/character pairs
          Partial,     \* SCAN_NULL with CHAR_NULL
          Clients,     \* what clients may register: code, shift state, function
          SyncFn,      \* ToggleStateSyncKeyNotify
          AllocUnit,   \* CONSOLE_SPLITTER_ALLOC_UNIT
          MaxKeys,     \* bound: keystrokes typed in a behaviour
          MaxNotifies, \* bound: registrations at a time
          MaxFaults,   \* bound: calls that fail
          NoHandle

ASSUME DevicesAssumption == ExDevices \subseteq Devices /\ Partial \notin Codes
ASSUME BoundsAssumption ==
  AllocUnit \in Nat \ {0} /\ MaxKeys \in Nat /\ MaxFaults \in Nat

\* A keystroke: its console, what was typed, and its number for the histories.
Key == [dev : Devices, code : Codes \cup {Partial}, n : 1 .. MaxKeys]

\* What is registered: EFI_KEY_DATA and the function.  The first is what
\* ToggleStateSyncInitialization registers.
SyncNotify == [code |-> Partial, shift |-> 0, fn |-> SyncFn]
Registration == Clients \cup {SyncNotify}

\* What a console returns for a registration.
Handles == [dev : ExDevices, reg : Registration]

ASSUME NoHandleAssumption == NoHandle \notin Handles

VARIABLES opened,      \* handles whose ConsoleInDevice is open BY_DRIVER
          textInList,  \* TextInList[0 .. CurrentNumberOfConsoles - 1]
          inCount,     \* TextInListCount, the room in it
          exList,      \* TextInExList[0 .. CurrentNumberOfExConsoles - 1]
          exCount,     \* TextInExListCount
          notifyList,  \* NotifyList: registration and NotifyHandleList
          keyQueue,    \* KeyQueue[0 .. CurrentNumberOfKeys - 1]
          signalled,   \* KeyEventSignalState
          exported,    \* VirtualKeyStateExported
          pending,     \* external: keystrokes waiting in each console
          registered,  \* external: registrations in each console
          faults,      \* history: calls that failed
          typed,       \* history: keystrokes typed
          unread,      \* history: those that a client is still to get
          lastRead,    \* history: the last keystroke read, per console
          everStopped, \* history: some console was taken away
          stale        \* history: a console was taken away since signalled

lists == <<opened, textInList, inCount, exList, exCount, notifyList>>
keys == <<keyQueue, signalled, exported>>
consoles == <<pending, registered>>
history == <<faults, typed, unread, lastRead, everStopped, stale>>
vars == <<lists, keys, consoles, history>>

Positions(s) == 1 .. Len(s)
Listed(s) == {s[i] : i \in Positions(s)}
IsPartial(key) == key.code = Partial

\* Taking an element out of a list: those behind it move up.
Delete(s, x) ==
  IF x \notin Listed(s) THEN s
  ELSE LET at == CHOOSE i \in Positions(s) : s[i] = x
       IN  [i \in 1 .. Len(s) - 1 |-> s[IF i < at THEN i ELSE i + 1]]

\* A shift state of 0 in the registered key stands for any.
IsKeyRegistered(reg, key) ==
  reg.code = key.code /\ (reg.shift = 0 \/ reg.shift = key.shift)
SameNotify(reg, new) == IsKeyRegistered(reg, new) /\ reg.fn = new.fn

\* External RegisterKeyNotify: the registration a console keeps for reg.
Kept(regs, reg) ==
  IF reg \in regs \/ ~ \E r \in regs : SameNotify(r, reg) THEN reg
  ELSE CHOOSE r \in regs : SameNotify(r, reg)
Handle(d, regs, reg) == [dev |-> d, reg |-> Kept(regs, reg)]

\* External UnregisterKeyNotify: an address that is not one's own is refused.
Without(regs, d, handle) ==
  regs \ {r \in regs : handle # NoHandle /\ handle = [dev |-> d, reg |-> r]}

\* A console's queue as its reader leaves it that skips partial keystrokes.
Ready(q) ==
  LET real == {i \in Positions(q) : ~IsPartial(q[i])}
  IN  IF real = {} THEN << >>
      ELSE SubSeq(q, CHOOSE i \in real : \A j \in real : i <= j, Len(q))
HasKey(d) == Ready(pending[d]) # << >>
-----------------------------------------------------------------------------
\* ConSplitterTextInConstructor, with the registration it makes itself in
\* ToggleStateSyncInitialization.
Init ==
  /\ opened = {} /\ textInList = << >> /\ exList = << >>
  /\ inCount = AllocUnit /\ exCount = AllocUnit
  /\ notifyList =
       << [reg |-> SyncNotify,
           handles |-> [i \in 1 .. AllocUnit |-> NoHandle]] >>
  /\ keyQueue = << >> /\ signalled = FALSE /\ exported = FALSE
  /\ pending = [d \in Devices |-> << >>]
  /\ registered = [d \in Devices |-> {}]
  /\ faults = 0 /\ typed = 0 /\ unread = {}
  /\ lastRead = [d \in Devices |-> 0]
  /\ everStopped = FALSE /\ stale = FALSE
-----------------------------------------------------------------------------
(* Consoles come and go.                                                   *)

Fault == faults < MaxFaults /\ faults' = faults + 1
ConnectionsOnly ==
  UNCHANGED <<keyQueue, signalled, exported, typed, unread, lastRead>>

\* ConSplitterGrowBuffer, for a list that is full.
Room(list, count) == IF Len(list) >= count THEN count + AllocUnit ELSE count

\* ConSplitterTextInAddDevice.  Its check of the console's event drops the
\* partial keystrokes in front (external; KeypadWaitForKey does).
TextInAddDevice(d) ==
  /\ d \notin opened
  /\ opened' = opened \cup {d}
  /\ textInList' = Append(textInList, d)
  /\ inCount' = Room(textInList, inCount)
  /\ pending' = [pending EXCEPT ![d] = Ready(@)]

\* A NotifyHandleList grown to the room of the console list.
Grown(entry) ==
  [entry EXCEPT !.handles = [i \in 1 .. Room(exList, exCount) |->
     IF i <= exCount THEN entry.handles[i] ELSE NoHandle]]

\* The registrations of console d after the first k of NotifyList.
RegisteredAfter(d, k) ==
  LET after[i \in 0 .. Len(notifyList)] ==
        IF i = 0 THEN registered[d]
        ELSE after[i - 1] \cup {Kept(after[i - 1], notifyList[i].reg)}
  IN  after[k]
NewHandle(d, i) == Handle(d, RegisteredAfter(d, i - 1), notifyList[i].reg)

\* NotifyList when its first k entries are registered with a new console d.
NotifyListWith(d, k) ==
  [i \in Positions(notifyList) |->
     IF i <= k THEN [Grown(notifyList[i]) EXCEPT
                       !.handles[Len(exList) + 1] = NewHandle(d, i)]
               ELSE Grown(notifyList[i])]

\* ConSplitterTextInExAddDevice.
TextInExAddDevice(d) ==
  /\ notifyList' = NotifyListWith(d, Len(notifyList))
  /\ registered' = [registered EXCEPT ![d] = RegisteredAfter(d, Len(notifyList))]
  /\ exCount' = Room(exList, exCount)
  /\ exList' = Append(exList, d)

ConInStart(d) ==
  /\ TextInAddDevice(d)
  /\ IF d \in ExDevices THEN TextInExAddDevice(d)
     ELSE UNCHANGED <<notifyList, registered, exCount, exList>>
  /\ ConnectionsOnly
  /\ UNCHANGED <<faults, everStopped, stale>>

\* TextInList cannot grow: the handle stays open and in no list.
StartWithoutRoom(d) ==
  /\ d \notin opened /\ Len(textInList) >= inCount
  /\ Fault
  /\ opened' = opened \cup {d}
  /\ ConnectionsOnly
  /\ UNCHANGED <<textInList, inCount, exList, exCount, notifyList, consoles,
                 everStopped, stale>>

\* The lists of the Ex consoles cannot grow after k handle lists have: the
\* console stays in TextInList alone.
StartWithoutExRoom(d, k) ==
  /\ d \in ExDevices /\ Len(exList) >= exCount
  /\ Fault
  /\ TextInAddDevice(d)
  /\ notifyList' = [i \in Positions(notifyList) |->
                      IF i <= k THEN Grown(notifyList[i]) ELSE notifyList[i]]
  /\ ConnectionsOnly
  /\ UNCHANGED <<exList, exCount, registered, everStopped, stale>>

\* Mutant: the rollback forgets the first one.
RolledBackButFirst(d, k) ==
  RegisteredAfter(d, k) \ {NewHandle(d, i).reg : i \in 2 .. k}

\* The registrations of d when the first k are taken back.
RolledBack(d, k) ==
  RegisteredAfter(d, k) \ {NewHandle(d, i).reg : i \in 1 .. k}

\* The console refuses a registration after k others: these are taken back, and
\* the console stays in TextInList alone.
StartRefused(d, k) ==
  /\ d \in ExDevices /\ k < Len(notifyList)
  /\ Fault
  /\ TextInAddDevice(d)
  /\ notifyList' = NotifyListWith(d, k)
  /\ registered' = [registered EXCEPT ![d] = RolledBack(d, k)]
  /\ exCount' = Room(exList, exCount)
  /\ ConnectionsOnly
  /\ UNCHANGED <<exList, everStopped, stale>>

\* ConSplitterConInDriverBindingStop.  An Ex console that is not in the Ex list
\* is refused, and stays.  The registrations stay with the console.
ConInStop(d) ==
  /\ d \in opened
  /\ d \in ExDevices => d \in Listed(exList)
  /\ opened' = opened \ {d}
  /\ exList' = Delete(exList, d)
  /\ textInList' = Delete(textInList, d)
  /\ everStopped' = TRUE /\ stale' = (stale \/ signalled)
  /\ ConnectionsOnly
  /\ UNCHANGED <<inCount, exCount, notifyList, consoles, faults>>

\* External: a console's own driver stops, which frees what it keeps.
DeviceGone(d) ==
  /\ d \notin opened
  /\ pending' = [pending EXCEPT ![d] = << >>]
  /\ registered' = [registered EXCEPT ![d] = {}]
  /\ unread' = unread \ {pending[d][i].n : i \in Positions(pending[d])}
  /\ UNCHANGED <<lists, keys, faults, typed, lastRead, everStopped, stale>>
-----------------------------------------------------------------------------
(* Keystrokes.                                                             *)

\* External: somebody types.
KeyTyped(d, code) ==
  /\ typed < MaxKeys
  /\ typed' = typed + 1
  /\ pending' = [pending EXCEPT
       ![d] = Append(@, [dev |-> d, code |-> code, n |-> typed + 1])]
  /\ unread' = IF code = Partial THEN unread ELSE unread \cup {typed + 1}
  /\ UNCHANGED <<lists, keys, registered, faults, lastRead, everStopped, stale>>

\* A call that is not about the connections.
Read ==
  /\ UNCHANGED <<lists, registered, typed, everStopped>>

\* KeyEventSignalState is cleared.
ClearSignal == signalled' = FALSE /\ stale' = FALSE

Delivered(key) ==
  /\ unread' = unread \ {key.n}
  /\ lastRead' = [lastRead EXCEPT ![key.dev] = key.n]
NotReady == UNCHANGED <<unread, lastRead>>

\* How many consoles in TextInList are passed over before one is found with a
\* keystroke that is not partial.
Passed ==
  CHOOSE i \in 0 .. Len(textInList) :
    /\ \A j \in 1 .. i : ~HasKey(textInList[j])
    /\ i < Len(textInList) => HasKey(textInList[i + 1])

\* The consoles' turn: the partial keystrokes on the way are dropped.
ReadConsoles ==
  /\ pending' = [d \in Devices |->
       IF \E j \in 1 .. Passed : d = textInList[j] THEN << >>
       ELSE IF Passed < Len(textInList) /\ d = textInList[Passed + 1]
         THEN Tail(Ready(pending[d])) ELSE pending[d]]
  /\ IF Passed < Len(textInList)
       THEN Delivered(Head(Ready(pending[textInList[Passed + 1]]))) ELSE NotReady

\* ConSplitterTextInReadKeyStroke: the first key that ReadKeyStrokeEx saved,
\* else the first that a console has.
ReadKeyStroke ==
  /\ ClearSignal /\ Read
  /\ UNCHANGED <<exported, faults>>
  /\ IF Ready(keyQueue) # << >>
       THEN /\ keyQueue' = Tail(Ready(keyQueue))
            /\ Delivered(Head(Ready(keyQueue)))
            /\ UNCHANGED pending
       ELSE keyQueue' = << >> /\ ReadConsoles

\* What one keystroke of every Ex console adds to the key queue: the partial
\* ones only if a client asked for them.
Collected ==
  LET after[i \in 0 .. Len(exList)] ==
        IF i = 0 THEN << >>
        ELSE IF pending[exList[i]] = << >> \/ (IsPartial(Head(pending[exList[i]])) /\ ~exported)
          THEN after[i - 1]
        ELSE Append(after[i - 1], Head(pending[exList[i]]))
  IN  after[Len(exList)]

\* Mutant: the keys behind the first are forgotten.
SavedNone(q) == << >>

\* The keys that stay in the queue when the first is returned.
Saved(q) == IF q = << >> THEN << >> ELSE Tail(q)

\* ConSplitterTextInReadKeyStrokeEx.
ReadKeyStrokeEx ==
  /\ ClearSignal /\ Read
  /\ UNCHANGED <<exported, faults>>
  /\ IF keyQueue # << >>
       THEN Delivered(Head(keyQueue)) /\ keyQueue' = Saved(keyQueue) /\ UNCHANGED pending
       ELSE /\ pending' = [d \in Devices |->
                 IF d \in Listed(exList) /\ pending[d] # << >> THEN Tail(pending[d])
                 ELSE pending[d]]
            /\ keyQueue' = Saved(Collected)
            /\ IF Collected = << >> THEN NotReady ELSE Delivered(Head(Collected))

\* What WaitForKey answers: as before, or by asking every console.
EventIsSignalled == signalled \/ \E d \in Listed(textInList) : HasKey(d)

\* ConSplitterTextInWaitForKey.  As above, checking a console's event drops its
\* partial keystrokes in front.
WaitForKey ==
  /\ signalled' = EventIsSignalled
  /\ pending' = [d \in Devices |->
       IF ~signalled /\ d \in Listed(textInList) THEN Ready(pending[d]) ELSE pending[d]]
  /\ UNCHANGED <<lists, keyQueue, exported, registered, faults, typed, unread,
                 lastRead, everStopped, stale>>

\* ConSplitterTextInReset and ResetEx, on the consoles of their list.  Those in
\* broken fail; the key queue is emptied only if there are none.
Reset(list, broken) ==
  LET cleared == Listed(list) \ broken
      lost == (IF broken = {} THEN Listed(keyQueue) ELSE {}) \cup
              UNION {Listed(pending[d]) : d \in cleared}
  IN  /\ broken \subseteq Listed(list)
      /\ IF broken = {} THEN keyQueue' = << >> /\ exported' = FALSE /\ UNCHANGED faults
         ELSE Fault /\ UNCHANGED <<keyQueue, exported>>
      /\ pending' = [d \in Devices |-> IF d \in cleared THEN << >> ELSE pending[d]]
      /\ unread' = unread \ {key.n : key \in lost}
      /\ ClearSignal /\ Read /\ UNCHANGED lastRead

\* ConSplitterTextInSetState, if no console refuses (nothing of this module
\* changes if one does).  The consoles' toggle states are left out.
SetState(expose) ==
  /\ exported' = expose
  /\ Read
  /\ UNCHANGED <<keyQueue, signalled, pending, faults, unread, lastRead, stale>>
-----------------------------------------------------------------------------
(* Notifications.                                                          *)

NotifiesOnly ==
  /\ UNCHANGED <<opened, textInList, inCount, exList, exCount, keys, pending,
                 typed, unread, lastRead, everStopped, stale>>

AlreadyRegistered(reg) == \E i \in Positions(notifyList) : SameNotify(notifyList[i].reg, reg)

\* ConSplitterTextInRegisterKeyNotify, of a registration that is not there yet
\* (it succeeds at once for the others).
RegisterKeyNotify(reg) ==
  /\ Len(notifyList) < MaxNotifies /\ ~AlreadyRegistered(reg)
  /\ notifyList' = Append(notifyList,
       [reg |-> reg, handles |-> [i \in 1 .. exCount |->
          IF i <= Len(exList) THEN Handle(exList[i], registered[exList[i]], reg)
          ELSE NoHandle]])
  /\ registered' = [d \in Devices |->
       IF d \in Listed(exList) THEN registered[d] \cup {Kept(registered[d], reg)}
       ELSE registered[d]]
  /\ NotifiesOnly /\ UNCHANGED faults

\* A console refuses it after the first k have taken it: they give it back.
RegisterRefused(reg, k) ==
  /\ Len(notifyList) < MaxNotifies /\ ~AlreadyRegistered(reg) /\ k < Len(exList)
  /\ Fault
  /\ registered' = [d \in Devices |->
       IF \E i \in 1 .. k : d = exList[i]
         THEN registered[d] \ {Kept(registered[d], reg)} ELSE registered[d]]
  /\ NotifiesOnly /\ UNCHANGED notifyList

\* ConSplitterTextInUnregisterKeyNotify, of the i-th registration: the console
\* that is j-th now gets the handle that was stored j-th.
UnregisterKeyNotify(i) ==
  /\ registered' = [d \in Devices |->
       IF \E j \in Positions(exList) : exList[j] = d
         THEN Without(registered[d], d,
                notifyList[i].handles[CHOOSE j \in Positions(exList) : exList[j] = d])
         ELSE registered[d]]
  /\ notifyList' = [k \in 1 .. Len(notifyList) - 1 |->
                      notifyList[IF k < i THEN k ELSE k + 1]]
  /\ NotifiesOnly /\ UNCHANGED faults
-----------------------------------------------------------------------------
Connections ==
  \/ \E d \in Devices : ConInStart(d) \/ StartWithoutRoom(d) \/ ConInStop(d) \/ DeviceGone(d)
  \/ \E d \in Devices, k \in 0 .. Len(notifyList) :
       StartWithoutExRoom(d, k) \/ StartRefused(d, k)

Keystrokes ==
  \/ \E d \in Devices, c \in Codes \cup {Partial} : KeyTyped(d, c)
  \/ ReadKeyStroke \/ ReadKeyStrokeEx \/ WaitForKey
  \/ \E broken \in SUBSET Devices : Reset(textInList, broken) \/ Reset(exList, broken)
  \/ \E expose \in BOOLEAN : SetState(expose)

\* The clients do not have the handle of the ConSplitter's own registration.
Notifications ==
  \/ \E reg \in Clients :
       \/ RegisterKeyNotify(reg)
       \/ \E k \in Positions(exList) : RegisterRefused(reg, k - 1)
  \/ \E i \in Positions(notifyList) :
       notifyList[i].reg # SyncNotify /\ UnregisterKeyNotify(i)

Next == Connections \/ Keystrokes \/ Notifications

Spec == Init /\ [][Next]_vars
-----------------------------------------------------------------------------
TypeOK ==
  /\ opened \subseteq Devices
  /\ textInList \in Seq(Devices) /\ Len(textInList) <= inCount /\ inCount \in Nat
  /\ exList \in Seq(ExDevices) /\ Len(exList) <= exCount /\ exCount \in Nat
  /\ Listed(exList) \subseteq Listed(textInList) /\ Listed(textInList) \subseteq opened
  /\ notifyList \in Seq([reg : Registration, handles : Seq(Handles \cup {NoHandle})])
  /\ \A i \in Positions(notifyList) : Len(notifyList[i].handles) >= exCount
  /\ keyQueue \in Seq(Key) /\ Len(keyQueue) < exCount
  /\ signalled \in BOOLEAN /\ exported \in BOOLEAN
  /\ pending \in [Devices -> Seq(Key)]
  /\ registered \in [Devices -> SUBSET Registration]
  /\ faults \in 0 .. MaxFaults /\ typed \in 0 .. MaxKeys
  /\ unread \subseteq 1 .. MaxKeys
  /\ lastRead \in [Devices -> 0 .. MaxKeys]
  /\ everStopped \in BOOLEAN /\ stale \in BOOLEAN

\* A keystroke that is not partial is returned by a read or is still waiting,
\* in its console or in the queue of keys that were typed at the same moment
\* (unless a reset or its console's end takes it).
NoKeyLost ==
  \A n \in unread :
    \E key \in Listed(keyQueue) \cup UNION {Listed(pending[d]) : d \in Devices} : key.n = n

\* The keystrokes of a console are read in the order they were typed, each at
\* most once, however the two kinds of read are mixed.
ReadInOrder ==
  /\ \A key \in Listed(keyQueue) : lastRead[key.dev] < key.n
  /\ \A d \in Devices : \A key \in Listed(pending[d]) :
       /\ lastRead[d] < key.n
       /\ \A saved \in Listed(keyQueue) : saved.dev = d => saved.n < key.n

\* Until a console is taken away, every Ex console holds exactly the
\* registrations of the list, those made before it came and those made since,
\* and none that was refused half way.
RegistrationsMatch ==
  ~everStopped =>
    \A d \in ExDevices :
      registered[d] = IF d \in Listed(exList)
                        THEN {notifyList[i].reg : i \in Positions(notifyList)} ELSE {}

\* While the event stays signalled there is a keystroke to read, until the
\* console that has it is taken away.
SignalHasKey ==
  signalled /\ ~stale => \E d \in Listed(textInList) : HasKey(d)

\* ConSplitter.c:3523 and 3778: "The WaitForKey Event can be used to test for
\* existance of a keystroke".  An event that is not signalled means that no
\* keystroke waits, in the queue of saved keys either.
WaitSeesSavedKeys == Ready(keyQueue) # << >> => EventIsSignalled

\* ConSplitter.c:4087: "The notification function was unregistered
\* successfully": no console in use keeps a registration that is taken out of
\* the list.
UnregisteredEverywhere ==
  [][\A reg \in Registration :
       /\ \E i \in Positions(notifyList) : notifyList[i].reg = reg
       /\ ~ \E i \in Positions(notifyList') : notifyList'[i].reg = reg
       => \A d \in Listed(exList) : reg \notin registered'[d]]_vars

\* Keystrokes pass the splitter whole and in order, and its event tells of them.
KeysKept == TypeOK /\ NoKeyLost /\ ReadInOrder /\ SignalHasKey
=============================================================================
