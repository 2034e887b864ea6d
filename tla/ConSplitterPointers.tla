------------------------- MODULE ConSplitterPointers -------------------------
(* The pointers of ConSplitterDxe: one Simple Pointer and one Absolute       *)
(* Pointer protocol on the console input's handle, each for all pointers of  *)
(* its kind.  Both are modelled with one axis and no buttons.                *)
EXTENDS Integers, FiniteSets, FiniteSetsExt, SequencesExt

CONSTANTS
  Resolution,    \* [simple pointers -> ResolutionX, 0 if it has no such axis]
  Bounds,        \* [absolute pointers -> <<AbsoluteMinX, AbsoluteMaxX>>]
  VirtualRes,    \* SimplePointerMode.ResolutionX and AbsolutePointerMode's
                 \* AbsoluteMaxX (0x10000; AbsoluteMinX is 0)
  IntWidth,      \* 2^32 of INT32
  PtrUnit,       \* CONSOLE_SPLITTER_ALLOC_UNIT
  Moves,         \* movements of a simple pointer
  MaxMoves,      \* bound: movements
  MaxPtrFaults   \* bound: calls that fail

PtrKinds == {"simple", "absolute"}
PointersOf(kind) == IF kind = "simple" THEN DOMAIN Resolution ELSE DOMAIN Bounds
Pointers == DOMAIN Resolution \cup DOMAIN Bounds

\* Bound: movements are scaled without a remainder.
ASSUME PointersAssumption ==
  /\ \A d \in DOMAIN Resolution : Resolution[d] # 0 => VirtualRes % Resolution[d] = 0
  /\ DOMAIN Resolution \cap DOMAIN Bounds = {} /\ PtrUnit \in Nat \ {0}

VARIABLES
  list,      \* [PtrKinds -> PointerList, AbsolutePointerList]
  room,      \* [PtrKinds -> PointerListCount, AbsolutePointerListCount]
  signalled, \* [PtrKinds -> InputEventSignalState, AbsoluteInputEventSignalState]
  opened,    \* [Pointers -> how the driver holds the pointer's protocol open]
  pointer,   \* external: [Pointers -> what the pointer tells when it is asked:
             \* its movement since then, or its position]
  ptrPast    \* history: pointers held and in no list; moves and faults; movement
             \* made and told; whether some was lost with an error, a reset or an
             \* overflow; the last position told, and the pointers it came of;
             \* kinds whose event was left signalled as a pointer went
ptrVars == <<list, room, signalled, opened, pointer, ptrPast>>

Still == [changed |-> FALSE, at |-> 0]

\* ConSplitterTextInConstructor.
PtrInit ==
  /\ list = [kind \in PtrKinds |-> << >>]
  /\ room = [kind \in PtrKinds |-> PtrUnit]
  /\ signalled = [kind \in PtrKinds |-> FALSE]
  /\ opened = [d \in Pointers |-> {}]
  /\ pointer = [d \in Pointers |-> Still]
  /\ ptrPast = [unlisted |-> {}, moves |-> 0, faults |-> 0, made |-> 0, told |-> 0,
                lost |-> FALSE, position |-> 0, by |-> {}, stale |-> {}]

Listed(kind) == ToSet(list[kind])
Changed(d) == pointer[d].changed
MayFault(fails) == fails => ptrPast.faults < MaxPtrFaults
Faults(fails) == ptrPast.faults + (IF fails THEN 1 ELSE 0)

-----------------------------------------------------------------------------
(* Pointers come and go.                                                    *)

\* What stays open when one of the three calls to OpenProtocol fails, or none.
ConSplitterStart(fault) ==
  IF fault \in {"driver", "child", "interface"} THEN {} ELSE {"driver", "child"}

\* A full list grows, or the pointer is refused.
AddDevice(kind, d, fault) ==
  LET full == Len(list[kind]) >= room[kind]
  IN  /\ fault = "room" => full
      /\ room' = [room EXCEPT ![kind] = IF full /\ fault # "room" THEN @ + PtrUnit ELSE @]
      /\ list' = [list EXCEPT ![kind] = IF fault = "room" THEN @ ELSE Append(@, d)]

\* A pointer that AddDevice refuses is not closed.
PointerStart(kind, d, fault) ==
  /\ opened[d] = {} /\ MayFault(fault # "none")
  /\ opened' = [opened EXCEPT ![d] = ConSplitterStart(fault)]
  /\ IF fault \in {"none", "room"} THEN AddDevice(kind, d, fault) ELSE UNCHANGED <<list, room>>
  /\ ptrPast' = [ptrPast EXCEPT
       !.faults = Faults(fault # "none"),
       !.unlisted = IF fault = "room" THEN @ \cup {d} ELSE @]
  /\ UNCHANGED <<signalled, pointer>>

\* The pointers behind it move up; NOT_FOUND, if it is not listed, changes
\* nothing.
DeleteDevice(kind, d) ==
  list' = [list EXCEPT ![kind] = SelectSeq(@, LAMBDA c : c # d)]

\* Both are closed.
ConSplitterStop(d) == opened' = [opened EXCEPT ![d] = {}]

PointerStop(kind, d) ==
  /\ opened[d] # {}
  /\ ConSplitterStop(d)
  /\ DeleteDevice(kind, d)
  /\ ptrPast' = [ptrPast EXCEPT
       !.unlisted = @ \ {d},
       !.stale = IF signalled[kind] THEN @ \cup {kind} ELSE @]
  /\ UNCHANGED <<room, signalled, pointer>>

-----------------------------------------------------------------------------
(* What the pointers tell.                                                  *)

\* External: a simple pointer is moved, an absolute one is touched somewhere.
Moved(d, v) ==
  LET simple == d \in DOMAIN Resolution
  IN  /\ ptrPast.moves < MaxMoves
      /\ simple => v \in Moves
      /\ ~simple => v \in Bounds[d][1] .. Bounds[d][2]
      /\ pointer' = [pointer EXCEPT
           ![d] = [changed |-> TRUE,
                   at |-> IF simple THEN @.at + v ELSE v]]
      /\ ptrPast' = [ptrPast EXCEPT
           !.moves = @ + 1,
           !.made = IF simple /\ Resolution[d] # 0
                    THEN @ + (v * VirtualRes) \div Resolution[d] ELSE @]
      /\ UNCHANGED <<list, room, signalled, opened>>

\* The product is an INT32; one that overflows is undefined, taken to wrap here
\* (nothing is said of it below).
Product(move) ==
  ((move * VirtualRes + IntWidth \div 2) % IntWidth) - IntWidth \div 2

\* A movement in the splitter's resolution; the division is towards zero.
Scaled(d) ==
  LET n == Product(pointer[d].at)
      r == Resolution[d]
  IN  CASE r = 0 -> 0
        [] r # 0 /\ n >= 0 -> n \div r
        [] OTHER -> -((-n) \div r)

Overflows(d) == Resolution[d] # 0 /\ Product(pointer[d].at) # pointer[d].at * VirtualRes

\* One pointer with an error is enough for the whole call to be one.
Status(broken, asked) ==
  CASE broken # {} -> "DEVICE_ERROR"
    [] broken = {} /\ asked # {} -> "SUCCESS"
    [] OTHER -> "NOT_READY"

\* The pointers that have changed tell so, and forget it.
AskedOf(kind, broken) == {d \in Listed(kind) \ broken : Changed(d)}
Ask(asked) ==
  pointer' = [d \in Pointers |->
    IF d \notin asked THEN pointer[d]
    ELSE [pointer[d] EXCEPT !.changed = FALSE, !.at = IF d \in DOMAIN Resolution THEN 0 ELSE @]]

Cleared(kind) ==
  /\ signalled' = [signalled EXCEPT ![kind] = FALSE]
  /\ UNCHANGED <<list, room, opened>>

\* The movements of all pointers are added up.
SimplePointerGetState(broken) ==
  LET asked == AskedOf("simple", broken)
      status == Status(broken, asked)
  IN  /\ broken \subseteq Listed("simple") /\ MayFault(broken # {})
      /\ Ask(asked) /\ Cleared("simple")
      /\ ptrPast' = [ptrPast EXCEPT
           !.faults = Faults(broken # {}), !.stale = @ \ {"simple"},
           !.told = IF status = "SUCCESS" THEN @ + MapThenSumSet(Scaled, asked) ELSE @,
           !.lost = @ \/ (status = "DEVICE_ERROR" /\ asked # {})
                      \/ \E d \in asked : Overflows(d)]

\* A position is scaled, but not moved by the pointer's own minimum.
Position(d) ==
  (pointer[d].at * VirtualRes) \div (Bounds[d][2] - Bounds[d][1])

\* The last pointer of the list that has changed and has the axis.
AbsolutePointerGetState(broken) ==
  LET asked == AskedOf("absolute", broken)
      placed == SelectSeq(list["absolute"], LAMBDA d : d \in asked /\ Bounds[d] # <<0, 0>>)
      told == Status(broken, asked) = "SUCCESS"
  IN  /\ broken \subseteq Listed("absolute") /\ MayFault(broken # {})
      /\ Ask(asked) /\ Cleared("absolute")
      /\ ptrPast' = [ptrPast EXCEPT
           !.faults = Faults(broken # {}), !.stale = @ \ {"absolute"},
           !.position = CASE told /\ placed # << >> -> Position(Last(placed))
                          [] told /\ placed = << >> -> 0
                          [] OTHER -> @,
           !.by = IF told THEN ToSet(placed) ELSE @]

\* Every pointer is reset; some may fail.
PointerReset(kind, broken) ==
  /\ broken \subseteq Listed(kind) /\ MayFault(broken # {})
  /\ pointer' = [d \in Pointers |->
       IF d \in Listed(kind) \ broken THEN Still ELSE pointer[d]]
  /\ Cleared(kind)
  /\ ptrPast' = [ptrPast EXCEPT
       !.faults = Faults(broken # {}), !.stale = @ \ {kind},
       !.lost = @ \/ \E d \in Listed(kind) \cap DOMAIN Resolution : Changed(d)]

\* The event stays signalled until the state is read.
WaitForInput(kind) ==
  /\ signalled' = [signalled EXCEPT ![kind] = @ \/ \E d \in Listed(kind) : Changed(d)]
  /\ UNCHANGED <<list, room, opened, pointer, ptrPast>>

SimplePointerReset(broken) == PointerReset("simple", broken)
AbsolutePointerReset(broken) == PointerReset("absolute", broken)
SimplePointerWaitForInput == WaitForInput("simple")
AbsolutePointerWaitForInput == WaitForInput("absolute")

PointersNext(kind) ==
  \/ \E d \in PointersOf(kind) :
       \/ PointerStop(kind, d)
       \/ \E fault \in {"none", "driver", "child", "interface", "room"} :
            PointerStart(kind, d, fault)
       \/ \E v \in Moves \cup (0 .. VirtualRes) : Moved(d, v)
  \/ /\ kind = "simple"
     /\ \/ SimplePointerWaitForInput
        \/ \E broken \in SUBSET DOMAIN Resolution :
             SimplePointerGetState(broken) \/ SimplePointerReset(broken)
  \/ /\ kind = "absolute"
     /\ \/ AbsolutePointerWaitForInput
        \/ \E broken \in SUBSET DOMAIN Bounds :
             AbsolutePointerGetState(broken) \/ AbsolutePointerReset(broken)

-----------------------------------------------------------------------------
PtrTypeOK ==
  \A kind \in PtrKinds :
    /\ list[kind] \in Seq(PointersOf(kind)) /\ Len(list[kind]) <= room[kind]
    /\ IsInjective(list[kind])

\* Whatever fails, the driver holds the protocols of the pointers that it lists,
\* wholly, and besides only those that it had no room for.
HeldAreListed ==
  \A kind \in PtrKinds : \A d \in PointersOf(kind) :
    opened[d] = IF d \in Listed(kind) \cup ptrPast.unlisted THEN {"driver", "child"} ELSE {}

\* What the simple pointers have moved, a client has been told or can still ask
\* for, as pointers come and go; only an error of any of them, a reset, or a
\* movement that does not fit its scaling, loses some.
MovementKept ==
  LET waiting(d) == IF Resolution[d] = 0 THEN 0
                    ELSE (pointer[d].at * VirtualRes) \div Resolution[d]
  IN  ~ptrPast.lost =>
        ptrPast.told + MapThenSumSet(waiting, DOMAIN Resolution) = ptrPast.made

\* While the event stays signalled a pointer has changed, unless one was taken
\* away since.
SignalHasInput ==
  \A kind \in PtrKinds :
    signalled[kind] /\ kind \notin ptrPast.stale => \E d \in Listed(kind) : Changed(d)

\* A position that a client is told lies on the splitter's axis, if the axes of
\* the pointers it may come of start at 0.
PositionOnAxis ==
  (\A d \in ptrPast.by : Bounds[d][1] = 0) => ptrPast.position \in 0 .. VirtualRes

\* The pointers of a kind can be used as if they were one.
PointersAsOne ==
  PtrTypeOK /\ HeldAreListed /\ MovementKept /\ SignalHasInput /\ PositionOnAxis
=============================================================================
