------------------------- MODULE ConSplitterTextOut -------------------------
(* The text output of ConSplitterDxe: mConOut and mStdErr, each of which    *)
(* offers as modes the text sizes that all its consoles have, maps its mode *)
(* numbers to theirs, and passes every call on to all of them.  A console   *)
(* may belong to both.                                                      *)
(*                                                                          *)
(* The lists, maps and query data have room for 32 entries and never grow   *)
(* on this platform (two consoles, three or four modes); memory is          *)
(* allocated without failure.  The cursor is modelled while a splitter has  *)
(* no console (it is a copy of the first console's otherwise); visibility   *)
(* of the cursor, colours and the splitter's graphics output are not.       *)
EXTENDS Integers, FiniteSets, FiniteSetsExt, SequencesExt

CONSTANTS
  Outputs,      \* the consoles
  TextModes,    \* [Outputs -> sequence from 0 of the sizes of their modes]
  Base,         \* <<columns, rows>> of mode 0: 40x12
  Preferred,    \* <<PcdConOutColumn, PcdConOutRow>>: 60x42
  Slots,        \* room in TextOutList (32)
  Rows,         \* room in TextOutQueryData and rows of TextOutModeMap (32)
  NoDevice,
  MaxDisruptions, \* bound: how often a console is removed or a call fails
  MaxOutFaults    \* bound: how many operations meet a call that fails

Splitters == {"ConOut", "StdErr"}
NoSize == <<0, 0>>
NoMap == << >>
InitMode == 255

\* Every console has a mode 0, of the base size, and a mode 1, which is one size
\* or unsupported; the modes of a console have different sizes, and the later
\* ones have not the size of a mode 1.  The current mode is 0xFF while a console
\* is added, which is to be the number of no mode.
ASSUME ModesAssumption ==
  /\ Slots \in Nat /\ Slots >= Cardinality(Outputs) * Cardinality(Outputs)
  /\ Rows \in 2..32 /\ Base \in (Nat \ {0}) \X (Nat \ {0})
  /\ \A d \in Outputs :
       /\ DOMAIN TextModes[d] = 0..(Cardinality(DOMAIN TextModes[d]) - 1)
       /\ Cardinality(DOMAIN TextModes[d]) \in 2..Rows
       /\ TextModes[d][0] = Base
       /\ \A m, n \in DOMAIN TextModes[d] :
            TextModes[d][m] = TextModes[d][n] => m = n
       /\ \A m \in DOMAIN TextModes[d] : TextModes[d][m] = NoSize => m = 1
  /\ \A c, d \in Outputs :
       /\ \/ NoSize \in {TextModes[c][1], TextModes[d][1]}
          \/ TextModes[c][1] = TextModes[d][1]
       /\ \A m \in DOMAIN TextModes[d] : m > 1 => TextModes[d][m] # TextModes[c][1]

VARIABLES
  splitter,   \* [Splitters -> TEXT_OUT_SPLITTER_PRIVATE_DATA]
  console,    \* [Outputs -> the mode each console is in]
  preferred,  \* PcdConOutColumn and PcdConOutRow
  stops,      \* removals so far
  outFaults   \* operations so far in which a call failed
outVars == <<splitter, console, preferred, stops, outFaults>>

\* What an operation works on, and the step to what it leaves.
World == [splitter |-> splitter, console |-> console, preferred |-> preferred]
Becomes(w) ==
  /\ splitter' = w.splitter
  /\ console' = w.console
  /\ preferred' = w.preferred

OutInit ==
  /\ splitter = [s \in Splitters |->
       [slots |-> [i \in 0..(Slots - 1) |-> NoDevice], count |-> 0,
        query |-> [m \in 0..(Rows - 1) |-> IF m = 0 THEN Base ELSE NoSize],
        map |-> NoMap, maxMode |-> 1, mode |-> 0, cursor |-> <<0, 0>>]]
  /\ console = [d \in Outputs |-> 0]
  /\ preferred = Preferred
  /\ stops = 0
  /\ outFaults = 0

-----------------------------------------------------------------------------
(* What a splitter offers.                                                  *)

Columns(p) == 0..(p.count - 1)
Consoles(p) == {p.slots[i] : i \in Columns(p)}
ColumnOf(p, d) == CHOOSE i \in Columns(p) : p.slots[i] = d

\* The size of mode m, and whether QueryMode reports it.
SizeOf(p, m) == p.query[IF p.map = NoMap THEN m ELSE p.map[m][0]]
QueryMode(p, m) == m \in 0..(p.maxMode - 1) /\ SizeOf(p, m) # NoSize

\* The last mode of that size, 0xFF if there is none.
ModeOfSize(p, size) ==
  LET modes == {m \in 0..(p.maxMode - 1) : QueryMode(p, m) /\ SizeOf(p, m) = size}
  IN  IF modes = {} THEN InitMode ELSE Max(modes)

\* A console takes a mode that it has.
Accepts(d, m) == m \in DOMAIN TextModes[d] /\ TextModes[d][m] # NoSize
Shows(c, d) == TextModes[d][c[d]]

-----------------------------------------------------------------------------
(* SetMode.  "failing" are the consoles whose call fails   *)
(* although it need not.                                                    *)

TextOutSetMode(p, m) == [p EXCEPT !.mode = m, !.cursor = <<0, 0>>]

Switched(w, s, m, failing) ==
  LET p == w.splitter[s]
      new(d) == p.map[m][ColumnOf(p, d)]
      refusing == {d \in Consoles(p) : d \in failing \/ ~Accepts(d, new(d))}
  IN  [ok |-> refusing = {},
       w |-> [w EXCEPT
         !.splitter[s] = TextOutSetMode(p, m),
         !.console = [d \in Outputs |->
            IF d \in Consoles(p) \ refusing
            THEN new(d) ELSE @[d]]]]

\* The current mode is only cleared, another one is entered even if consoles
\* refused it.
WithMode(w, s, m, failing) ==
  LET p == w.splitter[s]
  IN  CASE m \notin 0..(p.maxMode - 1) -> [ok |-> FALSE, w |-> w]
        [] m \in 0..(p.maxMode - 1) /\ m = p.mode ->
             [ok |-> Consoles(p) \cap failing = {},
              w |-> [w EXCEPT !.splitter[s] = TextOutSetMode(p, m)]]
        [] OTHER -> Switched(w, s, m, failing)

-----------------------------------------------------------------------------
(* The modes that all consoles share.                                       *)

\* Mutant: the map's rows are not moved together.
IntersectionInPlace(p, kept) ==
  LET removed == {m \in 2..(p.maxMode - 1) : m \notin kept}
  IN  [p EXCEPT
        !.maxMode = @ - Cardinality(removed),
        !.mode = IF @ \in removed THEN -1
                 ELSE @ - Cardinality({m \in removed : m < @})]

\* Modes 0 and 1 always stay; of the others those in "kept", moved together.
\* (Rows behind the last mode are not read any more: -1 here.)
Intersection(p, kept) ==
  LET rest == 2..(p.maxMode - 1)
      removed == rest \ kept
      before(m) == Cardinality({k \in rest \cap kept : k < m})
      from(r) == CHOOSE m \in rest \cap kept : before(m) = r - 2
      shared == Cardinality(rest \cap kept)
  IN  [p EXCEPT
        !.map = [r \in DOMAIN @ |->
                   CASE r \in 0..1 -> @[r]
                     [] r \in 2..(shared + 1) -> @[from(r)]
                     [] OTHER -> [c \in DOMAIN @[r] |-> -1]],
        !.maxMode = @ - Cardinality(removed),
        !.mode = IF @ \in removed THEN -1
                 ELSE @ - Cardinality({m \in removed : m < @})]

\* The first console's modes become the splitter's, in a fresh map.
AddOutputMode(p, d) ==
  [p EXCEPT
    !.maxMode = Cardinality(DOMAIN TextModes[d]),
    !.query = [m \in DOMAIN @ |->
                 IF m \in DOMAIN TextModes[d] THEN TextModes[d][m] ELSE @[m]],
    !.map = [r \in 0..(Rows - 1) |-> [c \in 0..(Slots - 1) |->
               IF c = 0 /\ r \in DOMAIN TextModes[d] THEN r ELSE -1]]]

\* Another console's modes are entered in its column where the size agrees;
\* what it does not have is no mode of the splitter any more.  If it has no
\* mode 1, the splitter has none.
SyncOutputMode(p, d) ==
  LET lacks1 == 1 \in DOMAIN TextModes[d] /\ TextModes[d][1] = NoSize
      query == [p.query EXCEPT ![1] = IF lacks1 THEN NoSize ELSE @]
      first(size) == {r \in 0..(p.maxMode - 1) :
                        /\ query[p.map[r][0]] = size
                        /\ \A q \in 0..(r - 1) : query[p.map[q][0]] # size}
      hits(r) == {m \in DOMAIN TextModes[d] :
                    Accepts(d, m) /\ r \in first(TextModes[d][m])}
      column == [r \in DOMAIN p.map |->
                   CASE hits(r) # {} -> Max(hits(r))
                     [] hits(r) = {} /\ r = 1 /\ lacks1 -> 1
                     [] OTHER -> p.map[r][p.count]]
  IN  Intersection(
        [p EXCEPT !.query = query,
                  !.map = [r \in DOMAIN @ |-> [@[r] EXCEPT ![p.count] = column[r]]]],
        {r \in DOMAIN column : column[r] # -1})

\* ConOut's consoles are looked for among StdErr's; the pointer into StdErr's
\* list is not set back between them, so that only ConOut's first console is
\* compared with all of the list and the others with what lies behind it.
FoundTheSameTextOut(w) ==
  LET out == w.splitter["ConOut"]
      err == w.splitter["StdErr"]
  IN  \E i \in Columns(out), j \in Columns(err) :
        out.slots[i] = err.slots[i * err.count + j]

\* A splitter's mode that was removed is replaced by mode 0 on its consoles.
Replaced(w, s, failing) ==
  IF w.splitter[s].mode < 0 THEN WithMode(w, s, 0, failing).w ELSE w

GetIntersectionBetweenConOutAndStrErr(w, failing) ==
  LET out == w.splitter["ConOut"]
      err == w.splitter["StdErr"]
      outModes == 0..(out.maxMode - 1)
      errModes == 0..(err.maxMode - 1)
      first(m) == {k \in errModes :
                     /\ SizeOf(err, k) = SizeOf(out, m)
                     /\ \A j \in 0..(k - 1) : SizeOf(err, j) # SizeOf(out, m)}
      outKept == {m \in outModes : first(m) # {}}
      errKept == UNION {first(m) : m \in outModes}
      outDone == Replaced([w EXCEPT !.splitter["ConOut"] = Intersection(@, outKept)],
                          "ConOut", failing)
  IN  IF ~FoundTheSameTextOut(w) THEN w
      ELSE Replaced([outDone EXCEPT !.splitter["StdErr"] = Intersection(@, errKept)],
                    "StdErr", failing)

\* The preferred size, or else the base size, which is preferred from then on.
\* ASSERT: the base mode can be set.
ConsoleOutMode(w, s, failing) ==
  LET p == w.splitter[s]
      wanted == WithMode(w, s, ModeOfSize(p, w.preferred), failing["prefer"])
      base == WithMode(wanted.w, s, ModeOfSize(p, Base), failing["base"])
  IN  IF wanted.ok THEN wanted
      ELSE [ok |-> base.ok, w |-> [base.w EXCEPT !.preferred = Base]]

-----------------------------------------------------------------------------
(* Consoles come and go.                                                    *)

Calls == {"replace", "prefer", "base"}
NoFailures == [call \in Calls |-> {}]
\* Bound: of the calls that one operation makes, at most one fails for no
\* other reason than the console.
OneFailing == {{}} \cup {{d} : d \in Outputs}
OneFailure ==
  {NoFailures} \cup {[NoFailures EXCEPT ![call] = {d}] : call \in Calls, d \in Outputs}

Appended(p, d) == [p EXCEPT !.slots[p.count] = d, !.count = @ + 1]

\* The console's modes, before it is counted.
TextOutAddModes(p, d) ==
  IF p.count = 0 THEN AddOutputMode(p, d) ELSE SyncOutputMode(p, d)

\* Mutant: the mode is not put back to none.
AddedInMode(p, d) == Appended(TextOutAddModes(p, d), d)

\* The mode is put back to none, so that setting the one it had is no
\* clearing of the screen.
Added(p, d) == Appended(TextOutAddModes([p EXCEPT !.mode = InitMode], d), d)

DriverBindingStart(s, d, failing) ==
  /\ d \notin Consoles(splitter[s])
  /\ splitter[s].count < Slots
  /\ LET added == [World EXCEPT !.splitter[s] = Added(@, d)]
         synced == GetIntersectionBetweenConOutAndStrErr(added, failing["replace"])
         set == ConsoleOutMode(synced, s, failing)
     IN  /\ set.ok
         /\ Becomes(set.w)

\* The consoles behind it move up, the last slot keeps what it had.
Removed(p, d) ==
  LET k == ColumnOf(p, d)
  IN  [p EXCEPT
        !.slots = [i \in DOMAIN @ |-> IF i \in k..(p.count - 2) THEN @[i + 1] ELSE @[i]],
        !.count = @ - 1]

\* The modes of the consoles that are left, entered one by one.
Rebuilt(p) ==
  LET others == [i \in 1..(p.count - 1) |-> p.slots[i]]
      entered(q, d) == [SyncOutputMode(q, d) EXCEPT !.count = @ + 1]
      cleared == [p EXCEPT !.query = [m \in DOMAIN @ |-> NoSize]]
  IN  FoldLeft(entered,
               [AddOutputMode(cleared, p.slots[0]) EXCEPT !.count = 1], others)

\* Without consoles the splitter is a screen of the base size.
Emptied(p) ==
  TextOutSetMode([p EXCEPT !.maxMode = 1, !.query[0] = Base], 0)

\* The mode is not set again: the number that was current is kept, or the
\* intersection adapts it.
DriverBindingStop(s, d, failing) ==
  /\ d \in Consoles(splitter[s])
  /\ LET p == Removed(splitter[s], d)
     IN  IF p.count = 0
         THEN Becomes([World EXCEPT !.splitter[s] = Emptied(p)])
         ELSE Becomes(GetIntersectionBetweenConOutAndStrErr(
                [World EXCEPT !.splitter[s] = Rebuilt(p)], failing))

\* The driver of a console that no splitter uses goes, and comes back.
Restarted(d) ==
  /\ \A s \in Splitters : d \notin Consoles(splitter[s])
  /\ console' = [console EXCEPT ![d] = 0]
  /\ UNCHANGED <<splitter, preferred>>

-----------------------------------------------------------------------------
(* Calls on a splitter.                                                     *)

SetMode(s, m, failing) ==
  Becomes(WithMode(World, s, m, failing).w)

\* Every console goes to its mode 0.
TextOutReset(s, failing) ==
  /\ splitter' = [splitter EXCEPT ![s] = TextOutSetMode(@, 0)]
  /\ console' = [d \in Outputs |->
       IF d \in Consoles(splitter[s]) \ failing THEN 0 ELSE console[d]]
  /\ UNCHANGED preferred

\* What one character does to the cursor of a splitter without consoles.
Moved(cursor, size, char) ==
  LET column == cursor[1]
      row == cursor[2]
      down == IF row < size[2] - 1 THEN row + 1 ELSE row
  IN  CASE char = "backspace" /\ column = 0 /\ row > 0 -> <<size[1] - 1, row - 1>>
        [] char = "backspace" /\ column > 0 -> <<column - 1, row>>
        [] char = "linefeed" -> <<column, down>>
        [] char = "return" -> <<0, row>>
        [] char = "glyph" /\ column < size[1] - 1 -> <<column + 1, row>>
        [] char = "glyph" /\ column >= size[1] - 1 -> <<0, down>>
        [] OTHER -> cursor

OutputString(s, char) ==
  LET p == splitter[s]
  IN  /\ p.count = 0
      /\ splitter' = [splitter EXCEPT
           ![s].cursor = Moved(@, SizeOf(p, p.mode), char)]
      /\ UNCHANGED <<console, preferred>>

SetCursorPosition(s, cursor) ==
  LET size == SizeOf(splitter[s], splitter[s].mode)
  IN  /\ splitter[s].count = 0
      /\ cursor[1] < size[1] /\ cursor[2] < size[2]
      /\ splitter' = [splitter EXCEPT ![s].cursor = cursor]
      /\ UNCHANGED <<console, preferred>>

Chars == {"backspace", "linefeed", "return", "glyph"}

Counted(failed, stopped) ==
  /\ outFaults' = outFaults + failed
  /\ stops' = stops + stopped
  /\ outFaults' <= MaxOutFaults
  /\ stops' + outFaults' <= MaxDisruptions

OutNext ==
  \/ /\ Counted(0, 0)
     /\ \/ \E d \in Outputs : Restarted(d)
        \/ \E s \in Splitters :
             \/ \E char \in Chars : OutputString(s, char)
             \/ \E cursor \in (0..Base[1]) \X (0..Base[2]) : SetCursorPosition(s, cursor)
  \/ \E s \in Splitters, d \in Outputs, f \in OneFailure :
       /\ Counted(IF f = NoFailures THEN 0 ELSE 1, 0)
       /\ DriverBindingStart(s, d, f)
  \/ \E s \in Splitters, failing \in OneFailing :
       /\ Counted(Cardinality(failing), 0)
       /\ (\E m \in 0..splitter[s].maxMode : SetMode(s, m, failing)) \/ TextOutReset(s, failing)
  \/ \E s \in Splitters, d \in Outputs, failing \in OneFailing :
       /\ Counted(Cardinality(failing), 1)
       /\ DriverBindingStop(s, d, failing)

OutSpec == OutInit /\ [][OutNext]_outVars

-----------------------------------------------------------------------------
(* Properties.                                                              *)

\* Type correctness; in particular a splitter's current mode is one of its
\* modes whatever the removals and intersections did to the numbering.
OutTypeOK ==
  /\ \A s \in Splitters :
       LET p == splitter[s]
       IN  /\ p.slots \in [0..(Slots - 1) -> Outputs \cup {NoDevice}]
           /\ p.count \in 0..Cardinality(Outputs)
           /\ p.maxMode \in 1..Rows
           /\ p.mode \in 0..(p.maxMode - 1)
           /\ p.map # NoMap => p.map \in [0..(Rows - 1) -> [0..(Slots - 1) -> -1..(Rows - 1)]]
           /\ p.count > 0 => p.map # NoMap
  /\ \A d \in Outputs : Accepts(d, console[d])
  /\ preferred \in {Preferred, Base}

\* A mode that QueryMode reports has the reported size on every console of the
\* splitter, under the number that the map has for it there
\* (ConSplitterSyncOutputMode, ConSplitterGetIntersection).
ModesMapped ==
  \A s \in Splitters : LET p == splitter[s] IN p.count > 0 =>
    \A m \in 0..(p.maxMode - 1), i \in Columns(p) :
      QueryMode(p, m) =>
        /\ Accepts(p.slots[i], p.map[m][i])
        /\ TextModes[p.slots[i]][p.map[m][i]] = SizeOf(p, m)

\* When ConOut's first console is one of StdErr's, the two offer the same
\* sizes besides modes 0 and 1
\* (ConSplitterGetIntersectionBetweenConOutAndStrErr).
SharedModesMatch ==
  LET out == splitter["ConOut"]
      err == splitter["StdErr"]
      sizes(p) == {SizeOf(p, m) : m \in 2..(p.maxMode - 1)}
  IN  out.count > 0 /\ out.slots[0] \in Consoles(err) => sizes(out) = sizes(err)

\* Without consoles the cursor stays on the 40x12 screen
\* (ConSplitterTextOutOutputString).
CursorOnScreen ==
  \A s \in Splitters : LET p == splitter[s] IN p.count = 0 =>
    /\ p.cursor[1] \in 0..(Base[1] - 1)
    /\ p.cursor[2] \in 0..(Base[2] - 1)

\* When a console was added and no call failed, every console of the splitter
\* is in the size that the splitter says it is in
\* (ConSplitterTextOutAddDevice, ConsplitterSetConsoleOutMode).
AddedConsolesAgree ==
  [][\A s \in Splitters, d \in Outputs :
       /\ splitter'[s].count > splitter[s].count
       /\ DriverBindingStart(s, d, NoFailures)
       => \A c \in Consoles(splitter'[s]) :
           Shows(console', c) = SizeOf(splitter'[s], splitter'[s].mode)]_outVars

\* Entering another mode that QueryMode reports brings every console to the
\* reported size (ConSplitterTextOutSetMode).
ModeEntered ==
  [][\A s \in Splitters, m \in 0..Rows :
       /\ m # splitter[s].mode
       /\ m = splitter'[s].mode
       /\ QueryMode(splitter[s], m)
       /\ SetMode(s, m, {})
       => \A d \in Consoles(splitter[s]) :
            Shows(console', d) = SizeOf(splitter[s], m)]_outVars

\* Modes, map and consoles of the two splitters fit together, and the cursor of
\* one without consoles fits its screen.
OutputsAgree == OutTypeOK /\ ModesMapped /\ SharedModesMatch /\ CursorOnScreen

\* A mode is entered by all consoles of a splitter: when one is added, and when a
\* client sets it.
ModesEntered == AddedConsolesAgree /\ ModeEntered
=============================================================================
