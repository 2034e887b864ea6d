--------------------------- MODULE GraphicsConsole --------------------------
(* Drivers/GraphicsConsoleDxe/GraphicsConsole.c: text on a graphics output, *)
(* and Drivers/SimpleFbDxe/SimpleFbDxe.c, the one graphics output of this   *)
(* tree.  The cursor is drawn by inverting its cell (FlushCursor): drawn    *)
(* twice it is gone, so that every call must draw it an odd number of times *)
(* at its new place.  All calls are at TPL_NOTIFY; OutputString is a step   *)
(* per turn of its loop.  This build has DEBUG_CODE and no UGA.             *)
EXTENDS Integers, SequencesExt, FiniteSetsExt

CONSTANTS
  Gops,           \* graphics outputs: modes, mode, those it cannot set, device path
  Pcds,           \* PcdVideoHorizontalResolution and PcdVideoVerticalResolution
  Glyph,          \* width and height of a cell: 8x19
  BaseMode,       \* the size of text mode 0: 40x12
  SecondMode,     \* the size of text mode 1: 80x50
  ModeTable,      \* mGraphicsConsoleModeData without its last entry
  DefaultSize,    \* 800x600
  Strings,        \* what is output
  Banner,         \* "Graphics Console Started\n\r"
  Attributes,     \* what SetAttribute is called with
  Positions,      \* where SetCursorPosition is called for
  MaxOutputs,     \* bound: strings output
  MaxGcFaults     \* bound: allocations and installations that fail

Sizes == Nat \X Nat
\* Text mode 0 fits on the screen.
Resolutions == {r \in Sizes : \A i \in 1..2 : BaseMode[i] * Glyph[i] <= r[i]}

ASSUME GcAssumption ==
  /\ {Glyph, BaseMode, SecondMode} \subseteq (Nat \ {0}) \X (Nat \ {0})
  /\ BaseMode # SecondMode
  /\ ModeTable \in Seq(Sizes) /\ DefaultSize \in Sizes
  /\ \A g \in Gops : /\ g.modes \in Seq(Resolutions) /\ g.mode \in 0..(Len(g.modes) - 1)
                     /\ g.broken \in SUBSET Nat /\ g.path \in BOOLEAN
  /\ Pcds \subseteq Sizes /\ Attributes \subseteq Nat /\ Positions \subseteq Sizes
  /\ Strings \subseteq Seq(STRING) /\ Banner \in Seq(STRING)
  /\ MaxOutputs \in Nat /\ MaxGcFaults \in Nat

VARIABLES
  gop,            \* the graphics output and who has it open
  gc,             \* the console device: modes, lineBuffer, and where it stands
  scr,            \* SIMPLE_TEXT_OUTPUT_MODE, the cells and the cursor's ink
  out,            \* OutputString: the rest of the string
  outputs, gcFaults,
  plain           \* history: all that was to be drawn since the last fill was

gcVars == <<gop, gc, scr, out, outputs, gcFaults, plain>>
gcOther == <<outputs, gcFaults>>

NoWindow == <<0, 0>>
NoGc == [modes |-> <<>>, lineBuffer |-> "NULL", at |-> "stopped"]
Quiet == [active |-> FALSE, rest |-> <<>>, wide |-> FALSE, ideal |-> <<>>]

\* mGraphicsConsoleDevTemplate.
Template == [mode |-> -1, attr |-> 7, wide |-> FALSE, col |-> 0, row |-> 0,
             visible |-> TRUE, cells |-> <<>>, ink |-> {}]

-----------------------------------------------------------------------------
(* The text modes of a resolution.                                          *)

Fits(size, max) == size[1] \in 1..max[1] /\ size[2] \in 1..max[2]

TextMode(size, res, number) ==
  [size |-> size, res |-> res, gopMode |-> number,
   delta |-> [i \in 1..2 |-> (res[i] - size[i] * Glyph[i]) \div 2]]

\* Mode 0 always, mode 1 or an empty place, then what else fits, once each;
\* the last entry of the table is the full screen.
ListedSizes(max) ==
  LET fixed == <<BaseMode, IF Fits(SecondMode, max) THEN SecondMode ELSE NoWindow>>
      entries == Append(ModeTable, max)
      Add(sizes, size) ==
        IF Fits(size, max) /\ size \notin ToSet(sizes) THEN Append(sizes, size) ELSE sizes
      listed[n \in 0..Len(entries)] ==
        IF n = 0 THEN fixed ELSE Add(listed[n - 1], entries[n])
  IN  listed[Len(entries)]

InitializeGraphicsConsoleTextMode(res, number) ==
  LET sizes == ListedSizes(<<res[1] \div Glyph[1], res[2] \div Glyph[2]>>)
  IN  [i \in DOMAIN sizes |-> TextMode(sizes[i], res, number)]

Window(s) == gc.modes[s.mode + 1].size
Cells(size) == (0..(size[1] - 1)) \X (0..(size[2] - 1))

GraphicsConsoleConOutQueryMode(m) ==
  m \in 0..(Len(gc.modes) - 1) /\ gc.modes[m + 1].size # NoWindow

-----------------------------------------------------------------------------
(* The screen.  Foreground and background are the low and high four bits of *)
(* the attribute; inverting with black leaves no ink.                       *)

GetTextColors(s) == [fore |-> s.attr % 16, back |-> s.attr \div 16]

FlushCursor(s) ==
  LET mark == {<<s.col, s.row, GetTextColors(s).fore>>}
  IN  IF ~s.visible \/ GetTextColors(s).fore = 0 THEN s
      ELSE [s EXCEPT !.ink = (@ \ mark) \cup (mark \ @)]

Filled(s, size) == [s EXCEPT !.cells = [c \in Cells(size) |-> " "], !.ink = {}]

\* What the font draws of a character (external): "?" has no glyph and is
\* left out, "w" is two cells wide.
GlyphCells(ch) == CASE ch = "?" -> <<>> [] ch = "w" -> <<"w", "w">> [] OTHER -> <<ch>>

DrawUnicodeWeightAtCursorN(s, str, done) ==
  LET image == FlattenSeq([i \in DOMAIN str |-> GlyphCells(str[i])])
      Covers(col, row) == row = s.row /\ col - s.col + 1 \in DOMAIN image
  IN  IF ~done THEN s
      ELSE [s EXCEPT
              !.cells = [c \in DOMAIN @ |-> IF Covers(c[1], c[2]) THEN image[c[1] - s.col + 1] ELSE @[c]],
              !.ink = {i \in @ : ~Covers(i[1], i[2])}]

\* The last row scrolls, with the ink that is in the window.
LineFeed(s) ==
  LET size == Window(s)
      last == size[2] - 1
  IN  IF s.row # last THEN [s EXCEPT !.row = @ + 1]
      ELSE [s EXCEPT
              !.cells = [c \in DOMAIN @ |-> IF c[2] = last THEN " " ELSE @[<<c[1], c[2] + 1>>]],
              !.ink = {i \in @ : i[1] >= size[1]}
                      \cup {<<i[1], i[2] - 1, i[3]>> : i \in {j \in @ : j[1] < size[1] /\ j[2] > 0}}]

CarriageReturn(s) == [s EXCEPT !.col = 0]

\* OutputString of mCrLfString, from within OutputString.
CrLf(s) == FlushCursor(LineFeed(CarriageReturn(FlushCursor(s))))

\* Mutant: the cursor drawn at the start of the next line stays.
WrapLeavingCursor(s) == IF s.col >= Window(s)[1] THEN CrLf(FlushCursor(s)) ELSE s

Wrap(s) == IF s.col >= Window(s)[1] THEN FlushCursor(CrLf(FlushCursor(s))) ELSE s

\* OutputString of SpaceStr, which begins with NARROW_CHAR.
Space(s, done) ==
  LET drawn == DrawUnicodeWeightAtCursorN([FlushCursor(s) EXCEPT !.wide = FALSE], <<" ">>, done)
  IN  FlushCursor([Wrap([drawn EXCEPT !.col = @ + 1]) EXCEPT !.wide = s.wide])

Backspace(s, done) ==
  LET last == Window(s)[1] - 1
  IN  CASE s.col = 0 /\ s.row > 0 ->
             [FlushCursor(Space([s EXCEPT !.row = @ - 1, !.col = last], done))
                EXCEPT !.row = @ - 1, !.col = last]
        [] s.col > 0 ->
             [FlushCursor(Space([s EXCEPT !.col = @ - 1], done)) EXCEPT !.col = @ - 1]
        [] OTHER -> s

Controls == {"BS", "LF", "CR", "WIDE", "NARROW"}

\* Mutant: the wide character that does not fit is counted.
RunCountingLast(s, str) ==
  LET n == CHOOSE k \in 0..Len(str) :
             /\ \A i \in 1..k : str[i] \notin Controls
             /\ k < Len(str) => str[k + 1] \in Controls
      room == Window(s)[1] - s.col
      whole == IF n < room \div 2 THEN n ELSE room \div 2
      cut == n > whole /\ room % 2 = 1
  IN  IF ~s.wide THEN LET k == IF n < room THEN n ELSE room IN [count |-> k, units |-> k]
      ELSE [count |-> IF cut THEN whole + 1 ELSE whole, units |-> 2 * whole + (IF cut THEN 2 ELSE 0)]

\* How many characters and how many cells the line takes; a wide character of
\* which only one half would fit counts its cells but is not taken.
Run(s, str) ==
  LET n == CHOOSE k \in 0..Len(str) :
             /\ \A i \in 1..k : str[i] \notin Controls
             /\ k < Len(str) => str[k + 1] \in Controls
      room == Window(s)[1] - s.col
      whole == IF n < room \div 2 THEN n ELSE room \div 2
      cut == n > whole /\ room % 2 = 1
  IN  IF ~s.wide THEN LET k == IF n < room THEN n ELSE room IN [count |-> k, units |-> k]
      ELSE [count |-> whole, units |-> 2 * whole + (IF cut THEN 2 ELSE 0)]

\* A run is drawn; past the line's end the last column is cleared instead.
Printed(s, str, done, doneSpace) ==
  LET run == Run(s, str)
      drawn == DrawUnicodeWeightAtCursorN(s, SubSeq(str, 1, run.count), done)
      moved == [drawn EXCEPT !.col = @ + run.units]
  IN  Wrap(IF moved.col > Window(s)[1] THEN Space([moved EXCEPT !.col = @ - 2], doneSpace) ELSE moved)

-----------------------------------------------------------------------------
(* SetMode.                                                                 *)

Home(s) == [s EXCEPT !.col = 0, !.row = 0]

ClearScreen(s) == FlushCursor(Home(Filled(s, Window(s))))

Result(s, buffer, number, status) ==
  [scr |-> s, gc |-> [gc EXCEPT !.lineBuffer = buffer],
   gop |-> [gop EXCEPT !.mode = number], status |-> status]

Refused(status) == Result(scr, gc.lineBuffer, gop.mode, status)

\* The same mode again only clears.  For another one the line buffer is freed
\* before the new one is allocated, and its pointer stays if that fails: the
\* next other mode, and Stop, free it again.
GraphicsConsoleConOutSetMode(s, m, alloc) ==
  LET mode == gc.modes[m + 1]
      had == gc.lineBuffer # "NULL"
      erased == IF had THEN FlushCursor(s) ELSE s
      black == [Filled(Home(erased), mode.size) EXCEPT !.mode = m]
  IN  CASE m \notin 0..(Len(gc.modes) - 1) -> Refused("UNSUPPORTED")
        [] m \in 0..(Len(gc.modes) - 1) /\ mode.size = NoWindow -> Refused("UNSUPPORTED")
        [] GraphicsConsoleConOutQueryMode(m) /\ had /\ m = s.mode ->
             Result(ClearScreen(s), gc.lineBuffer, gop.mode, "SUCCESS")
        [] OTHER ->
             IF ~alloc
             THEN Result(erased, IF had THEN "freed" ELSE "NULL", gop.mode, "OUT_OF_RESOURCES")
             ELSE IF mode.gopMode # gop.mode /\ mode.gopMode \in gop.broken
             THEN Result(erased, "allocated", gop.mode, "DEVICE_ERROR")
             ELSE Result(FlushCursor(black), "allocated", mode.gopMode, "SUCCESS")

Take(w) ==
  /\ scr' = w.scr
  /\ gc' = w.gc
  /\ gop' = w.gop

\* A line buffer is only allocated for another mode.
Allocates(ok, w) == ok \/ w.status = "OUT_OF_RESOURCES"

\* Bound: failures.
Fault(ok) ==
  /\ ok \/ gcFaults < MaxGcFaults
  /\ gcFaults' = IF ok THEN gcFaults ELSE gcFaults + 1

-----------------------------------------------------------------------------
(* The driver binding.  The core (external) calls Start when Supported      *)
(* agrees.                                                                  *)

\* The outputs that ConSplitter produces have no device path.
GraphicsConsoleControllerDriverSupported == gop.openBy = "none" /\ gop.path /\ gop.hii

RegisterFontPackage ==
  /\ ~gop.hii
  /\ gop' = [gop EXCEPT !.hii = TRUE]
  /\ UNCHANGED <<gc, scr, out, gcOther, plain>>

\* The first mode of that resolution, which is also set unless the current
\* one has it.  (Modes are counted from 0.)
CheckModeSupported(res) ==
  LET same == {m \in DOMAIN gop.modes : gop.modes[m] = res}
      current == gop.modes[gop.mode + 1] = res
      settable == IF current THEN same ELSE {m \in same : m - 1 \notin gop.broken}
      number == IF settable = {} THEN Len(gop.modes) ELSE Min(settable) - 1
  IN  [number |-> number, ok |-> settable # {},
       mode |-> IF current \/ settable = {} THEN gop.mode ELSE number]

\* By width and then height.
Smaller(p, q) == p[1] < q[1] \/ (p[1] = q[1] /\ p[2] < q[2])

\* The largest, the first of equals.
LargestMode ==
  LET best == {m \in DOMAIN gop.modes :
                 \A k \in DOMAIN gop.modes : ~Smaller(gop.modes[m], gop.modes[k])}
  IN  Min(best) - 1

\* The resolution and the mode's number; the PCD's, 800x600, or the current.  With
\* a PCD of 0 it is the largest, if that is larger than the PCDs.
ChosenMode(pcd) ==
  LET first == CheckModeSupported(pcd)
      second == CheckModeSupported(DefaultSize)
  IN  IF pcd[1] = 0 \/ pcd[2] = 0
      THEN [res |-> gop.modes[LargestMode + 1], number |-> LargestMode, mode |-> gop.mode,
            ok |-> Smaller(pcd, gop.modes[LargestMode + 1])]
      ELSE IF first.ok
      THEN [res |-> pcd, number |-> first.number, mode |-> first.mode, ok |-> TRUE]
      ELSE IF second.ok
      THEN [res |-> DefaultSize, number |-> second.number, mode |-> second.mode, ok |-> TRUE]
      ELSE [res |-> gop.modes[gop.mode + 1], number |-> gop.mode, mode |-> gop.mode, ok |-> TRUE]

GraphicsConsoleControllerDriverStart(alloc) ==
  LET chosen == ChosenMode(gop.pcd)
      sets == chosen.number # chosen.mode
      fails == ~alloc \/ ~chosen.ok \/ (sets /\ chosen.number \in gop.broken)
  IN  /\ gc.at = "stopped" /\ GraphicsConsoleControllerDriverSupported
      /\ Fault(alloc)
      /\ gop' = IF ~alloc THEN gop
                ELSE [gop EXCEPT !.mode = IF sets /\ ~fails THEN chosen.number ELSE chosen.mode,
                                 !.openBy = IF fails THEN "none" ELSE "console"]
      /\ gc' = IF fails THEN gc
               ELSE [gc EXCEPT !.modes = InitializeGraphicsConsoleTextMode(chosen.res, chosen.number), !.at = "modes"]
      /\ UNCHANGED <<scr, out, outputs, plain>>

\* The label Error of Start, and Stop.
Released ==
  /\ gop' = [gop EXCEPT !.openBy = "none"]
  /\ gc' = NoGc
  /\ scr' = Template

Begins(s, str) ==
  [active |-> TRUE, rest |-> str, wide |-> s.wide, ideal |-> <<s, str>>]

\* DEBUG_CODE: mode 0 is set and the banner is output.
StartSetsMode(alloc) ==
  LET w == GraphicsConsoleConOutSetMode(scr, 0, alloc)
  IN  /\ gc.at = "modes"
      /\ Fault(alloc)
          /\ IF w.status = "SUCCESS"
         THEN /\ gop' = w.gop
              /\ gc' = [w.gc EXCEPT !.at = "banner"]
              /\ scr' = FlushCursor(w.scr)
              /\ out' = Begins(w.scr, Banner)
              /\ plain' = TRUE
         ELSE Released /\ UNCHANGED <<out, plain>>
      /\ UNCHANGED outputs

StartInstalls(installed) ==
  /\ gc.at = "banner" /\ ~out.active
  /\ Fault(installed)
  /\ IF installed
     THEN gc' = [gc EXCEPT !.at = "installed"] /\ UNCHANGED <<gop, scr>>
     ELSE Released
  /\ UNCHANGED <<out, outputs, plain>>

\* A client that holds the console open (external) makes the uninstallation fail.
GraphicsConsoleControllerDriverStop(uninstalled) ==
  /\ gc.at = "installed" /\ ~out.active
  /\ Fault(uninstalled)
  /\ IF uninstalled THEN Released
     ELSE UNCHANGED <<gop, gc, scr>>
  /\ UNCHANGED <<out, outputs, plain>>

-----------------------------------------------------------------------------
(* The console's calls.                                                     *)

InUse == gc.at = "installed" /\ ~out.active

SetMode(m, alloc) ==
  LET w == GraphicsConsoleConOutSetMode(scr, m, alloc)
  IN  /\ InUse /\ Allocates(alloc, w)
      /\ Fault(alloc)
      /\ Take(w)
      /\ plain' = (IF w.status = "SUCCESS" THEN TRUE ELSE w.status = "UNSUPPORTED" /\ plain)
      /\ UNCHANGED <<out, outputs>>

GraphicsConsoleConOutSetAttribute(s, attr) ==
  IF attr >= 128 \/ attr = s.attr THEN s
  ELSE FlushCursor([FlushCursor(s) EXCEPT !.attr = attr])

SetAttribute(attr) ==
  /\ InUse
  /\ scr' = GraphicsConsoleConOutSetAttribute(scr, attr)
  /\ UNCHANGED <<gop, gc, out, gcOther, plain>>

\* On black, in the colour it has.
GraphicsConsoleConOutReset(alloc) ==
  LET w == GraphicsConsoleConOutSetMode(scr, 0, alloc)
      reset == GraphicsConsoleConOutSetAttribute(w.scr, GetTextColors(w.scr).fore)
  IN  /\ InUse /\ Allocates(alloc, w)
      /\ Fault(alloc)
      /\ Take(IF w.status = "SUCCESS" THEN [w EXCEPT !.scr = reset] ELSE w)
      /\ plain' = (w.status = "SUCCESS")
      /\ UNCHANGED <<out, outputs>>

GraphicsConsoleConOutClearScreen ==
  /\ InUse
  /\ scr' = ClearScreen(scr)
  /\ plain' = TRUE
  /\ UNCHANGED <<gop, gc, out, gcOther>>

SetCursor(s, col, row) ==
  IF col >= Window(s)[1] \/ row >= Window(s)[2] \/ (col = s.col /\ row = s.row) THEN s
  ELSE FlushCursor([FlushCursor(s) EXCEPT !.col = col, !.row = row])

GraphicsConsoleConOutSetCursorPosition(col, row) ==
  /\ InUse
  /\ scr' = SetCursor(scr, col, row)
  /\ UNCHANGED <<gop, gc, out, gcOther, plain>>

GraphicsConsoleConOutEnableCursor(visible) ==
  /\ InUse
  /\ scr' = FlushCursor([FlushCursor(scr) EXCEPT !.visible = visible])
  /\ UNCHANGED <<gop, gc, out, gcOther, plain>>

GraphicsConsoleConOutTestString(str) == "?" \notin ToSet(str)

-----------------------------------------------------------------------------
(* OutputString.                                                            *)

GraphicsConsoleConOutOutputString(str) ==
  /\ InUse /\ outputs < MaxOutputs
  /\ outputs' = outputs + 1
  /\ scr' = FlushCursor(scr)
  /\ out' = Begins(scr, str)
  /\ UNCHANGED <<gop, gc, gcFaults, plain>>

Turn(s, eaten) ==
  /\ scr' = s
  /\ out' = [out EXCEPT !.rest = SubSeq(@, eaten + 1, Len(@))]
  /\ UNCHANGED <<gop, gc, outputs>>

At(ch) == out.active /\ out.rest # <<>> /\ Head(out.rest) = ch

OutputBackspace(done) ==
  /\ At("BS")
  /\ Fault(done)
  /\ Turn(Backspace(scr, done), 1)
  /\ plain' = (plain /\ done)

OutputLineFeed == At("LF") /\ Turn(LineFeed(scr), 1) /\ UNCHANGED <<gcFaults, plain>>
OutputCarriageReturn == At("CR") /\ Turn(CarriageReturn(scr), 1) /\ UNCHANGED <<gcFaults, plain>>

OutputWidth ==
  /\ At("WIDE") \/ At("NARROW")
  /\ Turn([scr EXCEPT !.wide = At("WIDE")], 1)
  /\ UNCHANGED <<gcFaults, plain>>

OutputRun(done, doneSpace) ==
  LET run == Run(scr, out.rest)
  IN  /\ out.active /\ out.rest # <<>> /\ Head(out.rest) \notin Controls
      /\ Fault(done /\ doneSpace)
      /\ scr' = Printed(scr, out.rest, done, doneSpace)
      /\ out' = [out EXCEPT !.rest = SubSeq(@, run.count + 1, Len(@))]
      /\ plain' = (plain /\ done /\ doneSpace
                     /\ GraphicsConsoleConOutTestString(SubSeq(out.rest, 1, run.count)))
      /\ UNCHANGED <<gop, gc, outputs>>

\* The attribute is restored.
OutputEnds ==
  /\ out.active /\ out.rest = <<>>
  /\ scr' = FlushCursor([scr EXCEPT !.wide = out.wide])
  /\ out' = Quiet
  /\ UNCHANGED <<gop, gc, gcOther, plain>>

OutputStep ==
  \/ \E done \in BOOLEAN : OutputBackspace(done)
  \/ OutputLineFeed
  \/ OutputCarriageReturn
  \/ OutputWidth
  \/ \E done, doneSpace \in BOOLEAN : OutputRun(done, doneSpace)
  \/ OutputEnds

-----------------------------------------------------------------------------
\* SimpleFbDxeInitialize: the frame buffer's one mode, set from the start.
SimpleFb(res) == [modes |-> <<res>>, mode |-> 0, broken |-> {}, path |-> TRUE]

GcInit ==
  /\ gop \in {[modes |-> g.modes, mode |-> g.mode, broken |-> g.broken, path |-> g.path,
               pcd |-> pcd, hii |-> FALSE, openBy |-> "none"] : g \in Gops, pcd \in Pcds}
  /\ gc = NoGc /\ scr = Template /\ out = Quiet
  /\ outputs = 0 /\ gcFaults = 0 /\ plain = TRUE

GcBinding ==
  \/ RegisterFontPackage
  \/ \E ok \in BOOLEAN :
       \/ GraphicsConsoleControllerDriverStart(ok) \/ StartSetsMode(ok)
       \/ StartInstalls(ok) \/ GraphicsConsoleControllerDriverStop(ok)

GcCall ==
  \/ \E m \in 0..4, ok \in BOOLEAN : SetMode(m, ok)
  \/ \E ok \in BOOLEAN : GraphicsConsoleConOutReset(ok)
  \/ \E attr \in Attributes : SetAttribute(attr)
  \/ GraphicsConsoleConOutClearScreen
  \/ \E p \in Positions : GraphicsConsoleConOutSetCursorPosition(p[1], p[2])
  \/ \E visible \in BOOLEAN : GraphicsConsoleConOutEnableCursor(visible)
  \/ \E str \in Strings : GraphicsConsoleConOutOutputString(str)

GcNext == GcBinding \/ GcCall \/ OutputStep
GcSpec == GcInit /\ [][GcNext]_gcVars

-----------------------------------------------------------------------------
GcTypeOK ==
  /\ gop.mode \in 0..(Len(gop.modes) - 1) /\ gop.openBy \in {"none", "console"}
  /\ gc.at \in {"stopped", "modes", "banner", "installed"}
  /\ gc.lineBuffer \in {"NULL", "allocated", "freed"}
  /\ scr.mode \in -1..(Len(gc.modes) - 1)
  /\ out.active => gc.at \in {"banner", "installed"}
  /\ gcFaults \in 0..MaxGcFaults

\* Between calls a visible cursor is drawn once, where the mode says it is and
\* in its colour (black leaves no mark), and there is no other mark on the
\* screen: the calls of FlushCursor of every operation, nested OutputString
\* calls included, pair up.  (Unless something could not be drawn over it.)
Mark(s) ==
  IF s.visible /\ GetTextColors(s).fore # 0
  THEN {<<s.col, s.row, GetTextColors(s).fore>>} ELSE {}
CursorDrawnOnce == InUse /\ plain => scr.ink = Mark(scr)

\* A position past the right or the lower edge never lasts beyond a turn of
\* OutputString's loop, so that the next run starts in the window.
CursorInWindow ==
  scr.mode # -1 => /\ scr.col \in 0..(Window(scr)[1] - 1)
                   /\ scr.row \in 0..(Window(scr)[2] - 1)

\* A terminal that takes a character at a time.
Put(t, ch, width) ==
  [t EXCEPT !.cells = [c \in DOMAIN @ |-> IF c[2] = t.row /\ c[1] \in t.col..(t.col + width - 1) THEN ch ELSE @[c]],
            !.col = @ + width]
NextLine(t) == LineFeed([t EXCEPT !.col = 0])
AtEdge(t) == IF t.col = Window(t)[1] THEN NextLine(t) ELSE t

Typed(t, ch) ==
  CASE ch = "LF" -> LineFeed(t)
    [] ch = "CR" -> [t EXCEPT !.col = 0]
    [] ch = "WIDE" -> [t EXCEPT !.wide = TRUE]
    [] ch = "NARROW" -> [t EXCEPT !.wide = FALSE]
    [] ch = "BS" /\ t.col > 0 -> [Put([t EXCEPT !.col = @ - 1], " ", 1) EXCEPT !.col = @ - 1]
    [] ch = "BS" /\ t.col = 0 /\ t.row > 0 ->
         [Put([t EXCEPT !.row = @ - 1, !.col = Window(t)[1] - 1], " ", 1) EXCEPT !.col = @ - 1]
    [] ch = "BS" /\ t.col = 0 /\ t.row = 0 -> t
    [] ch \notin Controls /\ t.wide /\ t.col = Window(t)[1] - 1 ->
         AtEdge(Put(NextLine(Put(t, " ", 1)), ch, 2))
    [] OTHER -> AtEdge(Put(t, ch, IF t.wide THEN 2 ELSE 1))

\* Drawing runs of characters, with the blanks and line ends that OutputString
\* inserts by calling itself, leaves the text and the cursor that typing the
\* string a character at a time would.
TextAsTyped ==
  [][out.active /\ ~out'.active /\ plain' =>
       LET t == FoldLeft(Typed, out.ideal[1], out.ideal[2])
       IN  scr'.cells = t.cells /\ scr'.col = t.col /\ scr'.row = t.row]_gcVars

\* InitializeGraphicsConsoleTextMode lists no size twice, every mode's window
\* lies within the screen, and as much of the screen as cells fill is a mode.
ModesUsable ==
  LET sizes(m) == gc.modes[m].size
      max == <<gc.modes[1].res[1] \div Glyph[1], gc.modes[1].res[2] \div Glyph[2]>>
  IN  gc.modes # <<>> =>
        /\ \A m, k \in DOMAIN gc.modes : sizes(m) = sizes(k) => m = k
        /\ \A m \in DOMAIN gc.modes, i \in 1..2 :
             /\ gc.modes[m].delta[i] >= 0
             /\ gc.modes[m].delta[i] + sizes(m)[i] * Glyph[i] <= gc.modes[m].res[i]
        /\ max \in {sizes(m) : m \in DOMAIN gc.modes}

\* The mode in use is one that QueryMode reports, shown by the graphics mode
\* it was made for, on cells of its size.
ModeShown ==
  scr.mode # -1 =>
    /\ GraphicsConsoleConOutQueryMode(scr.mode)
    /\ gc.modes[scr.mode + 1].gopMode = gop.mode
    /\ gc.modes[scr.mode + 1].res = gop.modes[gop.mode + 1]
    /\ DOMAIN scr.cells = Cells(Window(scr))

\* Whatever fails in Start or Stop, the output is open exactly as long as a
\* console is on it: not left open, and not closed under a console.
OutputHeldByConsole == gop.openBy = "console" <=> gc.at # "stopped"

\* A console runs at the PCD's resolution if the output has a mode of it that
\* can be set, whatever the order of its modes.
PcdResolutionUsed ==
  LET usable == \E m \in DOMAIN gop.modes : gop.modes[m] = gop.pcd /\ m - 1 \notin gop.broken
  IN  gc.at # "stopped" /\ usable => gc.modes[1].res = gop.pcd

\* The loop of OutputString ends: a turn that takes no character has moved a
\* wide one, which did not fit, to the start of a line.
TurnsAdvance ==
  [][out.active /\ out'.active =>
       \/ Len(out'.rest) < Len(out.rest)
       \/ out'.rest = out.rest /\ scr.wide /\ scr.col > 0 /\ scr'.col = 0]_gcVars

\* The comment in SetMode at the failed allocation: "No changes to the state of
\* the current console have been made, so the current console is still valid".
FailedSetModeKeepsConsole ==
  [][\A m \in 0..(Len(gc.modes) - 1) :
       SetMode(m, FALSE) => scr' = scr /\ gc' = gc]_gcVars

\* Modes, window, cursor and screen of the console fit together, whatever failed.
ConsoleShown ==
  /\ GcTypeOK /\ CursorDrawnOnce /\ CursorInWindow /\ ModesUsable /\ ModeShown
  /\ OutputHeldByConsole /\ PcdResolutionUsed

\* Strings are drawn to their end, as they would be typed.
StringsTyped == TextAsTyped /\ TurnsAdvance
=============================================================================
