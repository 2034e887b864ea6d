------------------------- MODULE ConSplitterGraphics -------------------------
(* The graphics output of ConSplitterDxe (ConSplitterGraphics.c and the     *)
(* parts of ConSplitter.c that build its modes): one Graphics Output        *)
(* protocol for the screens of all consoles, whose modes are the            *)
(* resolutions that they share.  A resolution stands for a mode's           *)
(* information.  UGA is left out of this build.                             *)
EXTENDS Integers, FiniteSets, SequencesExt

CONSTANTS
  GopModes,     \* [screens -> resolutions of their modes, the first is mode 0]
  GopStart,     \* [screens -> the mode they are in when they are added]
  TextOnly,     \* consoles without a screen
  DefaultRes,   \* 800x600
  Colours,      \* what the screens are filled with
  CountWidth,   \* 2^64 of UINTN
  MaxCsgFaults  \* bound: calls that fail

Screens == DOMAIN GopModes

ASSUME CsgAssumption ==
  /\ \A g \in Screens : GopModes[g] # <<>> /\ GopStart[g] \in 0 .. Len(GopModes[g]) - 1
  /\ CountWidth > Cardinality(Screens) + 1 /\ MaxCsgFaults \in Nat

VARIABLES
  csg,       \* TextOutList, and what the splitter keeps of its graphics output
  gopMode,   \* the mode each screen is in
  gopShows,  \* a colour that fills each screen
  csgPast    \* history: adds that failed before they counted, calls that failed,
             \* a screen removed beside another, the colour last shown on all
csgVars == <<csg, gopMode, gopShows, csgPast>>

Unset == <<0, 0>>
NoMode == 65535

ScreensOf(list) == {list[i] : i \in DOMAIN list} \cap Screens
ResOf(g, modes) == GopModes[g][modes[g] + 1]

\* The first mode of a resolution; behind the last if there is none.
ModeOfRes(modes, r) ==
  LET same == {i \in DOMAIN modes : modes[i] = r}
  IN  IF same = {} THEN Len(modes) ELSE (CHOOSE i \in same : \A j \in same : i <= j) - 1

CsgInit ==
  /\ csg = [list |-> <<>>, CurrentNumberOfGraphicsOutput |-> 0, modes |-> <<DefaultRes>>,
            MaxMode |-> 1, Mode |-> 0, res |-> DefaultRes, frame |-> "NULL", installed |-> FALSE]
  /\ gopMode = GopStart
  /\ gopShows = [g \in Screens |-> "black"]
  /\ csgPast = [failedAdds |-> 0, faults |-> 0, removed |-> FALSE, shown |-> "none"]

-----------------------------------------------------------------------------
(* SetMode: every screen looks for the resolution among its own modes.      *)
(* failing are the screens whose SetMode fails, mute those whose QueryMode   *)
(* does.                                                                    *)

Takes(g, r, failing) == g \notin failing /\ ModeOfRes(GopModes[g], r) < Len(GopModes[g])

\* Mutant: the mode number is passed on to the screens.
SetModeByNumber(w, n, failing, mute) ==
  LET s == w.s
      r == s.modes[n + 1]
      screens == ScreensOf(s.list)
      taking == {g \in screens : g \notin failing \cup mute /\ n < Len(GopModes[g])}
  IN  IF n >= s.MaxMode THEN [w EXCEPT !.ok = FALSE]
      ELSE [w EXCEPT !.s.Mode = n, !.s.res = r, !.ok = taking = screens,
                     !.modes = [g \in Screens |-> IF g \in taking THEN n ELSE @[g]],
                     !.shows = [g \in Screens |-> IF g \in taking THEN "black" ELSE @[g]]]

\* The screens of a list before the first that is mute.
Asked(list, mute) ==
  {list[i] : i \in {j \in DOMAIN list : \A k \in 1 .. j : list[k] \notin mute}} \cap Screens

\* A screen whose SetMode fails does not keep the others from theirs; one whose
\* QueryMode fails ends the call, with the screens before it switched.  A splitter
\* of one screen shows that screen's frame buffer.
ConSplitterGraphicsOutputSetMode(w, n, failing, mute) ==
  LET s == w.s
      r == s.modes[n + 1]
      screens == ScreensOf(s.list)
      taking == {g \in Asked(s.list, mute) : Takes(g, r, failing)}
      modes == [g \in Screens |-> IF g \in taking THEN ModeOfRes(GopModes[g], r) ELSE w.modes[g]]
      last == Last(SelectSeq(s.list, LAMBDA d : d \in Screens))
      single == s.CurrentNumberOfGraphicsOutput = 1 /\ screens # {}
      set == [s EXCEPT !.Mode = n, !.res = IF single THEN ResOf(last, modes) ELSE r,
                       !.frame = IF single THEN last ELSE @]
  IN  IF n >= s.MaxMode THEN [w EXCEPT !.ok = FALSE]
      ELSE [s |-> IF screens \cap mute = {} THEN set ELSE s,
            modes |-> modes,
            shows |-> [g \in Screens |-> IF g \in taking THEN "black" ELSE w.shows[g]],
            ok |-> taking = screens]

-----------------------------------------------------------------------------
(* AddGraphicsOutputMode.                                                   *)

\* The splitter's modes that the new screen has, each resolution once.
Shared(s, g) ==
  LET known == SubSeq(s.modes, 1, s.MaxMode)
      kept == {i \in DOMAIN known :
                 /\ known[i] \in {GopModes[g][j] : j \in DOMAIN GopModes[g]}
                 /\ \A j \in 1 .. i - 1 : known[j] # known[i]}
      at == SetToSortSeq(kept, <)
  IN  [i \in DOMAIN at |-> known[at[i]]]

\* The first screen gives its modes and its frame buffer.  Where a later one
\* shares none, the buffer is allocated and not written: it holds "garbage".
Merged(w, g, garbage) ==
  LET s == w.s
      shared == Shared(s, g)
  IN  IF s.CurrentNumberOfGraphicsOutput = 0
      THEN [s EXCEPT !.modes = GopModes[g], !.MaxMode = Len(GopModes[g]), !.Mode = w.modes[g],
                     !.res = ResOf(g, w.modes), !.frame = g]
      ELSE [s EXCEPT !.modes = IF shared = <<>> THEN <<garbage>> ELSE shared,
                     !.MaxMode = Len(shared), !.frame = "NULL"]

\* The mode that has the new screen's resolution, or the default one.
CurrentIndex(s, r) ==
  LET known == SubSeq(s.modes, 1, s.MaxMode)
      choices == SelectSeq(<<ModeOfRes(known, r), ModeOfRes(known, DefaultRes)>>,
                           LAMBDA n : n < s.MaxMode)
  IN  IF choices = <<>> THEN 0 ELSE Head(choices)

\* An allocation or a query that fails ends the add before the screen counts; a
\* first screen has then left its numbers and not its modes (Unset stands for
\* what was never written, or is behind the buffer's end).
AddFails(w, g, fault) ==
  LET s == w.s
      begun == [s EXCEPT !.MaxMode = Len(GopModes[g]), !.Mode = w.modes[g],
                         !.res = ResOf(g, w.modes), !.frame = g,
                         !.modes = IF fault = "query" THEN [i \in DOMAIN GopModes[g] |-> Unset]
                                   ELSE [i \in DOMAIN GopModes[g] |->
                                           IF i \in DOMAIN s.modes THEN s.modes[i] ELSE Unset]]
  IN  [w EXCEPT !.ok = FALSE, !.s = IF s.CurrentNumberOfGraphicsOutput = 0 THEN begun ELSE s]

\* The splitter's mode is forced on the new screen, or on all if it changes.
Added(w, g, garbage, failing, mute) ==
  LET m == Merged(w, g, garbage)
      r == ResOf(g, w.modes)
      n == CurrentIndex(m, r)
      counted == [m EXCEPT !.CurrentNumberOfGraphicsOutput = (@ + 1) % CountWidth]
      target == m.modes[n + 1]
      takes == g \notin mute /\ Takes(g, target, failing)
      unset == [w EXCEPT !.s = [counted EXCEPT !.Mode = NoMode], !.ok = TRUE]
      all == ConSplitterGraphicsOutputSetMode(unset, n, failing, mute)
      default == ConSplitterGraphicsOutputSetMode([all EXCEPT !.s.modes[1] = DefaultRes], 0,
                                                  failing, mute)
  IN  CASE target = m.res /\ target = r -> [w EXCEPT !.s = [counted EXCEPT !.Mode = n]]
        [] target = m.res /\ target # r ->
             [w EXCEPT !.s = [counted EXCEPT !.Mode = n], !.ok = takes,
                       !.modes[g] = IF takes THEN ModeOfRes(GopModes[g], target) ELSE @,
                       !.shows[g] = IF takes THEN "black" ELSE @]
        [] OTHER -> IF all.ok THEN all ELSE default

-----------------------------------------------------------------------------
(* The splitter's operations.                                               *)

World == [s |-> csg, modes |-> gopMode, shows |-> gopShows, ok |-> TRUE]
Becomes(w) == csg' = w.s /\ gopMode' = w.modes /\ gopShows' = w.shows

\* At most MaxCsgFaults calls fail.
MayFail(fails) == fails => csgPast.faults < MaxCsgFaults
Count(fails) == IF fails THEN csgPast.faults + 1 ELSE csgPast.faults

\* The protocol is installed when the first screen has been added.
ConSplitterTextOutAddDevice(d, fault, failing, mute, garbage) ==
  /\ d \notin {csg.list[i] : i \in DOMAIN csg.list}
  /\ MayFail(fault # "none" \/ failing \cup mute # {})
  /\ failing \cup mute \subseteq {d} \cup ScreensOf(csg.list)
  /\ fault = "query" => csg.CurrentNumberOfGraphicsOutput = 0 \/ csg.MaxMode > 0
  /\ LET listed == [World EXCEPT !.s.list = Append(@, d)]
         w == CASE d \in TextOnly -> [listed EXCEPT !.ok = FALSE]
                [] d \in Screens /\ fault # "none" -> AddFails(listed, d, fault)
                [] OTHER -> Added(listed, d, garbage, failing, mute)
         installs == w.ok /\ w.s.CurrentNumberOfGraphicsOutput = 1
     IN  Becomes([w EXCEPT !.s.installed = @ \/ installs])
  /\ csgPast' = [csgPast EXCEPT
       !.faults = Count(fault # "none" \/ failing \cup mute # {}),
       !.failedAdds = IF d \in Screens /\ fault # "none" THEN @ + 1 ELSE @,
       !.shown = IF d \in Screens THEN "none" ELSE @]

\* The modes stay what they were with the removed screen.
ConSplitterTextOutDeleteDevice(d) ==
  /\ d \in {csg.list[i] : i \in DOMAIN csg.list}
  /\ LET number == IF d \in Screens
                   THEN (csg.CurrentNumberOfGraphicsOutput + CountWidth - 1) % CountWidth
                   ELSE csg.CurrentNumberOfGraphicsOutput
     IN  /\ csg' = [csg EXCEPT !.list = SelectSeq(@, LAMBDA c : c # d),
                               !.CurrentNumberOfGraphicsOutput = number,
                               !.installed = @ /\ number # 0]
         /\ csgPast' = [csgPast EXCEPT !.removed = (@ \/ d \in Screens) /\ number # 0]
  /\ UNCHANGED <<gopMode, gopShows>>

\* A caller of the protocol sets a mode.
SetGraphicsMode(n, failing, mute) ==
  /\ csg.installed /\ n < csg.MaxMode
  /\ failing \cup mute \subseteq ScreensOf(csg.list) /\ MayFail(failing \cup mute # {})
  /\ LET w == ConSplitterGraphicsOutputSetMode(World, n, failing, mute)
     IN  /\ Becomes(w)
         /\ csgPast' = [csgPast EXCEPT !.faults = Count(failing \cup mute # {}),
                                       !.shown = IF w.ok THEN "black" ELSE "none"]

\* A transfer to the screens goes to all of them, also after one that failed.
\* One from the screens ends with the first that succeeds, and changes nothing.
ConSplitterGraphicsOutputBlt(colour, failing) ==
  /\ csg.installed /\ failing \subseteq ScreensOf(csg.list) /\ MayFail(failing # {})
  /\ gopShows' = [g \in Screens |->
       IF g \in ScreensOf(csg.list) \ failing THEN colour ELSE gopShows[g]]
  /\ csgPast' = [csgPast EXCEPT !.faults = Count(failing # {}),
                                !.shown = IF failing = {} THEN colour ELSE "none"]
  /\ UNCHANGED <<csg, gopMode>>

\* What QueryMode says of a mode: the screen itself answers if it is the only one.
QueryMode(n) ==
  LET screens == SelectSeq(csg.list, LAMBDA d : d \in Screens)
      modes == IF csg.CurrentNumberOfGraphicsOutput = 1 /\ screens # <<>>
               THEN GopModes[Head(screens)] ELSE csg.modes
  IN  IF n < Len(modes) THEN modes[n + 1] ELSE Unset

\* Screens whose calls fail in one operation: of one kind of call.
Failures == {<<failing, {}>> : failing \in SUBSET Screens} \cup {<<{}, {g}>> : g \in Screens}

CsgNext ==
  \/ \E d \in TextOnly : ConSplitterTextOutAddDevice(d, "none", {}, {}, Unset)
  \/ \E g \in Screens, fault \in {"alloc", "query"} :
       ConSplitterTextOutAddDevice(g, fault, {}, {}, Unset)
  \/ \E g \in Screens, f \in Failures, garbage \in {Unset, csg.res} :
       ConSplitterTextOutAddDevice(g, "none", f[1], f[2], garbage)
  \/ \E d \in Screens \cup TextOnly : ConSplitterTextOutDeleteDevice(d)
  \/ \E n \in 0 .. 3, f \in Failures : SetGraphicsMode(n, f[1], f[2])
  \/ \E colour \in Colours, failing \in SUBSET Screens :
       ConSplitterGraphicsOutputBlt(colour, failing)

-----------------------------------------------------------------------------
Present == ScreensOf(csg.list)

CsgTypeOK ==
  /\ csg.CurrentNumberOfGraphicsOutput \in 0 .. CountWidth - 1
  /\ csg.MaxMode <= Len(csg.modes) /\ Len(csg.modes) > 0
  /\ \A g \in Screens : gopMode[g] \in 0 .. Len(GopModes[g]) - 1

\* CurrentNumberOfGraphicsOutput is the number of screens in the list less the
\* adds that failed early: the failed screen stays in the list, so deleting it
\* takes the number below the others, or from 0 to the largest UINTN.
CountOffByFailures ==
  csg.CurrentNumberOfGraphicsOutput
    = (Cardinality(Present) + CountWidth * csgPast.failedAdds - csgPast.failedAdds) % CountWidth

\* As long as no call fails, the Graphics Output protocol is on the virtual
\* handle exactly while a console with a screen is in the list.
InstalledWithScreens == csgPast.faults = 0 => (csg.installed <=> Present # {})

\* As long as no call fails, every mode that the splitter offers is one of every
\* screen in the list, and the screens are all in the splitter's resolution: so
\* the splitter can be drawn on as if it were one.
ScreensAgree ==
  csgPast.faults = 0 /\ Present # {} /\ csg.MaxMode > 0 =>
    \A g \in Present :
      /\ \A n \in 1 .. csg.MaxMode : ModeOfRes(GopModes[g], csg.modes[n]) < Len(GopModes[g])
      /\ ResOf(g, gopMode) = csg.res

\* What QueryMode says of a mode is what SetMode sets, unless a screen was
\* removed beside another: then the screen that is left answers with its own
\* numbers, and SetMode takes those that all had shared.
QueryMatchesSet ==
  csgPast.faults = 0 /\ csg.installed /\ ~csgPast.removed =>
    \A n \in 0 .. csg.MaxMode - 1 : QueryMode(n) = csg.modes[n + 1]

\* What was drawn without an error is on every screen, so that any one of them
\* may answer when a picture is read back.
AnyScreenAnswers ==
  csgPast.shown # "none" => \A g \in Present : gopShows[g] = csgPast.shown

\* The splitter's screens can be used as if they were one, as far as no call failed.
ScreensAsOne ==
  /\ CsgTypeOK /\ CountOffByFailures /\ InstalledWithScreens
  /\ ScreensAgree /\ QueryMatchesSet /\ AnyScreenAnswers
=============================================================================
