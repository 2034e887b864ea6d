------------------------------ MODULE MCScreen ------------------------------
(* Small instances of the text console on the frame buffer, of the game that *)
(* is played on it, of a driver's logs and clock, and of the console         *)
(* splitter's screens and pointers: a behaviour is of one, its part.         *)
EXTENDS TetrisApp, GraphicsConsole, SerialLogs, VirtualRealTimeClock,
        ConSplitterGraphics, ConSplitterPointers

VARIABLE part
everything == <<part, gcVars, tetrisVars, logVars, rtc, csgVars, ptrVars>>

\* Cells of 2x2 pixels; text mode 0 has 3x2 cells.
MCGlyph == <<2, 2>>
MCBase == <<3, 2>>
MCSecond == <<5, 5>>
MCTable == <<<<5, 4>>, <<3, 2>>>>
MCDefault == <<7, 4>>

\* The frame buffer; one whose first mode cannot be set, and whose modes
\* repeat; one that ConSplitter produces.
MCGops ==
  {SimpleFb(<<8, 5>>),
   [modes |-> <<<<8, 5>>, <<7, 4>>, <<8, 5>>, <<6, 6>>>>, mode |-> 1, broken |-> {0},
    path |-> TRUE],
   [SimpleFb(<<8, 5>>) EXCEPT !.path = FALSE]}
MCPcds == {<<8, 5>>, <<0, 0>>, <<8, 0>>, <<9, 0>>, <<9, 9>>}

MCStrings ==
  {<<"a", "b", "a", "b", "BS", "BS">>, <<"WIDE", "w", "w">>, <<"BS">>, <<"LF", "LF", "b">>,
   <<"a", "WIDE", "w", "NARROW", "b">>, <<"CR", "a", "?", "b">>, <<"BS", "BS", "BS">>}
MCBanner == <<"a", "LF", "CR">>
MCAttributes == {16, 18, 128}

MCPositions == {<<0, 0>>, <<2, 1>>, <<3, 1>>, <<4, 0>>}

\* A screen of two columns and three lines for the log.
MCLogs == {<<"a", "b", "SP", "c">>, <<"LF", "SP", "d">>, <<"CR", "?", "LF">>}
MCInterruptLogs == {<<"i">>, <<"i", "LF">>}
MCGaps == {1, 119, 7199, 172801}

\* Three screens, two of which share two resolutions, and a terminal.
MCGopModes ==
  [g \in {"lcd", "hdmi", "tv"} |->
     CASE g = "lcd" -> <<<<4, 3>>, <<8, 6>>, <<6, 4>>>>
       [] g = "hdmi" -> <<<<6, 4>>, <<8, 6>>, <<6, 4>>>>
       [] OTHER -> <<<<4, 3>>>>]
MCGopStart == [g \in {"lcd", "hdmi", "tv"} |-> IF g = "lcd" THEN 2 ELSE 0]
MCDefaultRes == <<8, 6>>

\* Two mice of different resolutions, and two touch screens.
MCResolution == [d \in {"mouse", "ball"} |-> IF d = "mouse" THEN 2 ELSE 4]
MCBounds == [d \in {"touch", "pen"} |-> IF d = "touch" THEN <<0, 2>> ELSE <<1, 2>>]
MCMoves == {-1, 2}

\* A behaviour is of one part.  The outputs with several modes are only started
\* on.
Init ==
  /\ part \in {"console", "tetris", "log", "memory", "clock", "graphics", "mice", "touch"}
  /\ GcInit /\ TetrisInit /\ LogInit /\ RtcInit /\ CsgInit /\ PtrInit
  /\ part # "console" => gop.pcd = <<0, 0>> /\ gop.path /\ Len(gop.modes) = 1
  /\ part # "tetris" => active.kind = "O" /\ nextKind = "O"

Next ==
  \/ /\ part = "console"
     /\ GcBinding \/ OutputStep \/ (Len(gop.modes) = 1 /\ GcCall)
     /\ UNCHANGED <<part, tetrisVars, logVars, rtc, csgVars, ptrVars>>
  \/ part = "tetris" /\ TetrisNext /\ UNCHANGED <<part, gcVars, logVars, rtc, csgVars, ptrVars>>
  \/ /\ \/ part = "log" /\ FbNext
        \/ part = "memory" /\ MemNext
     /\ UNCHANGED <<part, gcVars, tetrisVars, rtc, csgVars, ptrVars>>
  \/ part = "clock" /\ RtcNext /\ UNCHANGED <<part, gcVars, tetrisVars, logVars, csgVars, ptrVars>>
  \/ part = "graphics" /\ CsgNext /\ UNCHANGED <<part, gcVars, tetrisVars, logVars, rtc, ptrVars>>
  \/ /\ \/ part = "mice" /\ PointersNext("simple")
        \/ part = "touch" /\ PointersNext("absolute")
     /\ UNCHANGED <<part, gcVars, tetrisVars, logVars, rtc, csgVars>>

\* The game's loop and its timer go on.
FairSpec ==
  /\ Init /\ [][Next]_everything
  /\ WF_tetrisVars(/\ part = "tetris" /\ MainStep
                   /\ UNCHANGED <<gcVars, logVars, rtc, csgVars, ptrVars>>)
  /\ WF_tetrisVars(/\ part = "tetris" /\ timerCallback
                   /\ UNCHANGED <<gcVars, logVars, rtc, csgVars, ptrVars>>)

\* A driver's logs are kept, and its clock does not go back.
LogsAndClockKept == LogsKept /\ TimesInOrder

\* A client can use the screens as if they were one, and the pointers of a kind.
SplitterAsOne == ScreensAsOne /\ PointersAsOne
=============================================================================
