------------------------------ MODULE MCConOut ------------------------------
(* Two consoles: the screen, which has no mode 1, and another one that has.  *)
(* They share the base size and the preferred one; each has a size that the  *)
(* other does not have.                                                      *)
EXTENDS ConSplitterTextOut

CONSTANTS screen, terminal

MCBase == <<2, 2>>
MCPreferred == <<3, 2>>
MCTextModes ==
  [d \in {screen, terminal} |->
     IF d = screen
     THEN [m \in 0..3 |-> CASE m = 0 -> MCBase [] m = 1 -> <<0, 0>>
                            [] m = 2 -> <<3, 3>> [] m = 3 -> MCPreferred]
     ELSE [m \in 0..2 |-> CASE m = 0 -> MCBase [] m = 1 -> <<2, 3>>
                            [] m = 2 -> MCPreferred]]

\* Bound: the cursor of a splitter without consoles moves only while neither
\* splitter has one.
CursorAlone ==
  \A s \in Splitters : splitter[s].cursor # <<0, 0>> =>
    \A t \in Splitters : splitter[t].count = 0
=============================================================================
