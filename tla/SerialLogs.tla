----------------------------- MODULE SerialLogs -----------------------------
(* The logs of a driver: FrameBufferSerialPortLib.c, which paints a log on  *)
(* the screen, and InMemorySerialPortLib.c, which keeps one in memory.  A   *)
(* driver has a copy of the libraries: its code and the interrupts that run *)
(* functions of it share the position, the colour and the ring.             *)
EXTENDS Naturals, Sequences, SequencesExt

CONSTANTS
  gWidth, gHeight,                        \* pixels of the frame buffer
  FONT_WIDTH, FONT_HEIGHT, SCALE_FACTOR,
  LogMessages,      \* sequences over "LF", "CR", "SP", "?" (the rest that has no glyph), letters
  InterruptMessages,
  MaxLogs,          \* bound: messages of either kind
  PstoreSize

MaxX == (gWidth \div (FONT_WIDTH + 1)) \div SCALE_FACTOR
MaxY == (gHeight - 1) \div FONT_HEIGHT

\* A line has a column, and an empty screen takes a line end.
ASSUME LogAssumption ==
  /\ {gWidth, gHeight, FONT_WIDTH, FONT_HEIGHT, SCALE_FACTOR, PstoreSize} \subseteq Nat \ {0}
  /\ MaxX > 0 /\ MaxY > 2 * SCALE_FACTOR
  /\ MaxLogs \in Nat

VARIABLES
  fb,        \* m_Position, the foreground of m_Color, and the glyphs on the screen
  fbAt,      \* where the driver's own code is in SerialPortWrite
  writing,   \* its call: what is left of Buffer, InterruptState, intstate, CurrentForeground
  irq,       \* interrupts are enabled
  ring,      \* offset of mem_putchar, and the memory
  logged     \* history: what was written to each log, and what disturbed the screen's

logVars == <<fb, fbAt, writing, irq, ring, logged>>

NoGlyphs == [p \in {} |-> "SP"]
NotWriting == [left |-> <<>>, InterruptState |-> FALSE, intstate |-> FALSE,
               CurrentForeground |-> "none", critical |-> FALSE, ended |-> FALSE]

LogInit ==
  /\ fb = [x |-> 0, y |-> 0, Foreground |-> "none", glyphs |-> NoGlyphs]
  /\ fbAt = "off" /\ writing = NotWriting /\ irq = TRUE
  /\ ring = [offset |-> 0, base |-> [i \in 0 .. PstoreSize - 1 |-> "?"]]
  /\ logged = [screen |-> <<>>, last |-> "LF", disturbed |-> FALSE, memory |-> <<>>, count |-> 0]

-----------------------------------------------------------------------------
(* The screen, a character at a time.                                       *)

FbConReset(s) == [s EXCEPT !.x = 0, !.y = 0, !.Foreground = "white"]

\* A character is left out: it has no glyph, or it is a space at the left.
Skipped(s, c) == c = "?" \/ (c = "SP" /\ s.x = 0)

\* The glyph replaces what was at the position, in the foreground of the time.
Drawn(s, c, critical) ==
  [s EXCEPT !.x = @ + 1,
            !.glyphs = [p \in DOMAIN @ \cup {<<s.y, s.x>>} |->
                          IF p = <<s.y, s.x>> THEN <<c, s.Foreground, critical>> ELSE @[p]]]

LineFull(s) == s.x >= MaxX

ScreenFull(s) == s.y >= MaxY - SCALE_FACTOR

ResetFb(s) == [s EXCEPT !.glyphs = NoGlyphs]

\* What the character does before a line end.
Painted(s, c, critical) ==
  CASE Skipped(s, c) \/ c = "LF" -> s
    [] c = "CR" -> [s EXCEPT !.x = 0]
    [] OTHER -> Drawn(s, c, critical)

EndsLine(s, c, after) ==
  c = "LF" \/ (~Skipped(s, c) /\ c # "CR" /\ LineFull(after))

LineDown(s) == [s EXCEPT !.y = @ + SCALE_FACTOR]
LineLeft(s) == [s EXCEPT !.x = 0]

\* A character that nothing interrupts.  When its line end clears the screen,
\* it is painted again at the top.
FbConPutCharWithFactor(s, c, critical) ==
  LET g == Painted(s, c, critical)
      down == LineLeft(LineDown(g))
      top == [ResetFb(down) EXCEPT !.y = 0]
      again == Painted(top, c, critical)
  IN  CASE ~EndsLine(s, c, g)  -> g
        [] ~ScreenFull(down)   -> down
        [] OTHER -> IF EndsLine(top, c, again) THEN LineLeft(LineDown(again)) ELSE again

\* SerialPortWrite and SerialPortWriteCritical of a handler, where interrupts
\* are off anyway.
Whole(s, m, critical) ==
  LET Written[n \in 0 .. Len(m)] ==
        IF n = 0 THEN IF critical THEN [s EXCEPT !.Foreground = "yellow"] ELSE s
                 ELSE FbConPutCharWithFactor(Written[n - 1], m[n], critical)
  IN  [Written[Len(m)] EXCEPT !.Foreground = s.Foreground]

-----------------------------------------------------------------------------
(* The driver's own calls, step by step.                                    *)

SerialPortInitialize ==
  /\ fbAt = "off"
  /\ fb' = FbConReset(fb) /\ fbAt' = "idle"
  /\ UNCHANGED <<writing, irq, ring, logged>>

\* A caller that has interrupts off itself enables them after its call.
SerialPortWrite(m, critical, InterruptState) ==
  /\ fbAt = "idle" /\ logged.count < MaxLogs
  /\ fbAt' = "next" /\ irq' = FALSE
  /\ writing' = [left |-> m, InterruptState |-> InterruptState, intstate |-> FALSE,
                 CurrentForeground |-> fb.Foreground, critical |-> critical, ended |-> FALSE]
  /\ fb' = IF critical THEN [fb EXCEPT !.Foreground = "yellow"] ELSE fb
  /\ logged' = [logged EXCEPT !.count = @ + 1]
  /\ UNCHANGED ring

\* What m adds to the history, of which a screen's letters are kept; a carriage
\* return overwrites a line.
Noted(m, disturbs) ==
  LET text == logged.screen \o SelectSeq(m, LAMBDA c : c \notin {"LF", "SP", "CR", "?"})
      excess == Len(text) - MaxX * MaxY
  IN  [logged EXCEPT !.screen = IF excess > 0 THEN SubSeq(text, excess + 1, Len(text)) ELSE text,
                     !.last = Last(m),
                     !.disturbed = @ \/ disturbs \/ Contains(m, "CR")]

\* A glyph is drawn with interrupts off, through its line end.  The jump of
\* '\n' to newline skips what sets intstate: it has any value there.
PutChar ==
  /\ fbAt \in {"next", "again"} /\ writing.left # <<>>
  /\ LET c == Head(writing.left)
         g == Painted(fb, c, writing.critical)
     IN  /\ fb' = g
         /\ IF EndsLine(fb, c, g)
            THEN /\ fbAt' = "newline" /\ irq' = (c = "LF" /\ irq)
                 /\ \E state \in IF c = "LF" THEN BOOLEAN ELSE {irq} :
                      writing' = [writing EXCEPT !.intstate = state, !.ended = @ \/ c = "LF"]
            ELSE /\ fbAt' = "next" /\ UNCHANGED irq
                 /\ writing' = [writing EXCEPT !.left = Tail(@)]
         /\ logged' = IF fbAt = "next" THEN Noted(<<c>>, FALSE) ELSE logged
  /\ UNCHANGED ring

\* The line end, which interrupts may come into once they are on.
NewLineDown ==
  /\ fbAt = "newline"
  /\ fb' = LineDown(fb) /\ fbAt' = "column"
  /\ UNCHANGED <<writing, irq, ring, logged>>

NewLineLeft ==
  /\ fbAt = "column"
  /\ fb' = LineLeft(fb) /\ fbAt' = "test"
  /\ UNCHANGED <<writing, irq, ring, logged>>

NewLineTest ==
  /\ fbAt = "test"
  /\ IF ScreenFull(fb)
     THEN fbAt' = "full" /\ UNCHANGED <<writing, irq>>
     ELSE /\ fbAt' = "next"
          /\ irq' = (irq \/ writing.intstate)
          /\ writing' = [writing EXCEPT !.left = Tail(@)]
  /\ UNCHANGED <<fb, ring, logged>>

NewLineClear ==
  /\ fbAt = "full"
  /\ fb' = ResetFb(fb) /\ fbAt' = "cleared"
  /\ UNCHANGED <<writing, irq, ring, logged>>

\* Mutant: the character that filled the screen is not painted again.
TopWithoutPaint ==
  /\ fbAt = "cleared"
  /\ fb' = [fb EXCEPT !.y = 0] /\ fbAt' = "next"
  /\ irq' = (irq \/ writing.intstate)
  /\ writing' = [writing EXCEPT !.left = Tail(@)]
  /\ UNCHANGED <<ring, logged>>

NewLineTop ==
  /\ fbAt = "cleared"
  /\ fb' = [fb EXCEPT !.y = 0] /\ fbAt' = "again"
  /\ irq' = (irq \/ writing.intstate)
  /\ UNCHANGED <<writing, ring, logged>>

\* The write returns; with interrupts on, then, by itself or by its caller.
WriteReturns ==
  /\ fbAt = "next" /\ writing.left = <<>>
  /\ fbAt' = "idle" /\ irq' = TRUE
  /\ fb' = IF writing.critical THEN [fb EXCEPT !.Foreground = writing.CurrentForeground] ELSE fb
  /\ writing' = NotWriting
  /\ UNCHANGED <<ring, logged>>

\* An interrupt runs a function of the driver that writes a message.
InterruptWrites(m, critical) ==
  /\ irq /\ fbAt # "off" /\ logged.count < MaxLogs
  /\ fb' = Whole(fb, m, critical)
  /\ LET within == fbAt \in {"newline", "column", "test", "full", "cleared", "again"}
     IN  logged' = [Noted(m, within) EXCEPT !.count = @ + 1]
  /\ UNCHANGED <<fbAt, writing, irq, ring>>

-----------------------------------------------------------------------------
(* The log in memory.                                                       *)

MemPut(c) ==
  LET o == ring.offset
  IN  [offset |-> IF o + 1 >= PstoreSize THEN 0 ELSE o + 1, base |-> [ring.base EXCEPT ![o] = c]]

mem_putchar(c) ==
  /\ Len(logged.memory) < 2 * PstoreSize + 1
  /\ ring' = MemPut(c)
  /\ logged' = [logged EXCEPT !.memory = Append(@, c)]
  /\ UNCHANGED <<fb, fbAt, writing, irq>>

-----------------------------------------------------------------------------
FbNext ==
  \/ SerialPortInitialize \/ PutChar \/ NewLineDown \/ NewLineLeft
  \/ NewLineTest \/ NewLineClear \/ NewLineTop \/ WriteReturns
  \/ \E m \in LogMessages, critical, InterruptState \in BOOLEAN :
       SerialPortWrite(m, critical, InterruptState)
  \/ \E m \in InterruptMessages, critical \in BOOLEAN : InterruptWrites(m, critical)

MemNext == \E m \in InterruptMessages : \E i \in DOMAIN m : mem_putchar(m[i])

-----------------------------------------------------------------------------
LogTypeOK ==
  /\ fb.x \in 0 .. MaxX /\ fb.y \in 0 .. MaxY
  /\ fbAt \in {"off", "idle", "next", "newline", "column", "test", "full", "cleared",
                "again"}
  /\ writing.InterruptState \in BOOLEAN /\ writing.intstate \in BOOLEAN /\ irq \in BOOLEAN
  /\ ring.offset \in 0 .. PstoreSize - 1

\* FbConDrawglyph writes inside the frame buffer, whatever an interrupt prints
\* between the steps of a line end.
GlyphsInFrame ==
  \A p \in DOMAIN fb.glyphs :
    /\ (p[1] + SCALE_FACTOR) * FONT_HEIGHT <= gHeight
    /\ p[2] * SCALE_FACTOR * (FONT_WIDTH + 1) + FONT_WIDTH * SCALE_FACTOR <= gWidth

Before(p, q) == p[1] < q[1] \/ (p[1] = q[1] /\ p[2] < q[2])
Reading ==
  LET seen == {p \in DOMAIN fb.glyphs : fb.glyphs[p][1] # "SP"}
      at == SetToSortSeq(seen, Before)
  IN  [i \in DOMAIN at |-> fb.glyphs[at[i]][1]]

\* The screen shows the end of the log, in order, and the last character
\* unless a line end or a blank followed it: clearing a full screen loses nothing that was
\* just written.  Where a message has no carriage return and no interrupt
\* prints inside a line end.
ShowsEndOfLog ==
  ~logged.disturbed =>
    /\ IsSuffix(Reading, logged.screen)
    /\ fbAt \in {"idle", "next"} /\ logged.last \notin {"LF", "SP", "?"} => Reading # <<>>

\* Interrupts are off from the beginning of a write to its first '\n': up to
\* there no handler's message comes in between.  After it they may be on.
WholeToLineEnd == fbAt \notin {"off", "idle"} /\ ~writing.ended => ~irq

\* What a critical message wrote stands in yellow, and the colour is white again
\* after it, though a handler's message of either kind comes inside it.
CriticalInYellow ==
  /\ \A p \in DOMAIN fb.glyphs : fb.glyphs[p][3] => fb.glyphs[p][2] = "yellow"
  /\ fbAt = "idle" => fb.Foreground = "white"

\* The memory holds the last bytes that were logged; the oldest is the one that
\* mem_putchar overwrites next.
RingHoldsEnd ==
  \A back \in 1 .. PstoreSize :
    back <= Len(logged.memory) =>
      ring.base[(ring.offset + PstoreSize - back) % PstoreSize]
        = logged.memory[Len(logged.memory) + 1 - back]

\* Logs are shown and stored to their end.
LogsKept ==
  /\ LogTypeOK /\ GlyphsInFrame /\ ShowsEndOfLog /\ WholeToLineEnd /\ CriticalInYellow
  /\ RingHoldsEnd
=============================================================================
