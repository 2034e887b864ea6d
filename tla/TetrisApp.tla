------------------------------ MODULE TetrisApp -----------------------------
(* Application/TetrisApp: a loop of handleInput and drawWindow, and a timer *)
(* callback that may come between them.  The fields hold the blocks that    *)
(* lie and the piece that falls: a move erases the piece, looks whether it  *)
(* could be elsewhere, and marks it again; of the invisible rows at the top *)
(* drawing changes nothing.  Colours and the score are left out.            *)
EXTENDS Integers, FiniteSetsExt

CONSTANTS
  BOARD_WIDTH, BOARD_HEIGHT, INVISIBLE_ROWS_COUNT, StartX,
  Kinds,          \* the pieces that rand chooses from
  GAME_REFRESH_PERIOD,
  MaxLines        \* bound: lines removed

VARIABLES
  loop,           \* "input", "draw", or "left"
  gameState, tickCounter,
  fields,         \* the fields that are not EMPTY_FIELD
  active, nextKind, \* activePiece: kind, rotation, pos; the next one's kind
  blocked, lines,
  placed,         \* history: the blocks of the pieces that lie
  pausedMoves     \* history: descents during this pause

tetrisVars == <<loop, gameState, tickCounter, fields, active, nextKind, blocked, lines, placed, pausedMoves>>
boardVars == <<fields, active, nextKind, blocked, lines, placed>>

Body(a, b, c, d) == {a, b, c, d}

Bodies ==
  [I |-> <<Body(<<0,1>>, <<1,1>>, <<2,1>>, <<3,1>>), Body(<<2,0>>, <<2,1>>, <<2,2>>, <<2,3>>),
           Body(<<0,2>>, <<1,2>>, <<2,2>>, <<3,2>>), Body(<<1,0>>, <<1,1>>, <<1,2>>, <<1,3>>)>>,
   J |-> <<Body(<<0,0>>, <<0,1>>, <<1,1>>, <<2,1>>), Body(<<1,2>>, <<1,1>>, <<1,0>>, <<2,0>>),
           Body(<<0,1>>, <<1,1>>, <<2,1>>, <<2,2>>), Body(<<0,2>>, <<1,2>>, <<1,1>>, <<1,0>>)>>,
   L |-> <<Body(<<0,1>>, <<1,1>>, <<2,1>>, <<2,0>>), Body(<<1,2>>, <<1,1>>, <<1,0>>, <<2,2>>),
           Body(<<0,1>>, <<1,1>>, <<2,1>>, <<0,2>>), Body(<<0,0>>, <<1,2>>, <<1,1>>, <<1,0>>)>>,
   O |-> [r \in 1..4 |-> Body(<<1,0>>, <<1,1>>, <<2,0>>, <<2,1>>)],
   S |-> <<Body(<<0,1>>, <<1,1>>, <<1,0>>, <<2,0>>), Body(<<1,0>>, <<1,1>>, <<2,1>>, <<2,2>>),
           Body(<<0,2>>, <<1,2>>, <<1,1>>, <<2,1>>), Body(<<0,0>>, <<0,1>>, <<1,1>>, <<1,2>>)>>,
   T |-> <<Body(<<0,1>>, <<1,1>>, <<2,1>>, <<1,0>>), Body(<<1,0>>, <<1,1>>, <<1,2>>, <<2,1>>),
           Body(<<0,1>>, <<1,1>>, <<2,1>>, <<1,2>>), Body(<<1,0>>, <<1,1>>, <<1,2>>, <<0,1>>)>>,
   Z |-> <<Body(<<2,1>>, <<1,1>>, <<1,0>>, <<0,0>>), Body(<<1,2>>, <<1,1>>, <<2,1>>, <<2,0>>),
           Body(<<2,2>>, <<1,2>>, <<1,1>>, <<0,1>>), Body(<<0,2>>, <<0,1>>, <<1,1>>, <<1,0>>)>>]

ASSUME TetrisAssumption ==
  /\ BOARD_WIDTH \in Nat /\ BOARD_HEIGHT \in Nat /\ INVISIBLE_ROWS_COUNT \in Nat
  /\ INVISIBLE_ROWS_COUNT >= 2 /\ BOARD_HEIGHT > INVISIBLE_ROWS_COUNT
  /\ StartX \in Nat /\ StartX + 4 <= BOARD_WIDTH
  /\ Kinds \subseteq DOMAIN Bodies
  /\ GAME_REFRESH_PERIOD \in Nat \ {0} /\ MaxLines \in Nat

Visible == {f \in (0..(BOARD_WIDTH - 1)) \X (0..(BOARD_HEIGHT - 1)) : f[2] >= INVISIBLE_ROWS_COUNT}
Board == (0..(BOARD_WIDTH - 1)) \X (0..(BOARD_HEIGHT - 1))

FieldsOf(piece) == {<<b[1] + piece.x, b[2] + piece.y>> : b \in Bodies[piece.kind][piece.rotation + 1]}

-----------------------------------------------------------------------------
(* Board.c.                                                                 *)

isMovePossible(empty, piece) == FieldsOf(piece) \subseteq Board \ empty

rotateCW(piece) == [piece EXCEPT !.rotation = (@ + 1) % 4]

\* redrawField sets the field, too, but not in an invisible row.
drawn(f, old, new) == (f \ (old \cap Visible)) \cup (new \cap Visible)

\* rotatePiece: marked again only if it stays.
Turned(piece) ==
  LET erased == fields \ FieldsOf(active)
  IN  IF isMovePossible(erased, piece)
      THEN active' = piece /\ fields' = drawn(erased, FieldsOf(active), FieldsOf(piece))
      ELSE fields' = erased \cup FieldsOf(active) /\ UNCHANGED active

\* movePieceLeft and movePieceRight.
Shifted(x) ==
  LET moved == [active EXCEPT !.x = @ + x]
      at == IF isMovePossible(fields \ FieldsOf(active), moved) THEN moved ELSE active
  IN  /\ active' = at
      /\ fields' = (fields \ FieldsOf(active)) \cup FieldsOf(at)

isGameOver == \E f \in FieldsOf(active) : f[2] < INVISIBLE_ROWS_COUNT

Full(f, row) == \A x \in 0..(BOARD_WIDTH - 1) : <<x, row>> \in f

\* The lowest full line goes and those above come down, row by row from the
\* top invisible one, which redrawField leaves as it is.
LineRemoved(f, row) ==
  {c \in f : c[2] > row \/ c[2] < INVISIBLE_ROWS_COUNT}
    \cup {<<c[1], c[2] + 1>> : c \in {d \in f : d[2] < row /\ d[2] + 1 >= INVISIBLE_ROWS_COUNT}}

FullRows(f) == {r \in INVISIBLE_ROWS_COUNT..(BOARD_HEIGHT - 1) : Full(f, r)}

\* Mutant: the row that came down is not looked at again.
RemovedOnce(f) ==
  IF FullRows(f) = {} THEN [fields |-> f, count |-> 0]
  ELSE [fields |-> LineRemoved(f, Max(FullRows(f))), count |-> 1]

\* checkAndRemoveLines, from the lowest row; a row is looked at again after
\* the one above has come down.
RowsRemoved[g \in SUBSET Visible] ==
  IF FullRows(g) = {} THEN [fields |-> g, count |-> 0]
  ELSE LET rest == RowsRemoved[LineRemoved(g, Max(FullRows(g)))]
       IN  [rest EXCEPT !.count = @ + 1]

Removed(f) == RowsRemoved[f]

Starting(kind) == [kind |-> kind, rotation |-> 0, x |-> StartX, y |-> 0]

\* What lies when whole lines vanish and everything above falls as far.
Settled(cells) ==
  LET below(c) == {r \in FullRows(cells) : r > c[2]}
  IN  {<<c[1], c[2] + Cardinality(below(c))>> : c \in {d \in cells : ~Full(cells, d[2])}}

\* placePiece, and what it leaves for the next call.
placePiece(marked) ==
  IF isGameOver
  THEN blocked' = TRUE /\ fields' = marked /\ UNCHANGED <<active, nextKind, lines, placed>>
  ELSE LET removed == Removed(marked)
       IN  /\ lines < MaxLines
           /\ fields' = removed.fields
           /\ lines' = lines + removed.count
           /\ active' = Starting(nextKind)
           /\ nextKind' \in Kinds
           /\ placed' = Settled(placed \cup FieldsOf(active))
           /\ UNCHANGED blocked

Down(piece) == [piece EXCEPT !.y = @ + 1]
CanFall == isMovePossible(fields \ FieldsOf(active), Down(active))

\* Mutant: the piece is marked where it was, too.
movePieceDownMarked ==
  IF CanFall
  THEN /\ active' = Down(active)
       /\ fields' = fields \cup (FieldsOf(Down(active)) \cap Visible)
       /\ UNCHANGED <<nextKind, blocked, lines, placed>>
  ELSE placePiece(fields \cup FieldsOf(active))

movePieceDown ==
  IF CanFall
  THEN /\ active' = Down(active)
       /\ fields' = drawn(fields \ FieldsOf(active), FieldsOf(active), FieldsOf(Down(active)))
       /\ UNCHANGED <<nextKind, blocked, lines, placed>>
  ELSE placePiece(fields \cup FieldsOf(active))

-----------------------------------------------------------------------------
(* Core.c.                                                                  *)

resetTickCounter == tickCounter' = GAME_REFRESH_PERIOD

Running == gameState = "RUNNING"

timerCallback ==
  /\ loop # "left"
  /\ Running /\ tickCounter # 0
  /\ tickCounter' = tickCounter - 1
  /\ UNCHANGED <<loop, gameState, boardVars, pausedMoves>>

Input ==
  /\ loop = "input"
  /\ loop' = "draw"

NoKey == Input /\ UNCHANGED <<gameState, tickCounter, boardVars, pausedMoves>>

\* Any key starts the game.
startGame ==
  /\ Input
  /\ gameState = "WAITING" /\ gameState' = "RUNNING"
  /\ UNCHANGED <<tickCounter, boardVars, pausedMoves>>

RotateKey ==
  /\ Input /\ Running
  /\ Turned(rotateCW(active))
  /\ UNCHANGED <<gameState, tickCounter, nextKind, blocked, lines, placed, pausedMoves>>

SideKey(x) ==
  /\ Input /\ Running
  /\ Shifted(x)
  /\ UNCHANGED <<gameState, tickCounter, nextKind, blocked, lines, placed, pausedMoves>>

DownKey ==
  /\ Input /\ Running
  /\ IF CanFall THEN UNCHANGED tickCounter ELSE resetTickCounter
  /\ movePieceDown
  /\ UNCHANGED <<gameState, pausedMoves>>

DropKey ==
  /\ loop = "input" /\ loop' = "dropping"
  /\ Running
  /\ UNCHANGED <<gameState, tickCounter, boardVars, pausedMoves>>

\* A turn of dropPiece's loop.
dropPiece ==
  /\ loop = "dropping"
  /\ movePieceDown
  /\ loop' = IF CanFall THEN "dropping" ELSE "draw"
  /\ IF CanFall THEN UNCHANGED tickCounter ELSE resetTickCounter
  /\ UNCHANGED <<gameState, pausedMoves>>

togglePause ==
  /\ Input
  /\ gameState \in {"RUNNING", "PAUSED"}
  /\ gameState' = IF Running THEN "PAUSED" ELSE "RUNNING"
  /\ pausedMoves' = 0
  /\ UNCHANGED <<tickCounter, boardVars>>

ExitKey ==
  /\ Input
  /\ gameState # "WAITING" /\ gameState' = "EXIT"
  /\ UNCHANGED <<tickCounter, boardVars, pausedMoves>>

\* The tick is looked at in every state of the game.
drawWindow ==
  /\ loop = "draw"
  /\ gameState' = IF Running /\ blocked THEN "OVER" ELSE gameState
  /\ IF tickCounter = 0 THEN movePieceDown /\ resetTickCounter
     ELSE UNCHANGED <<boardVars, tickCounter>>
  /\ pausedMoves' = IF gameState = "PAUSED" /\ tickCounter = 0 THEN pausedMoves + 1 ELSE pausedMoves
  /\ loop' = IF gameState = "EXIT" THEN "left" ELSE "input"

TetrisInit ==
  /\ loop = "input" /\ gameState = "WAITING" /\ tickCounter = GAME_REFRESH_PERIOD
  /\ fields = {} /\ placed = {}
  /\ \E kind \in Kinds : active = Starting(kind)
  /\ nextKind \in Kinds
  /\ blocked = FALSE /\ lines = 0 /\ pausedMoves = 0

MainStep ==
  \/ NoKey \/ startGame \/ RotateKey \/ SideKey(-1) \/ SideKey(1) \/ DownKey \/ DropKey
  \/ dropPiece \/ togglePause \/ ExitKey \/ drawWindow

TetrisNext == MainStep \/ timerCallback

-----------------------------------------------------------------------------
TetrisTypeOK ==
  /\ loop \in {"input", "dropping", "draw", "left"}
  /\ gameState \in {"WAITING", "RUNNING", "PAUSED", "OVER", "EXIT"}
  /\ tickCounter \in 0..GAME_REFRESH_PERIOD
  /\ fields \subseteq Board /\ placed \subseteq Board
  /\ lines \in 0..(MaxLines + 3)

\* The fields are the blocks that lie and the falling piece where it shows:
\* no move, turn, descent or removed line loses a block or leaves one behind,
\* although every one of them first erases the piece, and erases it with
\* whatever else lies in its fields.
FieldsArePieces ==
  ~blocked => /\ fields \cap Visible = placed \cup (FieldsOf(active) \cap Visible)
              /\ FieldsOf(active) \subseteq Board \ placed

\* Nothing lies in the rows where pieces start, so that a new piece is never
\* laid over old ones: loadNextPiece does not look.
StartIsFree == ~blocked => fields \ Visible \subseteq FieldsOf(active)

\* A line is removed for every BOARD_WIDTH blocks that vanish.
BlocksConserved ==
  [][placed' # placed => Cardinality(placed') + BOARD_WIDTH * (lines' - lines) = Cardinality(placed) + 4]_tetrisVars

\* A tick that ran out just before the pause key still moves the piece, but
\* no more than one does.
PausedMovesOnce == pausedMoves <= 1

\* Left alone, a game that runs comes to its end: the callback counts, the
\* loop takes the piece down and the board fills.
GameGoesOn == Running ~> (gameState \in {"OVER", "PAUSED", "EXIT"} \/ lines >= MaxLines)

\* The board holds what was played on it, and a pause holds the piece.
PiecesKept == TetrisTypeOK /\ FieldsArePieces /\ StartIsFree /\ PausedMovesOnce

\* The game is played by its rules, and to its end.
GamePlayed == BlocksConserved /\ GameGoesOn
=============================================================================
