SPECIFICATION FairSpec
CONSTANTS
  Gops <- MCGops
  Pcds <- MCPcds
  Glyph <- MCGlyph
  BaseMode <- MCBase
  SecondMode <- MCSecond
  ModeTable <- MCTable
  DefaultSize <- MCDefault
  Strings <- MCStrings
  Banner <- MCBanner
  Attributes <- MCAttributes
  Positions <- MCPositions
  MaxOutputs = 1
  MaxGcFaults = 1
  BOARD_WIDTH = 4
  BOARD_HEIGHT = 5
  INVISIBLE_ROWS_COUNT = 2
  StartX = 0
  Kinds = {"O", "T"}
  GAME_REFRESH_PERIOD = 1
  MaxLines = 2
  gWidth = 13
  gHeight = 9
  FONT_WIDTH = 5
  FONT_HEIGHT = 2
  SCALE_FACTOR = 1
  LogMessages <- MCLogs
  InterruptMessages <- MCInterruptLogs
  MaxLogs = 4
  PstoreSize = 3
  PcdMsmDgtTimerFreq = 2
  CounterWidth = 400000
  CounterGaps <- MCGaps
  MaxReadings = 4
  GopModes <- MCGopModes
  GopStart <- MCGopStart
  TextOnly = {"serial"}
  DefaultRes <- MCDefaultRes
  CountWidth = 8
  Colours = {"red"}
  MaxCsgFaults = 1
  Resolution <- MCResolution
  Bounds <- MCBounds
  VirtualRes = 4
  IntWidth = 16
  PtrUnit = 1
  Moves <- MCMoves
  MaxMoves = 2
  MaxPtrFaults = 1
INVARIANTS ConsoleShown PiecesKept LogsAndClockKept SplitterAsOne
PROPERTIES StringsTyped GamePlayed
CHECK_DEADLOCK FALSE
