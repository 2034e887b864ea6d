SPECIFICATION OutSpec
CONSTANTS
  Outputs = {screen, terminal}
  TextModes <- MCTextModes
  Base <- MCBase
  Preferred <- MCPreferred
  Slots = 4
  Rows = 4
  NoDevice = NoDevice
  MaxDisruptions = 2
  MaxOutFaults = 1
  screen = screen
  terminal = terminal
INVARIANT OutputsAgree
PROPERTY ModesEntered
CONSTRAINT CursorAlone
