SPECIFICATION LedSpec
CONSTANTS
  Hold = 8
  MaxTimers = 3
PROPERTY LitForHold
CHECK_DEADLOCK FALSE
