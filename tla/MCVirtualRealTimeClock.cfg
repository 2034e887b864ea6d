SPECIFICATION RtcSpec
CONSTANTS
  PcdMsmDgtTimerFreq = 4800000
  CounterWidth <- MCWidth
  CounterGaps <- MCGaps
  MaxReadings = 4
INVARIANT TimeIsElapsed
CHECK_DEADLOCK FALSE
