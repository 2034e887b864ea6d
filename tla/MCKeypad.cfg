SPECIFICATION KeypadFairSpec
CONSTANTS
  Keys = {k1, k2}
  MaxCount = 4
  NotReady = NotReady
  Users <- ManyUsers
  Hold = 8
  MaxTimers = 3
INVARIANTS QueueTypeOK KeysConsistent DarkWhenIdle LightHasTimer
PROPERTIES ImplementsFifo ReportsMeanPresses HeldKeyRepeats LightGoesOut
CHECK_DEADLOCK FALSE
