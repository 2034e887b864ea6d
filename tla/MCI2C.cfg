SPECIFICATION FairSpec
CONSTANTS
  Ops <- ShortTransfers
  Faults = {"nack", "hang"}
  Retries = 2
  MaxBytes = 11
  MaxMissed = 2
INVARIANTS TransfersReported ControllerKept
PROPERTY CallsReturn
