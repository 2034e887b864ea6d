SPECIFICATION Spec
CONSTANTS
  Devices = {d1, d2, d3}
  ExDevices = {d1, d2}
  Codes = {a}
  Partial = partial
  a = a
  f = f
  Clients <- MCClients
  SyncFn = sync
  AllocUnit = 1
  MaxKeys = 3
  MaxNotifies = 3
  MaxFaults = 1
  NoHandle = NoHandle
INVARIANTS KeysKept RegistrationsMatch
SYMMETRY Symmetry
CONSTRAINT KeysOrNotifies
