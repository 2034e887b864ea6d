SPECIFICATION FairSpec
CONSTANTS
  Codes = {a}
  Partial = partial
  Fns = {f, g}
  Handles = {h1, h2}
  Capacity = 2
  MaxStrokes = 3
  NoKey = NoKey
  NoNode = NoNode
INVARIANTS TypeOK NoLostWakeup KeysReachClients
PROPERTIES NotifiedInOrder OwedCallsAreMade
