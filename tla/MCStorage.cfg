SPECIFICATION FairSpec
CONSTANTS
  Cards <- MCCards
  Builds <- MCBuilds
  DataFaults <- MCDataFaults
  MaxFaults = 1
  SDC_INSTANCE = 2
  Sizes <- MCSizes
  MbrSearch = 50
  Smems <- MCSmems
  AppsName <- MCAppsName
  MaxPartsV3 = 2
  MaxPartsV4 = 3
  MaxPTable = 3
  MaxAdds = 2
  Chars = {":", "A"}
  StrCells = 3
INVARIANTS BlocksInPlace CardHandled TablesRight StringsRight
PROPERTY RequestsEnd
CHECK_DEADLOCK FALSE
