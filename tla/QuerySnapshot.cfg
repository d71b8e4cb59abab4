SPECIFICATION FairSpec
CONSTANTS
  NumPorts = 1
  MaxPortNum = 1
  CellNumber = 2
  c1 = c1
  c2 = c2
  Contents <- TwoContents
  NoContent = NoContent
  StoreOrder = "program"
  FlagReload = TRUE
  Prompt = TRUE
  Events <- Stop
INVARIANTS
  TypeOK
  HighestFollows
  QuerySnapshot
  OneSignalPerLock
PROPERTIES
  ImplementsSnapshotQuery
  SignalsReceived
