SPECIFICATION Spec
CONSTANTS
  NumPorts = 1
  MaxPortNum = 1
  CellNumber = 2
  c1 = c1
  c2 = c2
  Contents <- TwoContents
  NoContent = NoContent
  StoreOrder = "flag first"
  FlagReload = FALSE
  Prompt = FALSE
  Events <- ReadError
INVARIANTS
  PollSnapshot
