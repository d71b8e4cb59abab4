SPECIFICATION FairSpec
CONSTANTS
  NumPorts = 2
  MaxPortNum = 2
  CellNumber = 1
  c1 = c1
  c2 = c2
  Contents <- OneContent
  NoContent = NoContent
  StoreOrder = "program"
  FlagReload = TRUE
  Prompt = TRUE
  Events <- NoEvents
PROPERTIES
  AnsweredUnlessForgotten
