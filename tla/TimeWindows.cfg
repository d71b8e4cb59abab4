SPECIFICATION QueriesSpec
CONSTANTS
  k = 2
  T = 3
  ALPHA = 1
  TW0_TB = 1
  TsBits = 11
  Starts <- NearOverflow
  Duration = 2120
  Polls <- AboutOneSet
  Spells = {3, 21}
  MaxSpells = 1
  CLOSE_THRESHOLD = 5
  TW0_z <- Full
  QueueDelays = {1, 20, 300}
CHECK_DEADLOCK FALSE
INVARIANTS
  RecordsTrue
  RecordsFollow
  RetainedTrue
  WindowsOrdered
  Complete
  SignalsLocated
  StaleAgrees
  CountedOnce
  OverflowInv
  WindowAlone
