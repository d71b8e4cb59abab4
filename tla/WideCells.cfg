SPECIFICATION QueriesSpec
CONSTANTS
  k = 2
  T = 3
  ALPHA = 2
  TW0_TB = 1
  TsBits = 11
  Starts <- NearOverflow
  Duration = 2260
  Polls = {46, 90}
  Spells = {105, 180}
  MaxSpells = 2
  CLOSE_THRESHOLD = 5
  TW0_z <- Full
  QueueDelays = {1, 20, 300}
CHECK_DEADLOCK FALSE
INVARIANTS
  SetBounds
  EstimateTrue
PROPERTY SetFresh
