SPECIFICATION Spec
CONSTANTS
  Cycle = 16
  Threshold = 12
  MAX_COUNT = 5
  first_K = 2
  Starts = {3, 9, 13}
  Gaps = {0, 1, 3, 6}
  Delays = {0, 2, 5}
  MaxRecords = 10
  Events <- Frames
CHECK_DEADLOCK FALSE
INVARIANTS
  LoadedTrue
  NothingDropped
  StaleTrue
