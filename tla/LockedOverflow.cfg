SPECIFICATION Spec
CONSTANTS
  MaxQdepth = 3
  SeqBits = 2
  Thresholds = {1, 2}
  MaxPackets = 5
  MaxPolls = 2
INVARIANT
  OverflowsCounted
CHECK_DEADLOCK FALSE
