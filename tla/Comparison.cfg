SPECIFICATION Spec
CONSTANTS
  threshold <- TwoLevels
  packet_sample_number = 2
  pkt_num = 5
  Depths = {1, 2, 4, 5, 7}
  n_period = 3
  Lengths = {5}
  EGaps = {0, 1, 4}
  SeriesFlows = {1, 2}
  Flows = {1, 2, 3}
  MaxPackets = 4
  Hashes <- AnyHashes
  cell_number = 3
  stages = 2
CHECK_DEADLOCK FALSE
INVARIANTS
  SampleTrue
  SeriesAgree
  PipeBelow
  CountMinAbove
  RadarReal
  ScoresTrue
PROPERTIES
  SamplingEnds
