\* Every file of eight bytes and every short one, chunked by each algorithm.
CONSTANTS
  MinSize = 2
  AvgSize = 4
  MaxSize = 5
  ContainerRoom = 6
  WindowBytes = 2
  BreakMark = 1
  WordBytes = 2
  AeWindow = 2
  SegmentLength = 3
  SegmentMin = 1
  SegmentMax = 3
  SampleRatio = 2
  Streams <- Backups
  Settings <- AllSettings
  BlockSize = 4
  QueueSize = 1
  Longest = 8
SPECIFICATION FairSpec
INVARIANTS TypeOK CutByContent SizesBounded FeaturesRepresent
PROPERTIES StreamCompletes
CHECK_DEADLOCK FALSE
