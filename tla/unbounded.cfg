\* The index buffer against the threshold that dedup_phase.c sets.
CONSTANTS
  a = a
  b = b
  Histories <- History
  Lengths = {5}
  Algorithms = {"no"}
  RewriteSize = 2
  CappingLevel = 1
  UsageThreshold = 2
  HAR = FALSE
  RestoreAware = FALSE
  SegmentSize = 2
  Capacity = 1
  CacheSize = 1
  QueueSize = 6
  Sampled = {a, b}
  Fps = {a, b}
SPECIFICATION FairSpec
INVARIANTS BufferBounded
