\* Selective rewriting of three copies, the middle one in order.
CONSTANTS
  a = a
  b = b
  Histories <- History
  Lengths = {5}
  Algorithms = {"cfl"}
  RewriteSize = 3
  CappingLevel = 1
  UsageThreshold = 2
  HAR = FALSE
  RestoreAware = FALSE
  SegmentSize = 2
  Capacity = 1
  CacheSize = 1
  QueueSize = 6
  Sampled = {a, b}
  Fps = {a, b}
SPECIFICATION FairSpec
INVARIANTS NoRepeatRewrite
