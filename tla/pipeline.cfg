\* Every algorithm, the exact index without a bound, inherited sparse containers, the restore-aware filters.
CONSTANTS
  a = a
  b = b
  Histories <- History
  Lengths = {2, 5}
  Algorithms = {"no", "cfl", "cap", "cbr"}
  RewriteSize = 3
  CappingLevel = 1
  UsageThreshold = 2
  HAR = TRUE
  RestoreAware = TRUE
  SegmentSize = 2
  Capacity = 2
  CacheSize = 1
  QueueSize = 3
  Sampled = {a, b}
  Fps = {a, b}
SPECIFICATION FairSpec
INVARIANTS TypeOK RecipeFaithful NoDoubleStore MarkedBeforeDecision
PROPERTIES NeverOlderCopy BackupCompletes
