\* One backup is kept; does a later one use what was deleted with an earlier one?
CONSTANTS
  Fps = {1, 2, 3}
  Sampled = {1, 3}
  Streams <- Backups
  MaxVersions = 3
  Indexes <- SparseIndex
  ValueLength = 2
  Retention = 1
  SegmentSize = 2
  Capacity = 2
  Rewriting = FALSE
  HarThreshold = 2
  HarLimit = 60
SPECIFICATION Spec
INVARIANT InvalidEntriesUnused
CHECK_DEADLOCK FALSE
