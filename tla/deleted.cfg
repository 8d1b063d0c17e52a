\* One backup is kept; is a deleted one refused?
CONSTANTS
  Fps = {1, 2, 3}
  Sampled = {1, 3}
  Streams <- Backups
  MaxVersions = 2
  Indexes <- SpecificIndexes
  ValueLength = 2
  Retention = 1
  SegmentSize = 2
  Capacity = 2
  Rewriting = TRUE
  HarThreshold = 2
  HarLimit = 60
SPECIFICATION Spec
INVARIANT DeletedRefused
CHECK_DEADLOCK FALSE
