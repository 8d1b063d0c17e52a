\* Four backups, of which two are kept, under five configurations of the index.
CONSTANTS
  Fps = {1, 2, 3}
  Sampled = {1, 3}
  Streams <- Backups
  MaxVersions = 4
  Indexes <- SpecificIndexes
  ValueLength = 2
  Retention = 2
  SegmentSize = 2
  Capacity = 2
  Rewriting = TRUE
  HarThreshold = 2
  HarLimit = 60
SPECIFICATION Spec
INVARIANTS TypeOK KeptVersionsIntact DeletionClean ManifestExact SparseForsaken
PROPERTIES IsVersions
CHECK_DEADLOCK FALSE
