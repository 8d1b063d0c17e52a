\* Two files of five chunks in four containers, with each of the schemes.
CONSTANTS
  fa = fa
  fb = fb
  fc = fc
  fd = fd
  Length = 5
  Containers <- Stored
  Recipes <- Backups
  Schemes = {"lru", "asm", "opt"}
  CacheSize = 2
  AreaSize = 3
  WindowSize = 3
  SegmentSize = 2
  QueueSize = 1
SPECIFICATION FairSpec
INVARIANTS TypeOK RecordsAligned SimulationAgrees
PROPERTIES IsPlayback EvictsFurthest RestoreCompletes
