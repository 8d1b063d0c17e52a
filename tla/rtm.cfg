\* Three backups over containers of one to three chunks, and the collector.
CONSTANTS
  Sizes = {1, 2, 3}
  MaxContainers = 3
  MaxVersions = 3
  MaxNew = 1
  Garbage = {0, 2}
SPECIFICATION Spec
INVARIANTS TypeOK BitsFaithful TimesFaithful AttributesButLast GcSparesNewest
