\* Two producers race for a queue smaller than the number of items.
CONSTANTS
  Producers = {p1, p2}
  Consumers = {c1, c2}
  MaxSize = 1
  Quota = 2
SPECIFICATION FairSpec
INVARIANTS TypeOK SleepersHaveCause
PROPERTIES IsChannel Delivered
