SPECIFICATION FairProcessSpec
CONSTANTS
  MaxTail = 3
  Instances = {i1, i2}
  Indexer = i1
INVARIANTS
  VersionTellsSchema
  OnePeriodic
  QuietWhenClosed
PROPERTIES
  ShutdownEnds
  BecomesReady
CHECK_DEADLOCK FALSE
