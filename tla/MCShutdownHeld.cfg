SPECIFICATION FairProcessSpec
CONSTANTS
  MaxTail = 1
  Instances = {i1}
  Indexer = i1
PROPERTIES
  ShutdownBounded
CHECK_DEADLOCK FALSE
