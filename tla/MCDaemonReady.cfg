SPECIFICATION FairProcessSpec
CONSTANTS
  MaxTail = 3
  Instances = {i1, i2}
  Indexer = i1
INVARIANTS
  ReadyAfterSuccess
CHECK_DEADLOCK FALSE
