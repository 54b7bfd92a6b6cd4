SPECIFICATION FairSpec
CONSTANTS
  PageSize = 3
  MaxPages = 2
  OverlapPages = 1
  NoCheckpoint = NoCheckpoint
  NoJob = NoJob
  NoBlock = NoBlock
  Blocks <- MCBlocks
  Chain <- MCChain
  History <- MCHistory
  Moves <- Switch
  Genesis = "a2"
  Discovery <- MCDiscovery
  Txids <- MCTxids
  LiveTxids = {5}
  TipFree = {5}
  RowLimit = 2
  MaxStableTipAttempts = 1
PROPERTIES
  RowsConverge
