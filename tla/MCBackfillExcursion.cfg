SPECIFICATION Spec
CONSTANTS
  PageSize = 2
  MaxPages = 1
  OverlapPages = 1
  NoCheckpoint = NoCheckpoint
  NoJob = NoJob
  NoBlock = NoBlock
  Blocks <- MCBlocks
  Chain <- MCChain
  History <- MCHistory
  Moves <- Excursion
  Genesis = "g"
  Discovery <- MCDiscovery
  Txids <- MCTxids
  LiveTxids = {}
  TipFree = {5}
  RowLimit = 2
  MaxStableTipAttempts = 3
PROPERTIES
  NoStaleRowAtCommit
