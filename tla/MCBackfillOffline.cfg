SPECIFICATION FairSpec
CONSTANTS
  PageSize = 1
  MaxPages = 2
  OverlapPages = 0
  NoCheckpoint = NoCheckpoint
  NoJob = NoJob
  NoBlock = NoBlock
  Blocks <- MCBlocks
  Chain <- MCChain
  History <- MCHistory
  Moves <- Forward
  Genesis = "g"
  Discovery <- MCDiscovery
  Txids <- MCTxids
  LiveTxids = {}
  TipFree = {5}
  RowLimit = 2
  MaxStableTipAttempts = 3
PROPERTIES
  NoStaleRowAtCommit
  OlderPagesContinue
  CatchesUp
