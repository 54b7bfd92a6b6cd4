SPECIFICATION FairSpec
CONSTANTS
  Txids = {t1}
  TipFree = {}
  Limit = 1
  MaxWire = 2
  NoJob = NoJob
  NoTxid = NoTxid
INVARIANTS
  AnchoredRecorded
PROPERTIES
  StoreConverges
