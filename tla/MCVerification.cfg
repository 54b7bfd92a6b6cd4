SPECIFICATION Spec
CONSTANTS
  MaxScript = 223
  MaxEnvelope = 215
  MaxEventData = 212
  MaxMemo = 80
  MaxSafe = 2
  NoBound = NoBound
  Mempool = Mempool
  NoRow = NoRow
  NoTip = NoTip
  NoTx = NoTx
  NoPost = NoPost
  Null = Null
  ProfileCodes <- MCProfileCodes
  Documents <- MCDocuments
  Foreign <- MCForeign
  Posts <- MCPosts
  Wallets <- MCWallets
INVARIANTS
  WindowExact
  AlwaysDurable
  PublishedVerifies
  AcceptedIsCanonical
  AuthorSigned
  FeedServable
  AnswersAgree
PROPERTIES
  SettledInBlock
