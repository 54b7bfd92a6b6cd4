SPECIFICATION FairSpec
CONSTANTS
  Txids = {t1, t2, t3}
  Requested = {t1}
  MaxSize = 1
  Concurrency = 1
  Addresses = {a1, a2}
  MaxRequests = 2
  Window = 2
  MaxBuckets = 1
  NoBucket = NoBucket
  AdminCalls = {c1}
  Outcomes = {"VERIFIED", "VERIFIED_TM1", "UNAUTHORIZED", "NO_MEMO", "INVALID_MEMO",
              "INVALID_TM1", "MULTIPLE_MEMOS", "MEMPOOL_TIP_REQUIRED",
              "INVALID_VERIFICATION_CONTEXT", "INVALID_TXID", "TRANSACTION_NOT_FOUND",
              "CHRONIK_UNAVAILABLE", "INVALID_CHRONIK_RESPONSE", "thrown"}
INVARIANTS
  RateBounded
  SuccessIsDurable
PROPERTIES
  NoLockout
  AdminAnswered
CHECK_DEADLOCK FALSE
