SPECIFICATION FairSpec
CONSTANTS
  t1 = t1
  t2 = t2
  t3 = t3
  t4 = t4
  c1 = c1
  c2 = c2
  c3 = c3
  c4 = c4
  d1 = d1
  NoCaller = NoCaller
  Txids = {t1, t2, t3, t4}
  Callers = {c1, c2, c3, c4}
  Drains = {d1}
  MaxSize = 2
  Concurrency = 1
INVARIANTS PromisesAreLive
PROPERTIES DrainMeansIdle FirstInFirstOut ImplementsJobs PromisesSettle
CHECK_DEADLOCK FALSE
