\* The threads stop once MaxRequests requests are made.
SPECIFICATION PromptSpec
CONSTANTS
  t1 = t1
  t2 = t2
  Threads = {t1, t2}
  Providers = {"a", "b", "c", "d", "nokey", "vendor", "stub"}
  Stubs = {"stub"}
  Primaries = {"a", "b", "c", "d"}
  Chain <- Chains
  Route <- Routes
  Threshold <- Thresholds
  OpenSeconds <- OpenTimes
  MaxCalls <- Limits
  Window <- Windows
  PoolKey <- Keys
  NoPool = NoPool
  MaxPool = 2
  Deployments <- AllKinds
  MaxEntries = 1
  Ttl = 1
  MaxNow = 2
  MaxRequests = 3
SYMMETRY SameThreads
INVARIANTS
  OpeningsArePaid
  RateWindow
  FailsOnlyAtTheEnd
  ClosedOnlyWhenOldest
  RaisesOnlyRaced
  CacheBounded
PROPERTY RefusedWhileOpen
CHECK_DEADLOCK FALSE
