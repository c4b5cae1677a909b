\* The threads stop once MaxRequests operations are called.
SPECIFICATION Spec
CONSTANTS
  t1 = t1
  t2 = t2
  Worker = Worker
  Threads = {t1, t2}
  Policies <- AllPolicies
  Views <- Channels
  Ops = {"ingest", "promote", "set", "delete", "forget", "purge", "reindex", "retrieve"}
  Keys = {"th", "t_"}
  Like <- Patterns
  MaxItems = 2
  Parts = 2
  Failing = TRUE
  Crashes = TRUE
  MaxRequests = 3
SYMMETRY SameThreads
INVARIANTS
  RetrievalFaithful
  LeftoversExplained
  ReadyMeansEmbedded
  PreferenceUnique
  PendingIsOnItsWay
CHECK_DEADLOCK FALSE
