\* The threads stop once MaxRequests operations are called.
SPECIFICATION Spec
CONSTANTS
  t1 = t1
  t2 = t2
  Worker = Worker
  Threads = {t1}
  Policies <- Asynchronous
  Views <- Channels
  Ops = {"ingest", "forget"}
  Keys = {"th"}
  Like <- Patterns
  MaxItems = 2
  Parts = 2
  Failing = FALSE
  Crashes = FALSE
  MaxRequests = 2
INVARIANT ForgottenLeavesNothing
CHECK_DEADLOCK FALSE
