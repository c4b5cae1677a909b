\* The port stops once MaxInputs inputs are handled.
SPECIFICATION FairSpec
CONSTANTS
  p1 = p1
  p2 = p2
  t1 = t1
  t2 = t2
  NoThread = NoThread
  Procs = {p1}
  Threads = {t1, t2}
  ProcOf <- OneWorker
  Backends = {"memory", "sqlite_shared"}
  Overlaps = {TRUE, FALSE}
  Ids = {1, 2}
  MaxInputs = 4
  Crashes = TRUE
INVARIANT ShownBeforeAnswered
PROPERTIES
  NothingLost
  ImplementsProtocol
  EveryInputHandled
CHECK_DEADLOCK FALSE
