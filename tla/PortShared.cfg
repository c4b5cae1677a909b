\* The port stops once MaxInputs inputs are handled.
SPECIFICATION Spec
CONSTANTS
  p1 = p1
  p2 = p2
  t1 = t1
  t2 = t2
  NoThread = NoThread
  Procs = {p1, p2}
  Threads = {t1, t2}
  ProcOf <- TwoWorkers
  Backends = {"sqlite_shared"}
  Overlaps = {TRUE}
  Ids = {1, 2}
  MaxInputs = 3
  Crashes = FALSE
INVARIANT ApprovedAtMostOnce
CHECK_DEADLOCK FALSE
