\* The store stops once MaxCalls operations are called.
SPECIFICATION FairSpec
CONSTANTS
  p1 = p1
  t1 = t1
  t2 = t2
  NoThread = NoThread
  NoRow = NoRow
  Procs = {p1}
  Threads = {t1, t2}
  ProcOf <- OneWorker
  Sessions = {"a"}
  Ops = {"create", "append", "set_status", "summary", "delete"}
  Crashes = TRUE
  MaxCalls = 4
INVARIANTS
  AckedKept
PROPERTIES
  ImplementsLog
  CallsReturn
CHECK_DEADLOCK FALSE
