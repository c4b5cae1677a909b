\* The request/response system stops once MaxTurns requests are handled.
SPECIFICATION FairSpec
CONSTANTS
  Tools = {"echo", "ping", "wipe", "take_photo", "search_memory", "rm"}
  Args = {1, 2}
  Allowlist = {"echo", "ping", "wipe", "take_photo", "search_memory"}
  ConfirmRequired = {"echo", "search_memory", "rm"}
  RiskForced = {"wipe"}
  MemoryTools = {"search_memory"}
  MemoryReadAllowed = FALSE
  DeviceTools = {"take_photo"}
  SessionLimits = {2, 4}
  CoreMaxLoops = 5
  MaxToolCalls = 2
  Failures = {"model", "tool", "crash"}
  MaxTurns = 3
  NoCall = NoCall
INVARIANTS
  BudgetOvershoot
  ConfirmationGate
  PendingIsRunnable
  NoRepeatInLoop
  ToolMessagesPaired
  CallsAnswered
PROPERTY EveryRequestAnswered
CHECK_DEADLOCK FALSE
