\* The request/response system stops once MaxTurns requests are handled.
SPECIFICATION Spec
CONSTANTS
  Tools = {"echo", "ping", "take_photo"}
  Args = {1}
  Allowlist = {"echo", "ping", "take_photo"}
  ConfirmRequired = {"echo", "take_photo"}
  RiskForced = {}
  MemoryTools = {}
  MemoryReadAllowed = TRUE
  DeviceTools = {"take_photo"}
  SessionLimits = {4}
  CoreMaxLoops = 8
  MaxToolCalls = 2
  Failures = {}
  MaxTurns = 2
  NoCall = NoCall
INVARIANT OnlyConfirmedToolsRun
CHECK_DEADLOCK FALSE
