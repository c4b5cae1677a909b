\* The threads rest once MaxRequests requests are answered.
SPECIFICATION Spec
CONSTANTS
  Threads = {t1, t2}
  Guarded = Guarded
  Long = Long
  Inputs <- AllInputs
  Setups <- AllSetups
  Minute = 1
  Sessions = {1, 2, 3}
  MaxClock <- AllTicks
  MaxRequests = 4
  NoSession = NoSession
SYMMETRY Pairs
INVARIANTS
  RateOvershoot
  WritesAllowed
  GuardHolds
CHECK_DEADLOCK FALSE
