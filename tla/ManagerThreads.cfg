\* The system stops once MaxRequests requests are received.
SPECIFICATION FairSpec
CONSTANTS
  Sessions = {1, 2, 3}
  Threads = {t1, t2}
  Kinds = {"message", "archive", "idle", "update", "destroy"}
  Summarises = TRUE
  Serials = {TRUE, FALSE}
  Crashes = {TRUE, FALSE}
  MaxRequests = 4
  NoSession = NoSession
  NoRow = NoRow
INVARIANTS
  ArchiveIsComplete
  EndedSessionsRest
  LiveBounded
PROPERTIES
  SummaryStays
  SummarySettles
CHECK_DEADLOCK FALSE
