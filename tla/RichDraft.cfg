SPECIFICATION FairSpec
CONSTANTS
  Gap = 1
  Beat = 4
  Timeout = 2
  Backoff = 2
  CatchUp = 1
  Ttl = 12
  Trip = 1
  RetryAfter = {3}
  MaxStatuses = 1
  MaxContent = 2
  MaxFaults = 2
INVARIANTS TypeOK PendingIsAttended OneFailureIsSurvived
PROPERTIES RequestsAreSpaced SilentAfterClose PendingIsShown
CHECK_DEADLOCK FALSE
