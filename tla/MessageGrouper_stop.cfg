SPECIFICATION Spec
CONSTANTS
  Keys = {k1}
  MaxMessages = 3
INVARIANT StopProcessesAllPending
CHECK_DEADLOCK FALSE
