SPECIFICATION Spec
CONSTANTS
  Deliveries = {d1}
  MaxParts = 2
  MaxOps = 4
  MaxFaults = 0
  MaxCrashes = 1
INVARIANT ConfirmedPrefixResolves
CHECK_DEADLOCK FALSE
