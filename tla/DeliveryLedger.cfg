SPECIFICATION LedgerSpec
CONSTANTS
  Deliveries = {d1}
  MaxOps = 4
INVARIANTS
  SummaryAgrees
  OneFallbackBranch
PROPERTY OperationLifecycle
CHECK_DEADLOCK FALSE
