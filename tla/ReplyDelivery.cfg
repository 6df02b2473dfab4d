SPECIFICATION FairSpec
CONSTANTS
  Deliveries = {d1}
  MaxParts = 3
  MaxOps = 6
  MaxFaults = 2
  MaxCrashes = 2
INVARIANTS
  TypeOK
  AtMostOnceInOrder
  LedgerNeverDenies
  SealedTerminal
  NeverRefused
  HonestReports
PROPERTIES
  KeepsContract
  EveryDeliverySettles
CHECK_DEADLOCK FALSE
