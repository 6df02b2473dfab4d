SPECIFICATION FairSpec
CONSTANTS
  Keys = {k1}
  MaxMessages = 4
INVARIANTS
  TypeOK
  WaitGroupBalanced
  InOneBatch
  TurnsEndBeforeStopReturns
PROPERTIES
  KeepsTurnContract
  EveryMessageGetsItsTurn
  StopCompletes
CHECK_DEADLOCK FALSE
