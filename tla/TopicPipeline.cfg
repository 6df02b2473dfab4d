SPECIFICATION Spec
CONSTANTS
  MaxMessages = 2
  MaxTopics = 4
  MaxAnswer = 1
  MaxForced = 1
  MaxFaults = 0
  Gap = 2
  Hidden = {}
INVARIANTS
  TypeOK
  SplitIsPartition
  NoMessageDangles
PROPERTIES
  NeverToldTwice
CHECK_DEADLOCK FALSE
