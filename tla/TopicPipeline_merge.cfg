SPECIFICATION Spec
CONSTANTS
  MaxMessages = 4
  MaxTopics = 6
  MaxAnswer = 1
  MaxForced = 0
  MaxFaults = 0
  Gap = 3
  Hidden = {}
PROPERTY MergeMovesOnlyItsOwn
CHECK_DEADLOCK FALSE
