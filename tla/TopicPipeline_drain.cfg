SPECIFICATION FairSpec
CONSTANTS
  MaxMessages = 3
  MaxTopics = 6
  MaxAnswer = 1
  MaxForced = 0
  MaxFaults = 1
  Gap = 2
  Hidden = {2}
INVARIANT MovedBeforeDeleted
PROPERTIES
  QueueDrains
  EveryMessageRemembered
CHECK_DEADLOCK FALSE
