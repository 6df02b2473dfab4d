SPECIFICATION FairSpec
CONSTANTS
  Files = {f1, f2}
  Unfit = {f2}
  MaxRetries = 2
  MaxConcurrent = 1
  MaxFaults = 2
  MaxStops = 2
INVARIANTS TypeOK ProcessingIsAttended AttemptsAreBounded
PROPERTIES StopWaits EveryArtifactSettles
CHECK_DEADLOCK FALSE
