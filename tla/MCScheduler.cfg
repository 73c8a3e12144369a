CONSTANTS
  Collectors = {system, path}
  Steady = {system}
  Mortal = {system, path}
  OnSuspicion = {path}
  MaxDeaths = 2
  MaxFailures = 1
  MaxTriggers = 1
  MaxTimeouts = 1
SPECIFICATION FairSpec
INVARIANTS
  WakeNotLost
  StopIsPrompt
  StoppedMeansQuiet
PROPERTIES
  SaveIsReached
  WatchedWorkerReturns
  StopEndsWorkers
CHECK_DEADLOCK FALSE
