CONSTANTS
  Features = {"rtt", "hop"}
  Values <- MCValues
  Staleness <- MCStaleness
  Windows <- MCWindows
  Legs <- MCLegs
  CompactAfter = 2
  NoSample = NoSample
  NoFrame = NoFrame
  MaxClock = 5
  MaxFailures = 1
  MaxWipes = 1
SPECIFICATION PipelineSpec
INVARIANTS
  NoneIsLost
  FrameIsRecentHistory
  OnePassIsRescan
CHECK_DEADLOCK FALSE
