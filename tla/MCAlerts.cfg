CONSTANTS
  Layers = {wifi, dns}
  NoLayer = NoLayer
  NoIncident = NoIncident
  NeverSent = NeverSent
  OpenAfter = 2
  CloseAfter = 2
  Bands = {0, 2, 3}
  CounterCap = 2
  Settings <- MCSettings
  Day = 4
  MaxTime = 10
  MaxRestarts = 1
  NoAlert = NoAlert
  WarmUps = {0, 4}
SPECIFICATION ReplaySpec
SYMMETRY LayerSymmetry
INVARIANTS
  OneAlertPerEpisode
  OncePerLevel
  QuietWithReason
  CountBoundsInterruptions
CHECK_DEADLOCK FALSE
