CONSTANTS
  home = home
  radio = radio
  Layers = {home, radio}
  Measured <- MCMeasured
  Inertia = 2
  ScoreMin = 1
  FreezeMin = 2
  MaxFrozen = 3
  Converge = 1
  Calibrate = 2
  ReferenceSize = 2
  RecentSize = 2
  MinSamples = 2
  CheckEvery = 2
  Cooldown = 5
  MaxToggles = 1
  MaxRestarts = 1
SPECIFICATION FairLearningSpec
INVARIANTS
  FaultIsNotAbsorbed
  OneMoveFewRelearns
PROPERTIES
  SteadyIsAccepted
