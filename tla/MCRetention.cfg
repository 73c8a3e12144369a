CONSTANTS
  Half = 2
  Interval = 4
  Settings <- MCSettings
  MaxTime = 16
  MaxFailures = 1
  MaxRestarts = 1
SPECIFICATION Spec
INVARIANTS
  CountedOnce
  YoungStaysRaw
  WindowsEnforced
  LossIsLocal
