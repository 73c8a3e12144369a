CONSTANTS
  Layers = {wifi}
  NoLayer = NoLayer
  NoIncident = NoIncident
  NoRow = NoRow
  NoLabel = NoLabel
  Verdicts = {bad}
  OpenAfter = 2
  CloseAfter = 2
  Bands = {0, 2}
  CounterCap = 2
  MaxIncidents = 2
  MaxCrashes = 1
  MaxFailures = 1
  MaxWipes = 1
  MaxLabels = 1
SPECIFICATION StoreSpec
PROPERTY
  LabelSticks
