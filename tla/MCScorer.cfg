CONSTANTS
  Layers = {wifi, dns}
  NoLayer = NoLayer
  NoIncident = NoIncident
  OpenAfter = 2
  CloseAfter = 3
  Bands = {0, 1, 2, 3}
  CounterCap = 4
  MaxFrames = 7
SPECIFICATION HSpec
SYMMETRY LayerSymmetry
PROPERTIES
  ImplementsEpisodes
CHECK_DEADLOCK FALSE
