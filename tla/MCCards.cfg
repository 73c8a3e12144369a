CONSTANTS
  Layers <- MCLayers
  NoLayer = NoLayer
  NoIncident = NoIncident
  OpenAfter = 2
  CloseAfter = 1
  Bands = {0, 1, 2, 3}
  CounterCap = 2
  Learned <- MCLearned
  Forecasts = {0, 60}
  WatchAt = 25
  RiskAt = 50
  CriticalAt = 75
  Seen <- MCSeen
  NoCard = NoCard
  Details <- MCDetails
SPECIFICATION CardsSpec
INVARIANTS
  BlameStopsAtTheWorst
  AlertGoesUnopened
PROPERTIES
  RuleGetsItsCard
  NeverNamesSuppressed
