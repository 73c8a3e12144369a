CONSTANTS
  home = home
  office = office
  phone = phone
  Nowhere = Nowhere
  Networks = {home, office, phone}
  Silent = {phone}
  Kind <- MCKind
  Switches <- MCSwitches
  Targets = 2
  TTL = 2
  RetransEvery = 2
  MaxTime = 4
  MaxMoves = 2
SPECIFICATION Spec
INVARIANTS
  SpeaksOfHere
  SaysWhatTheWireSaid
  
