CONSTANTS
  Requesters = {r1, r2}
  NoSwitch = NoSwitch
  MaxCrashes = 2
  MaxUnanswered = 1
  MaxWipes = 2
  MaxLearned = 2
SPECIFICATION Spec
SYMMETRY RequesterSymmetry
INVARIANTS
  WipedStaysWiped
  SavesSurvive
  SwitchesHold
