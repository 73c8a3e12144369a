------------------------------ MODULE MCAlerts ------------------------------
\* Two layers; a cooldown that outlasts an episode and one that does not; quiet
\* hours that are empty (at midnight and elsewhere), within a day, and across
\* midnight, in a day of four ticks.
EXTENDS Replay, TLC

Quiet(start, end, cooldown) ==
  [enabled |-> TRUE, floor |-> Risk, cooldown |-> cooldown, start |-> start, end |-> end]
MCSettings == {Quiet(0, 0, 6), Quiet(2, 2, 2), Quiet(1, 3, 6), Quiet(3, 1, 2), Quiet(3, 0, 6)}

LayerSymmetry == Permutations(Layers)
=============================================================================
