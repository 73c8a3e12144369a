----------------------------- MODULE MCLearning -----------------------------
\* A layer that may get worse and that comes and goes, and a radio that comes and goes.
EXTENDS Learning

CONSTANTS home, radio

MCMeasured == [l \in Layers |-> IF l = home THEN {"absent", "usual", "worse"} ELSE {"absent", "usual"}]
=============================================================================
