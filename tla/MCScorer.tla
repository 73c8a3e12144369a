------------------------------ MODULE MCScorer ------------------------------
\* The scorer on a short stream of frames: every sequence of frames up to
\* MaxFrames, with thresholds of two and three.
EXTENDS ScorerHistory, TLC

\* The layers are interchangeable: no rule of the lifecycle names one.
LayerSymmetry == Permutations(Layers)
=============================================================================
