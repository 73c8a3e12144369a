-------------------------- MODULE MCAgentIncidents --------------------------
\* The incidents table on small bounds; the .cfg files choose which faults and
\* requests may happen.
EXTENDS AgentIncidents, TLC

LayerSymmetry == Permutations(Layers)
=============================================================================
