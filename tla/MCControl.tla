----------------------------- MODULE MCControl -----------------------------
\* Two requests at a time.
EXTENDS Control, TLC

RequesterSymmetry == Permutations(Requesters)
=============================================================================
