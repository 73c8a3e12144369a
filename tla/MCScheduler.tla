---------------------------- MODULE MCScheduler ----------------------------
\* Two collectors and one fault of each kind.
EXTENDS Scheduler
=============================================================================
