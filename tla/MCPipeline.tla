----------------------------- MODULE MCPipeline -----------------------------
\* A feature that goes stale before the longest window ends, and one that is
\* carried beyond it, as the round trip to the router and the path are.
EXTENDS Pipeline

MCValues == [rtt |-> {0, 1}, hop |-> {1}]
MCStaleness == [rtt |-> 1, hop |-> 3]
MCWindows == <<1, 2>>
\* What the path adds to the router.
MCLegs == {<<"hop", "rtt">>}
=============================================================================
