------------------------------ MODULE MCRounds ------------------------------
\* A home network on the radio, an office on a cable, and a phone that shares its
\* connection and answers no pings; the collectors in small groups, each with
\* those it shares the cached route with.
EXTENDS Rounds

CONSTANTS home, office, phone

MCKind == [n \in Networks |-> IF n = office THEN "ethernet" ELSE "wifi"]
MCSwitches == {{"gateway", "wifi"}, {"system"}, {"https"}, {"dns"}, {"captive"}, {"path"}}
=============================================================================
