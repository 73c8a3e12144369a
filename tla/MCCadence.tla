----------------------------- MODULE MCCadence -----------------------------
\* Two collectors that share the https bucket, one of them with two targets; and each
\* on its own: the resolver, the gateway, which takes two tokens at once, and the trace,
\* which may fail and which suspicions wake.  The file asks for intervals that the loader
\* refuses, unless the environment corrects them.
EXTENDS Cadence

CONSTANTS icmp, https, gateway, captive, dns, path

MCKind == [c \in Collectors |->
  CASE c = gateway -> icmp [] c \in {dns, path} -> c [] OTHER -> https]
MCCost == [c \in Collectors |-> IF c = gateway THEN 2 ELSE 1]
MCTargets == [c \in Collectors |-> IF c = https THEN 2 ELSE 1]
MCCapacity == [k \in Kinds |-> IF k \in {dns, path} THEN 1 ELSE 2]
MCPeriod == [k \in Kinds |-> 3]
MCGroups == {{https, captive}, {dns}, {gateway}, {path}}
MCDefault == [c \in Collectors |-> IF c = captive THEN 4 ELSE 3]
MCFiles == {<<>>, [c \in Collectors \ {captive} |-> 1]}
MCEnvironments == {<<>>, [c \in Checked |-> 3]}
=============================================================================
