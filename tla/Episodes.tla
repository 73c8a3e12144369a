------------------------------ MODULE Episodes ------------------------------
(***************************************************************************)
(* What the scorer promises about incidents, stated over everything it has *)
(* observed instead of over counters.  An episode opens on the first       *)
(* sighted frame that has an explanation and ends a run of OpenAfter       *)
(* alerting frames not interrupted by a blind one; it closes when the last *)
(* CloseAfter sighted frames were all quiet.                               *)
(***************************************************************************)
EXTENDS Naturals, Sequences

CONSTANTS OpenAfter, CloseAfter

VARIABLES
  observed, \* the kind of every frame since the scorer was created
  sighted,  \* the same without the blind ones
  open      \* an episode is open

episodeVars == <<observed, sighted, open>>

\* "alert" and "unexplained" are both at or above the risk band; only the
\* first comes with a card.
Kinds == {"alert", "unexplained", "quiet", "blind"}
AlertKinds == {"alert", "unexplained"}

\* The last n entries of s all belong to K.
LastAre(s, n, K) == n <= Len(s) /\ \A i \in (Len(s) - n + 1) .. Len(s) : s[i] \in K

Init ==
  /\ observed = << >>
  /\ sighted = << >>
  /\ open = FALSE

Blind ==
  /\ observed' = Append(observed, "blind")
  /\ UNCHANGED <<sighted, open>>

Sighted(kind) ==
  /\ observed' = Append(observed, kind)
  /\ sighted' = Append(sighted, kind)
  /\ open' = IF open THEN ~LastAre(sighted', CloseAfter, {"quiet"})
                     ELSE kind = "alert" /\ LastAre(observed', OpenAfter, AlertKinds)

Next == Blind \/ \E kind \in Kinds \ {"blind"} : Sighted(kind)

Spec == Init /\ [][Next]_episodeVars
=============================================================================
