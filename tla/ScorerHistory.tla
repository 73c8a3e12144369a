--------------------------- MODULE ScorerHistory ---------------------------
(***************************************************************************)
(* The scorer with a record of the frames it has observed, and the proof   *)
(* obligation that its two counters implement Episodes.                    *)
(***************************************************************************)
EXTENDS Scorer, Sequences

CONSTANT MaxFrames   \* bound: the scorer is fed this many frames

VARIABLES observed, sighted

historyVars == <<above, below, incident, result, observed, sighted>>

ASSUME HistoryAssumption == MaxFrames \in Nat

\* How a frame counts for the lifecycle.
Kind(f) ==
  CASE f.blind -> "blind"
    [] ~f.blind /\ ~Alerting(f) -> "quiet"
    [] ~f.blind /\ Alerting(f) /\ Explained(f) -> "alert"
    [] OTHER -> "unexplained"

HInit == Init /\ observed = << >> /\ sighted = << >>

HObserve(f) ==
  /\ Len(observed) < MaxFrames
  /\ Observe(f)
  /\ observed' = Append(observed, Kind(f))
  /\ sighted' = IF f.blind THEN sighted ELSE Append(sighted, Kind(f))

HNext == \E f \in Frames : HObserve(f)

HSpec == HInit /\ [][HNext]_historyVars

Ledger == INSTANCE Episodes WITH open <- incident # NoIncident

\* The counters of the scorer open and close an incident on exactly the frames
\* on which the history of frames says an episode starts and ends.
ImplementsEpisodes == Ledger!Spec

-----------------------------------------------------------------------------
\* n is the length of the run of K-entries at the end of s, counted up to the cap.
RunLength(s, n, K) ==
  /\ Ledger!LastAre(s, n, K)
  /\ n < CounterCap /\ n < Len(s) => s[Len(s) - n] \notin K

\* _above counts the alerting frames since the last blind or quiet one, and
\* _below the quiet ones since the last alerting one, blind frames ignored.
CountersMatchHistory ==
  /\ RunLength(observed, above, Ledger!AlertKinds)
  /\ RunLength(sighted, below, {"quiet"})
=============================================================================
