------------------------------- MODULE Scorer -------------------------------
(***************************************************************************)
(* The incident lifecycle of netpulse/ml/scorer.py: what Scorer.observe    *)
(* does with one scored frame.  A frame is what is left of a sample once   *)
(* the ladder (rules, baselines, forecast, attribution) has run: its risk  *)
(* band, its severity, the layer blamed, and whether coverage was so low   *)
(* that the frame is blind.  The ladder itself is abstracted: any frame    *)
(* can follow any other.                                                   *)
(***************************************************************************)
EXTENDS Naturals

CONSTANTS
  Layers,      \* the layers an incident can be blamed on
  NoLayer,     \* attribution.primary is None
  NoIncident,  \* Scorer.active_incident is None
  OpenAfter,   \* OPEN_AFTER, consecutive alerting frames before opening
  CloseAfter,  \* CLOSE_AFTER, quiet frames before closing
  Bands,       \* bound: the severities that frames are given
  CounterCap   \* bound: _above and _below stop counting here

\* l0_rules.SEVERITY_ORDER: severities are compared by rank only.
Info == 0
Watch == 1
Risk == 2
Critical == 3
Severity == Info .. Critical

\* The in-memory Incident.  id is 0 until Repository.open_incident sets it;
\* user_label is left out because nothing ever sets it in memory.
Incident == [layer : Layers, severity : Severity, peak : Severity,
             id : Nat, notified : BOOLEAN]

\* Both counters are only ever compared with OpenAfter and CloseAfter, so a cap
\* above the two keeps every comparison the program makes.
ASSUME ScorerAssumption ==
  /\ OpenAfter \in Nat \ {0}
  /\ CloseAfter \in Nat \ {0}
  /\ Bands \subseteq Severity
  /\ CounterCap \in Nat
  /\ OpenAfter <= CounterCap
  /\ CloseAfter <= CounterCap
  /\ NoLayer \notin Layers
  /\ NoIncident \notin Incident

VARIABLES
  above,     \* Scorer._above
  below,     \* Scorer._below
  incident,  \* Scorer.active_incident
  result     \* the fields of the last ScoreResult that the agent acts on

scorerVars == <<above, below, incident, result>>

-----------------------------------------------------------------------------
\* risk is the band of risk_15m; _severity takes the worse of it and the rules.
Frame == [risk : Severity, severity : Severity,
          primary : Layers \cup {NoLayer}, blind : BOOLEAN]
Frames == {f \in Frame : f.risk <= f.severity /\ {f.risk, f.severity} \subseteq Bands}

ScoreResult == [opened : BOOLEAN, closed : BOOLEAN]
Unchanged == [opened |-> FALSE, closed |-> FALSE]

Worst(s, t) == IF s < t THEN t ELSE s

Alerting(f) == f.severity >= Risk

ExplainedLate(f) == ~f.blind /\ f.primary # NoLayer /\ f.severity >= Critical
\* A card is written when the frame is sighted, blames a layer and is not calm.
Explained(f) == ~f.blind /\ f.primary # NoLayer /\ f.severity >= Watch

Count(n) == IF n < CounterCap THEN n + 1 ELSE n

Above(f) == IF Alerting(f) THEN Count(above) ELSE 0

Below(f) == IF Alerting(f) THEN 0 ELSE Count(below)

NewIncident(f) == [layer |-> f.primary, severity |-> f.severity,
                   peak |-> f.risk, id |-> 0, notified |-> FALSE]

\* The card is rewritten only when the severity rises and there is a new card.
Escalate(i, f) ==
  [i EXCEPT !.peak = Worst(@, f.risk),
            !.severity = Worst(@, f.severity),
            !.layer = IF f.severity > i.severity /\ Explained(f)
                      THEN f.primary ELSE @]

OpensUnexplained(f) == Above(f) >= OpenAfter
Opens(f) == Above(f) >= OpenAfter /\ Explained(f)

ClosesEarly(f) == Below(f) + 1 >= CloseAfter
Closes(f) == Below(f) >= CloseAfter

-----------------------------------------------------------------------------
Init ==
  /\ above = 0
  /\ below = 0
  /\ incident = NoIncident
  /\ result = Unchanged

\* Coverage under MIN_COVERAGE_FOR_RISK: the run of alerting frames is broken,
\* _update_incident is not called, and the run of quiet frames is left alone.
BlindFrame(f) ==
  /\ f.blind
  /\ above' = 0
  /\ result' = Unchanged
  /\ UNCHANGED <<below, incident>>

CountFrame(f) ==
  /\ ~f.blind
  /\ above' = Above(f)
  /\ below' = Below(f)

\* No incident is open and this frame does not open one.
WatchFrame(f) ==
  /\ CountFrame(f)
  /\ incident = NoIncident
  /\ ~Opens(f)
  /\ result' = Unchanged
  /\ UNCHANGED incident

OpenIncident(f) ==
  /\ CountFrame(f)
  /\ incident = NoIncident
  /\ Opens(f)
  /\ incident' = NewIncident(f)
  /\ result' = [Unchanged EXCEPT !.opened = TRUE]

TrackIncident(f) ==
  /\ CountFrame(f)
  /\ incident # NoIncident
  /\ ~Closes(f)
  /\ incident' = Escalate(incident, f)
  /\ result' = Unchanged

CloseIncident(f) ==
  /\ CountFrame(f)
  /\ incident # NoIncident
  /\ Closes(f)
  /\ incident' = NoIncident
  /\ result' = [Unchanged EXCEPT !.closed = TRUE]

Observe(f) ==
  \/ BlindFrame(f)
  \/ WatchFrame(f)
  \/ OpenIncident(f)
  \/ TrackIncident(f)
  \/ CloseIncident(f)

Next == \E f \in Frames : Observe(f)

Spec == Init /\ [][Next]_scorerVars

-----------------------------------------------------------------------------
\* Every variable of the scorer has its type.
TypeOK ==
  /\ above \in 0 .. CounterCap
  /\ below \in 0 .. CounterCap
  /\ incident \in Incident \cup {NoIncident}
  /\ result \in ScoreResult

\* An open incident is worth an alert and is not overdue: its severity is at
\* least risk, and it is closed on the very frame that completes the quiet run,
\* so a quiet run long enough to close it never coexists with it.
LiveIncidentIsDue ==
  incident # NoIncident => incident.severity >= Risk /\ below < CloseAfter

\* While an incident stays open its severity and its peak only rise, and the
\* layer it blames changes only together with a rise of the severity.
OnlyEscalates ==
  [][ incident # NoIncident /\ incident' # NoIncident
        => /\ incident'.severity >= incident.severity
           /\ incident'.peak >= incident.peak
           /\ incident'.layer # incident.layer
                => incident'.severity > incident.severity ]_scorerVars
=============================================================================
