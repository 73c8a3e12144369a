---------------------------- MODULE ScorerProofs ----------------------------
(***************************************************************************)
(* For every threshold, every cap and every set of layers: the scorer's    *)
(* types, the facts about its live incident, and that its two counters     *)
(* implement the episodes of Episodes.                                     *)
(***************************************************************************)
EXTENDS ScorerHistory, TLAPS

\* The severities are the ranks 0 to 3, as in l0_rules.SEVERITY_ORDER.
LEMMA SeverityIsRank == /\ Severity = 0 .. 3
                        /\ Info = 0 /\ Watch = 1 /\ Risk = 2 /\ Critical = 3
BY DEF Severity, Info, Watch, Risk, Critical

\* The counters stay within the cap whichever way a frame counts.
LEMMA CountersBounded ==
  ASSUME TypeOK, NEW f
  PROVE  Above(f) \in 0 .. CounterCap /\ Below(f) \in 0 .. CounterCap
BY ScorerAssumption DEF TypeOK, Above, Below, Count

\* What a frame is made of.
LEMMA FrameFacts ==
  ASSUME NEW f \in Frames
  PROVE  /\ f.risk \in Severity /\ f.severity \in Severity
         /\ f.primary \in Layers \cup {NoLayer} /\ f.blind \in BOOLEAN
         /\ f.risk <= f.severity
BY DEF Frames, Frame

\* What a new incident and an escalated one look like.
LEMMA NewIncidentFacts ==
  ASSUME NEW f \in Frames, Explained(f)
  PROVE  /\ NewIncident(f) \in Incident
         /\ NewIncident(f) # NoIncident
         /\ NewIncident(f).severity = f.severity
<1>1. f.primary \in Layers
  BY FrameFacts DEF Explained
<1>2. NewIncident(f) \in Incident
  BY <1>1, FrameFacts DEF NewIncident, Incident
<1>. QED BY <1>2, ScorerAssumption DEF NewIncident

\* Escalating an incident keeps it one, and raises severity and peak or leaves them.
LEMMA EscalateFacts ==
  ASSUME NEW i \in Incident, NEW f \in Frames
  PROVE  /\ Escalate(i, f) \in Incident
         /\ Escalate(i, f) # NoIncident
         /\ Escalate(i, f).severity >= i.severity
         /\ Escalate(i, f).peak >= i.peak
         /\ Escalate(i, f).layer # i.layer => Escalate(i, f).severity > i.severity
<1> USE SeverityIsRank, FrameFacts
<1>1. /\ i.layer \in Layers /\ i.severity \in 0 .. 3 /\ i.peak \in 0 .. 3
      /\ i.id \in Nat /\ i.notified \in BOOLEAN
  BY DEF Incident
<1>2. Worst(i.peak, f.risk) \in 0 .. 3 /\ Worst(i.severity, f.severity) \in 0 .. 3
  BY <1>1 DEF Worst
<1>3. f.severity > i.severity /\ Explained(f) => f.primary \in Layers
  BY DEF Explained
<1> DEFINE layer == IF f.severity > i.severity /\ Explained(f) THEN f.primary ELSE i.layer
<1> DEFINE e(s, p, l) == [i EXCEPT !.peak = p, !.severity = s, !.layer = l]
<1>4. \A s \in 0 .. 3, p \in 0 .. 3, l \in Layers :
         /\ e(s, p, l) \in Incident
         /\ e(s, p, l).layer = l /\ e(s, p, l).severity = s /\ e(s, p, l).peak = p
  BY DEF Incident
<1>5. /\ Escalate(i, f) \in Incident
      /\ Escalate(i, f).layer = layer
      /\ Escalate(i, f).severity = Worst(i.severity, f.severity)
      /\ Escalate(i, f).peak = Worst(i.peak, f.risk)
  <2>1. layer \in Layers
    BY <1>1, <1>3
  <2>2. Escalate(i, f) = e(Worst(i.severity, f.severity), Worst(i.peak, f.risk), layer)
    BY DEF Escalate
  <2> HIDE DEF e, layer
  <2>. QED BY <1>2, <1>4, <2>1, <2>2
<1>6. Worst(i.severity, f.severity) >= i.severity /\ Worst(i.peak, f.risk) >= i.peak
  BY <1>1 DEF Worst
<1>7. f.severity > i.severity => Worst(i.severity, f.severity) > i.severity
  BY <1>1 DEF Worst
<1>. QED BY <1>5, <1>6, <1>7, ScorerAssumption

-----------------------------------------------------------------------------
\* A new scorer is well typed.
LEMMA InitType == Init => TypeOK
BY ScorerAssumption, SeverityIsRank
   DEF Init, TypeOK, ScoreResult, Unchanged

\* Scoring one frame keeps every type.
LEMMA ObserveType ==
  ASSUME TypeOK, NEW f \in Frames, Observe(f)
  PROVE  TypeOK'
<1> USE DEF TypeOK, ScoreResult, Unchanged
<1>0. f.severity \in Severity
  BY FrameFacts
<1>c. CountFrame(f) => above' \in 0 .. CounterCap /\ below' \in 0 .. CounterCap
  BY CountersBounded DEF CountFrame
<1>1. CASE BlindFrame(f)
  BY <1>0, <1>1, ScorerAssumption DEF BlindFrame
<1>2. CASE WatchFrame(f)
  BY <1>0, <1>c, <1>2 DEF WatchFrame
<1>3. CASE OpenIncident(f)
  <2>1. NewIncident(f) \in Incident
    BY <1>3, NewIncidentFacts DEF OpenIncident, Opens
  <2>. QED BY <2>1, <1>0, <1>c, <1>3 DEF OpenIncident
<1>4. CASE TrackIncident(f)
  <2>1. Escalate(incident, f) \in Incident
    BY <1>4, EscalateFacts DEF TrackIncident
  <2>. QED BY <2>1, <1>0, <1>c, <1>4 DEF TrackIncident
<1>5. CASE CloseIncident(f)
  BY <1>0, <1>c, <1>5 DEF CloseIncident
<1>. QED BY <1>1, <1>2, <1>3, <1>4, <1>5 DEF Observe

\* Every variable of the scorer keeps its type, for all thresholds.
THEOREM TypeCorrect == Spec => []TypeOK
<1>1. TypeOK /\ [Next]_scorerVars => TypeOK'
  <2> SUFFICES ASSUME TypeOK, [Next]_scorerVars PROVE TypeOK'
    OBVIOUS
  <2>1. CASE Next
    BY <2>1, ObserveType DEF Next
  <2>2. CASE UNCHANGED scorerVars
    BY <2>2 DEF TypeOK, scorerVars
  <2>. QED BY <2>1, <2>2
<1>. QED BY <1>1, InitType, PTL DEF Spec

-----------------------------------------------------------------------------
\* Scoring one frame leaves no incident open that is calm or overdue.
LEMMA ObserveDue ==
  ASSUME TypeOK, LiveIncidentIsDue, NEW f \in Frames, Observe(f)
  PROVE  LiveIncidentIsDue'
<1> USE SeverityIsRank, FrameFacts DEF LiveIncidentIsDue
<1>1. CASE BlindFrame(f)
  BY <1>1 DEF BlindFrame
<1>2. CASE WatchFrame(f)
  BY <1>2 DEF WatchFrame
<1>3. CASE OpenIncident(f)
  \* Opening takes an alerting frame, since the run of the others is empty.
  <2>1. Above(f) >= OpenAfter /\ Explained(f)
    BY <1>3 DEF OpenIncident, Opens
  <2>2. Alerting(f)
    BY <2>1, ScorerAssumption DEF Above
  <2>3. below' = 0
    BY <1>3, <2>2 DEF OpenIncident, CountFrame, Below
  <2>4. incident'.severity = f.severity
    BY <1>3, <2>1, NewIncidentFacts DEF OpenIncident
  <2>. QED BY <2>2, <2>3, <2>4, ScorerAssumption DEF Alerting
<1>4. CASE TrackIncident(f)
  <2>1. incident \in Incident /\ incident.severity \in 0 .. 3
    BY <1>4 DEF TrackIncident, TypeOK, Incident
  <2>2. Escalate(incident, f).severity >= incident.severity
        /\ Escalate(incident, f).severity \in 0 .. 3
    BY <2>1, EscalateFacts DEF Incident
  <2>3. incident.severity >= Risk
    BY <1>4 DEF TrackIncident
  <2>4. Below(f) \in 0 .. CounterCap /\ ~(Below(f) >= CloseAfter)
    BY <1>4, CountersBounded DEF TrackIncident, Closes
  <2>. QED BY <1>4, <2>1, <2>2, <2>3, <2>4, ScorerAssumption
           DEF TrackIncident, CountFrame
<1>5. CASE CloseIncident(f)
  BY <1>5 DEF CloseIncident
<1>. QED BY <1>1, <1>2, <1>3, <1>4, <1>5 DEF Observe

\* An open incident is alert-worthy and never overdue, for all thresholds.
THEOREM DueCorrect == Spec => []LiveIncidentIsDue
<1>1. Init => LiveIncidentIsDue
  BY DEF Init, LiveIncidentIsDue
<1>2. TypeOK /\ LiveIncidentIsDue /\ [Next]_scorerVars => LiveIncidentIsDue'
  <2> SUFFICES ASSUME TypeOK, LiveIncidentIsDue, [Next]_scorerVars
               PROVE  LiveIncidentIsDue'
    OBVIOUS
  <2>1. CASE Next
    BY <2>1, ObserveDue DEF Next
  <2>2. CASE UNCHANGED scorerVars
    BY <2>2 DEF LiveIncidentIsDue, scorerVars
  <2>. QED BY <2>1, <2>2
<1>. QED BY <1>1, <1>2, TypeCorrect, PTL DEF Spec

\* An open incident only escalates, in every step and for all thresholds.
THEOREM EscalationCorrect == Spec => OnlyEscalates
<1> DEFINE Rises ==
      incident # NoIncident /\ incident' # NoIncident
        => /\ incident'.severity >= incident.severity
           /\ incident'.peak >= incident.peak
           /\ incident'.layer # incident.layer
                => incident'.severity > incident.severity
<1>1. TypeOK /\ [Next]_scorerVars => [Rises]_scorerVars
  <2> SUFFICES ASSUME TypeOK, NEW f \in Frames, Observe(f) PROVE Rises
    BY DEF Next
  <2>0. incident # NoIncident => incident \in Incident
    BY DEF TypeOK
  <2>1. incident # NoIncident => incident.severity \in 0 .. 3 /\ incident.peak \in 0 .. 3
    BY <2>0, SeverityIsRank DEF Incident
  <2>2. CASE BlindFrame(f)
    BY <2>1, <2>2 DEF BlindFrame
  <2>3. CASE WatchFrame(f) \/ OpenIncident(f) \/ CloseIncident(f)
    BY <2>3 DEF WatchFrame, OpenIncident, CloseIncident
  <2>4. CASE TrackIncident(f)
    BY <2>0, <2>4, EscalateFacts DEF TrackIncident
  <2>. QED BY <2>2, <2>3, <2>4 DEF Observe
<1>. QED BY <1>1, TypeCorrect, PTL DEF Spec, OnlyEscalates

-----------------------------------------------------------------------------
(***************************************************************************)
(* The refinement.  A counter that follows a history is the length of the  *)
(* run at its end: RunGrows and RunBreaks say how one frame changes it,    *)
(* RunReaches that comparing it with a threshold asks about the history.   *)
(***************************************************************************)
Kinds == Ledger!Kinds

\* A run at the end of a sequence grows by one, up to the cap, with one more entry of K.
LEMMA RunGrows ==
  ASSUME NEW s \in Seq(Kinds), NEW n \in 0 .. CounterCap, NEW K,
         NEW k \in Kinds, k \in K, RunLength(s, n, K)
  PROVE  RunLength(Append(s, k), Count(n), K)
<1> DEFINE t == Append(s, k)
<1> USE ScorerAssumption
<1>1. Len(t) = Len(s) + 1 /\ t[Len(s) + 1] = k /\ Len(s) \in Nat
  OBVIOUS
<1>2. \A i \in 1 .. Len(s) : t[i] = s[i]
  OBVIOUS
<1>3. n <= Len(s) /\ \A i \in (Len(s) - n + 1) .. Len(s) : s[i] \in K
  BY DEF RunLength, Ledger!LastAre
<1>4. n < CounterCap /\ n < Len(s) => s[Len(s) - n] \notin K
  BY DEF RunLength
<1> HIDE DEF t
<1>5. \A i \in (Len(s) - n + 1) .. Len(t) : t[i] \in K
  <2> TAKE i \in (Len(s) - n + 1) .. Len(t)
  <2>1. CASE i = Len(s) + 1
    BY <1>1, <2>1
  <2>2. CASE i # Len(s) + 1
    <3>1. i \in (Len(s) - n + 1) .. Len(s) /\ i \in 1 .. Len(s)
      BY <1>1, <1>3, <2>2
    <3>. QED BY <1>2, <1>3, <3>1
  <2>. QED BY <2>1, <2>2
<1>6. CASE n < CounterCap
  <2>1. Count(n) = n + 1
    BY <1>6 DEF Count
  <2>2. n + 1 <= Len(t) /\ Len(t) - (n + 1) + 1 = Len(s) - n + 1
    BY <1>1, <1>3
  <2>3. Ledger!LastAre(t, n + 1, K)
    BY <1>5, <2>2 DEF Ledger!LastAre
  <2>4. n + 1 < CounterCap /\ n + 1 < Len(t) => t[Len(t) - (n + 1)] \notin K
    <3> SUFFICES ASSUME n + 1 < Len(t) PROVE t[Len(t) - (n + 1)] \notin K
      OBVIOUS
    <3>1. Len(t) - (n + 1) = Len(s) - n /\ Len(s) - n \in 1 .. Len(s)
      BY <1>1
    <3>. QED BY <1>1, <1>2, <1>4, <1>6, <3>1
  <2>. QED BY <2>1, <2>3, <2>4 DEF RunLength, t
<1>7. CASE ~(n < CounterCap)
  <2>1. Count(n) = n
    BY <1>7 DEF Count
  <2>2. Len(s) - n + 1 <= Len(t) - n + 1 /\ n <= Len(t)
    BY <1>1, <1>3
  <2>3. Ledger!LastAre(t, n, K)
    BY <1>1, <1>5, <2>2 DEF Ledger!LastAre
  <2>. QED BY <1>7, <2>1, <2>3 DEF RunLength, t
<1>. QED BY <1>6, <1>7

\* An entry outside K leaves a run of length zero.
LEMMA RunBreaks ==
  ASSUME NEW s \in Seq(Kinds), NEW K, NEW k \in Kinds, k \notin K
  PROVE  RunLength(Append(s, k), 0, K)
BY DEF RunLength, Ledger!LastAre

\* A threshold below the cap is reached by the counted run just when the last entries say so.
LEMMA RunReaches ==
  ASSUME NEW s \in Seq(Kinds), NEW n \in 0 .. CounterCap, NEW K,
         NEW m \in 1 .. CounterCap, RunLength(s, n, K)
  PROVE  n >= m <=> Ledger!LastAre(s, m, K)
<1> USE ScorerAssumption
<1>1. Len(s) \in Nat /\ n <= Len(s)
  BY DEF RunLength, Ledger!LastAre
<1>2. \A i \in (Len(s) - n + 1) .. Len(s) : s[i] \in K
  BY DEF RunLength, Ledger!LastAre
<1>3. CASE n >= m
  BY <1>1, <1>2, <1>3 DEF Ledger!LastAre
<1>4. CASE n < m /\ n < Len(s)
  <2>1. s[Len(s) - n] \notin K
    BY <1>4 DEF RunLength
  <2>2. Len(s) - n \in (Len(s) - m + 1) .. Len(s)
    BY <1>1, <1>4
  <2>. QED BY <1>4, <2>1, <2>2 DEF Ledger!LastAre
<1>5. CASE n < m /\ ~(n < Len(s))
  BY <1>1, <1>5 DEF Ledger!LastAre
<1>. QED BY <1>3, <1>4, <1>5

-----------------------------------------------------------------------------
HistoryOK == observed \in Seq(Kinds) /\ sighted \in Seq(Kinds)

\* What the kind of a frame says about how it counts.
LEMMA KindFacts ==
  ASSUME NEW f \in Frames
  PROVE  /\ Kind(f) \in Kinds
         /\ f.blind <=> Kind(f) = "blind"
         /\ ~f.blind => (Alerting(f) <=> Kind(f) \in Ledger!AlertKinds)
         /\ ~f.blind => (~Alerting(f) <=> Kind(f) = "quiet")
         /\ ~f.blind /\ Alerting(f) => (Explained(f) <=> Kind(f) = "alert")
<1>1. f.blind \in BOOLEAN
  BY FrameFacts
<1>2. CASE f.blind
  BY <1>2 DEF Kind, Kinds, Ledger!Kinds
<1>3. CASE ~f.blind /\ ~Alerting(f)
  <2>1. Kind(f) = "quiet"
    BY <1>3 DEF Kind
  <2>. QED BY <1>3, <2>1 DEF Kinds, Ledger!Kinds, Ledger!AlertKinds
<1>4. CASE ~f.blind /\ Alerting(f) /\ Explained(f)
  <2>1. Kind(f) = "alert"
    BY <1>4 DEF Kind
  <2>. QED BY <1>4, <2>1 DEF Kinds, Ledger!Kinds, Ledger!AlertKinds
<1>5. CASE ~f.blind /\ Alerting(f) /\ ~Explained(f)
  <2>1. Kind(f) = "unexplained"
    BY <1>5 DEF Kind
  <2>. QED BY <1>5, <2>1 DEF Kinds, Ledger!Kinds, Ledger!AlertKinds
<1>. QED BY <1>1, <1>2, <1>3, <1>4, <1>5

\* A frame moves both counters as it moves the runs they stand for.
LEMMA ObserveCounts ==
  ASSUME TypeOK, HistoryOK, CountersMatchHistory,
         NEW f \in Frames, HObserve(f)
  PROVE  HistoryOK' /\ CountersMatchHistory'
<1> USE DEF HistoryOK
<1>1. Kind(f) \in Kinds
  BY KindFacts
<1>2. /\ observed' = Append(observed, Kind(f))
      /\ sighted' = IF f.blind THEN sighted ELSE Append(sighted, Kind(f))
      /\ Observe(f)
  BY DEF HObserve
<1>3. HistoryOK'
  BY <1>1, <1>2
<1>4. /\ RunLength(observed, above, Ledger!AlertKinds)
      /\ RunLength(sighted, below, {"quiet"})
      /\ above \in 0 .. CounterCap /\ below \in 0 .. CounterCap
  BY DEF CountersMatchHistory, TypeOK
<1>5. CASE f.blind
  <2>1. above' = 0 /\ below' = below /\ sighted' = sighted
    BY <1>2, <1>5 DEF Observe, BlindFrame, WatchFrame, OpenIncident,
                      TrackIncident, CloseIncident, CountFrame
  <2>2. Kind(f) \notin Ledger!AlertKinds
    BY <1>5, KindFacts DEF Ledger!AlertKinds
  <2>3. RunLength(observed', above', Ledger!AlertKinds)
    BY <1>1, <1>2, <2>1, <2>2, RunBreaks
  <2>. QED BY <1>3, <1>4, <2>1, <2>3 DEF CountersMatchHistory
<1>6. CASE ~f.blind /\ Alerting(f)
  <2>1. above' = Count(above) /\ below' = 0
    BY <1>2, <1>6 DEF Observe, BlindFrame, WatchFrame, OpenIncident,
                      TrackIncident, CloseIncident, CountFrame, Above, Below
  <2>2. Kind(f) \in Ledger!AlertKinds /\ Kind(f) \notin {"quiet"}
    BY <1>6, KindFacts
  <2>3. RunLength(observed', above', Ledger!AlertKinds)
    BY <1>1, <1>2, <1>4, <2>1, <2>2, RunGrows
  <2>4. RunLength(sighted', below', {"quiet"})
    BY <1>1, <1>2, <1>6, <2>1, <2>2, RunBreaks
  <2>. QED BY <1>3, <2>3, <2>4 DEF CountersMatchHistory
<1>7. CASE ~f.blind /\ ~Alerting(f)
  <2>1. above' = 0 /\ below' = Count(below)
    BY <1>2, <1>7 DEF Observe, BlindFrame, WatchFrame, OpenIncident,
                      TrackIncident, CloseIncident, CountFrame, Above, Below
  <2>2. Kind(f) \notin Ledger!AlertKinds /\ Kind(f) \in {"quiet"}
    BY <1>7, KindFacts
  <2>3. RunLength(observed', above', Ledger!AlertKinds)
    BY <1>1, <1>2, <2>1, <2>2, RunBreaks
  <2>4. RunLength(sighted', below', {"quiet"})
    BY <1>1, <1>2, <1>4, <1>7, <2>1, <2>2, RunGrows
  <2>. QED BY <1>3, <2>3, <2>4 DEF CountersMatchHistory
<1>. QED BY <1>5, <1>6, <1>7

\* The inductive invariant of the refinement.
HInv == TypeOK /\ HistoryOK /\ CountersMatchHistory

\* The counters of the scorer agree with the recorded frames in every reachable state.
LEMMA HistoryInvariant == HSpec => []HInv
<1>1. HInit => HInv
  <2> SUFFICES ASSUME HInit PROVE HInv
    OBVIOUS
  <2>1. TypeOK
    BY InitType DEF HInit
  <2>2. HistoryOK
    BY DEF HInit, HistoryOK
  <2>3. above = 0 /\ below = 0 /\ observed = << >> /\ sighted = << >>
    BY DEF HInit, Init
  <2>4. CountersMatchHistory
    BY <2>3 DEF CountersMatchHistory, RunLength, Ledger!LastAre
  <2>. QED BY <2>1, <2>2, <2>4 DEF HInv
<1>2. HInv /\ [HNext]_historyVars => HInv'
  <2> SUFFICES ASSUME HInv, [HNext]_historyVars PROVE HInv'
    OBVIOUS
  <2>1. ASSUME NEW f \in Frames, HObserve(f) PROVE HInv'
    BY <2>1, ObserveType, ObserveCounts DEF HInv, HObserve
  <2>2. CASE UNCHANGED historyVars
    BY <2>2 DEF HInv, TypeOK, HistoryOK, CountersMatchHistory, historyVars
  <2>. QED BY <2>1, <2>2 DEF HNext
<1>. QED BY <1>1, <1>2, PTL DEF HSpec

\* The counters of the scorer are the lengths of the runs of frames they stand
\* for, blind frames breaking the one and skipped by the other.
THEOREM CountersCorrect == HSpec => []CountersMatchHistory
BY HistoryInvariant, PTL DEF HInv

-----------------------------------------------------------------------------
\* Scoring one frame is a step of Episodes: a blind one or a sighted one.
LEMMA ObserveRefines ==
  ASSUME HInv, HInv', NEW f \in Frames, HObserve(f)
  PROVE  Ledger!Next
<1> DEFINE open == incident # NoIncident
<1>1. /\ observed' = Append(observed, Kind(f))
      /\ sighted' = IF f.blind THEN sighted ELSE Append(sighted, Kind(f))
      /\ Observe(f)
  BY DEF HObserve
<1>2. CASE BlindFrame(f)
  <2>1. Kind(f) = "blind" /\ f.blind
    BY <1>2 DEF BlindFrame, Kind
  <2>2. Ledger!Blind
    BY <1>1, <1>2, <2>1 DEF Ledger!Blind, BlindFrame
  <2>. QED BY <2>2 DEF Ledger!Next
<1>3. CASE CountFrame(f)
  <2>1. ~f.blind /\ above' = Above(f) /\ below' = Below(f)
    BY <1>3 DEF CountFrame
  <2>2. Kind(f) \in Ledger!Kinds \ {"blind"}
    BY <2>1, KindFacts DEF Kinds
  <2>3. Above(f) >= OpenAfter <=> Ledger!LastAre(observed', OpenAfter, Ledger!AlertKinds)
    BY <2>1, RunReaches, ScorerAssumption
       DEF HInv, TypeOK, HistoryOK, CountersMatchHistory
  <2>4. Below(f) >= CloseAfter <=> Ledger!LastAre(sighted', CloseAfter, {"quiet"})
    BY <2>1, RunReaches, ScorerAssumption
       DEF HInv, TypeOK, HistoryOK, CountersMatchHistory
  <2>5. Opens(f) <=> Kind(f) = "alert"
                     /\ Ledger!LastAre(observed', OpenAfter, Ledger!AlertKinds)
    <3>1. Above(f) >= OpenAfter => Alerting(f)
      BY ScorerAssumption DEF Above
    <3>2. Kind(f) = "alert" <=> Alerting(f) /\ Explained(f)
      BY <2>1, KindFacts DEF Ledger!AlertKinds
    <3>. QED BY <2>3, <3>1, <3>2 DEF Opens
  <2>6. open' <=> IF open THEN ~Ledger!LastAre(sighted', CloseAfter, {"quiet"})
                          ELSE Kind(f) = "alert"
                               /\ Ledger!LastAre(observed', OpenAfter, Ledger!AlertKinds)
    <3>1. CASE WatchFrame(f)
      BY <2>5, <3>1 DEF WatchFrame
    <3>2. CASE OpenIncident(f)
      <4>1. Explained(f)
        BY <3>2 DEF OpenIncident, Opens
      <4>2. incident' # NoIncident
        BY <3>2, <4>1, NewIncidentFacts DEF OpenIncident
      <4>. QED BY <2>5, <3>2, <4>2 DEF OpenIncident
    <3>3. CASE TrackIncident(f)
      <4>1. incident' # NoIncident
        BY <3>3, EscalateFacts DEF TrackIncident, HInv, TypeOK
      <4>. QED BY <2>4, <3>3, <4>1 DEF TrackIncident, Closes
    <3>4. CASE CloseIncident(f)
      BY <2>4, <3>4 DEF CloseIncident, Closes
    <3>. QED BY <1>1, <2>1, <3>1, <3>2, <3>3, <3>4 DEF Observe, BlindFrame
  <2>7. Ledger!Sighted(Kind(f))
    BY <1>1, <2>1, <2>6, Zenon DEF Ledger!Sighted
  <2>. QED BY <2>2, <2>7 DEF Ledger!Next
<1>. QED BY <1>1, <1>2, <1>3
         DEF Observe, WatchFrame, OpenIncident, TrackIncident, CloseIncident

\* For all thresholds and caps, the two counters of the scorer open and close
\* incidents exactly as the history of frames says episodes start and end.
THEOREM EpisodesImplemented == HSpec => ImplementsEpisodes
<1>1. HInit => Ledger!Init
  BY DEF HInit, Init, Ledger!Init
<1>2. HInv /\ HInv' /\ [HNext]_historyVars => [Ledger!Next]_Ledger!episodeVars
  <2> SUFFICES ASSUME HInv, HInv', [HNext]_historyVars
               PROVE  [Ledger!Next]_Ledger!episodeVars
    OBVIOUS
  <2>1. CASE HNext
    BY <2>1, ObserveRefines DEF HNext
  <2>2. CASE UNCHANGED historyVars
    BY <2>2 DEF historyVars, Ledger!episodeVars
  <2>. QED BY <2>1, <2>2
<1>. QED BY <1>1, <1>2, HistoryInvariant, PTL DEF HSpec, ImplementsEpisodes, Ledger!Spec
=============================================================================
