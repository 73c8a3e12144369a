---------------------------- MODULE AgentProofs ----------------------------
(***************************************************************************)
(* The incidents table under the scoring tick, the user's label, wipes,    *)
(* failing statements and crashes, for any layers, thresholds and bounds:  *)
(* the row shows the live incident between ticks, the tick that closes an  *)
(* incident closes its own row, the user is told once, and every open row  *)
(* but one is owed to a fault.  The inductive invariant follows the tick   *)
(* from statement to statement, and a wipe that pulls the scorer from      *)
(* under it.                                                               *)
(***************************************************************************)
EXTENDS AgentIncidents, ScorerProofs, FiniteSetTheorems, WellFoundedInduction

\* A set of row ids has a greatest one.
LEMMA HasMax ==
  ASSUME NEW N \in Nat, NEW S \in SUBSET (1 .. N), S # {}
  PROVE  Max(S) \in S /\ \A y \in S : Max(S) >= y
<1>. DEFINE T == {N - x : x \in S}
<1>1. \A x \in S : x \in Nat /\ x <= N
  OBVIOUS
<1>2. T \subseteq Nat /\ T # {}
  <2>1. \A x \in S : N - x \in Nat
    BY <1>1
  <2>. QED BY <2>1
<1>3. \E m \in T : \A k \in T : ~(<<k, m>> \in OpToRel(<, Nat))
  <2>. HIDE DEF T
  <2>. QED BY <1>2, WFMin, NatLessThanWellFounded, Zenon
<1>4. \E m \in T : \A k \in T : ~(k < m)
  BY <1>2, <1>3, Zenon DEF OpToRel
<1>5. \E x \in S : \A y \in S : x >= y
  BY <1>1, <1>4
<1>. QED BY <1>5 DEF Max

\* A balance that is kept when no more comes in than may.
LEMMA Balance ==
  \A m, n, due, dueNext, f, g \in Nat :
    m <= n /\ n + due <= f /\ dueNext + f <= due + g => m + dueNext <= g
OBVIOUS

LEMMA BalanceOneMore ==
  \A m, n, due, dueNext, f, g \in Nat :
    m <= n + 1 /\ n + due <= f /\ dueNext + f + 1 <= due + g => m + dueNext <= g
OBVIOUS

LEMMA DueIsPaid ==
  \A due, dueNext, f, g \in Nat : dueNext + 1 = due /\ g = f => dueNext + f + 1 <= due + g
OBVIOUS

LEMMA FaultIsPaid ==
  \A due, dueNext, f, g \in Nat : dueNext <= due /\ g = f + 1 => dueNext + f + 1 <= due + g
OBVIOUS

LEMMA WipeIsPaid ==
  \A due, dueNext, f, g \in Nat : dueNext = due + 1 /\ g = f + 1 => dueNext + f <= due + g
OBVIOUS

LEMMA SameIsPaid ==
  \A due, dueNext, f, g \in Nat : dueNext <= due /\ g = f => dueNext + f <= due + g
OBVIOUS

LEMMA OneOverDue ==
  \A m, n, due, f \in Nat : m <= n + 1 /\ n + due <= f => m <= f + 1
OBVIOUS

USE ScorerAssumption, StoreAssumption

\* Nothing is known of an id that has not been given out, and there is no row
\* under one that the command line has wiped.
Remembered ==
  /\ \A i \in Ids : i >= nextId => rows[i] = NoRow /\ sent[i] = 0
  /\ cleared <= nextId /\ \A i \in Ids : i < cleared => rows[i] = NoRow
  /\ incident # NoIncident => incident.id < nextId
  /\ held # NoIncident => held.id < nextId

\* What a tick holds, step by step; detached, it holds an incident of its own.
TickOK ==
  /\ step = "idle" => held = NoIncident /\ ended = 0
  /\ ~up => step = "idle" /\ incident = NoIncident /\ ~wiping
  /\ ~(result.opened /\ result.closed)
  /\ detached => incident = NoIncident /\ held # NoIncident
  /\ held # NoIncident => detached \/ incident = held
  /\ step = "scored" =>
       IF result.opened THEN held # NoIncident /\ held.id = 0 /\ nextId <= MaxIncidents
                        ELSE held = NoIncident
  /\ step = "scored" /\ result.closed => incident = NoIncident
  /\ step \in {"closing", "close"} => incident = NoIncident /\ held = NoIncident
  /\ step \in {"notify", "mark"} => held # NoIncident /\ held.id \in Ids
  /\ ended # 0 => incident = NoIncident /\ result.closed
  /\ step = "close" => closing.id \in Ids /\ closing.row \in Row

\* The row that was inserted last is still open, or a wipe has taken them all.
IsLast(id) ==
  /\ id = nextId - 1
  /\ id \in OpenRows \/ \A i \in Ids : rows[i] = NoRow

Owned ==
  /\ incident # NoIncident => incident.id = 0 \/ IsLast(incident.id)
  /\ step \in {"notify", "mark"} => IsLast(held.id)
  /\ step \in {"scored", "closing"} => ended = 0 \/ IsLast(ended)
  /\ CloseHitsItsOwnRow

\* Whoever says that the user has been told of an incident is right.
Told(i) == i.notified => i.id \in Ids /\ sent[i.id] = 1

Honest ==
  /\ NotifiedOnce
  /\ incident # NoIncident => Told(incident)
  /\ held # NoIncident => Told(held)
  /\ step = "notify" => ~held.notified /\ sent[held.id] = 0
  /\ step = "close" /\ closing.row.notified => sent[closing.id] = 1

Shows(i) == Stored(i.id) /\ rows[i.id] = AsRow(i, rows[i.id].label)

\* The row shows the live incident, but for what this tick has yet to write; what
\* the command line has deleted stays so.
Mirrored ==
  incident # NoIncident /\ ~wiping /\ incident.id \notin Deleted /\ used["failure"] = 0 =>
    IF step = "scored" /\ result.opened THEN TRUE
    ELSE IF step \in {"scored", "mark"} THEN incident.id \in OpenRows
    ELSE Shows(incident)

Faults == used["crash"] + used["failure"] + used["wipe"]

\* The open rows that nobody will close, and those that a wipe is about to leave.
LookedAfter ==
  IF incident # NoIncident THEN {incident.id}
  ELSE IF step \in {"scored", "closing", "close"} THEN {ended} ELSE {}
Orphans == OpenRows \ LookedAfter
Due == (IF wiping THEN 1 ELSE 0) + (IF detached /\ step = "scored" THEN 1 ELSE 0)

Counted == Cardinality(Orphans) + Due <= Faults

IInv == StoreTypeOK /\ Remembered /\ TickOK /\ Owned /\ Honest /\ Mirrored /\ Counted

-----------------------------------------------------------------------------
\* Repository.active_incident finds the open row with the greatest id, if any.
LEMMA NewestIsOpen ==
  /\ NewestOpen \in 0 .. MaxIncidents
  /\ NewestOpen = 0 <=> OpenRows = {}
  /\ NewestOpen # 0 => NewestOpen \in OpenRows /\ \A i \in OpenRows : NewestOpen >= i
<1>1. OpenRows \in SUBSET (1 .. MaxIncidents)
  BY DEF OpenRows, Ids
<1>2. CASE OpenRows = {}
  <2>1. NewestOpen = 0
    BY <1>2 DEF NewestOpen
  <2>2. 0 \in 0 .. MaxIncidents
    OBVIOUS
  <2>. QED BY <1>2, <2>1, <2>2
<1>3. CASE OpenRows # {}
  <2>1. NewestOpen = Max(OpenRows)
    BY <1>3 DEF NewestOpen
  <2>2. NewestOpen \in OpenRows /\ \A i \in OpenRows : NewestOpen >= i
    BY <1>1, <1>3, <2>1, HasMax
  <2>. QED BY <1>1, <1>3, <2>2
<1>. QED BY <1>2, <1>3

\* Of the counting only this is needed: fewer rows count less, one more counts one more.
LEMMA CountsLess ==
  ASSUME NEW S, IsFiniteSet(S), NEW T, T \subseteq S
  PROVE  IsFiniteSet(T) /\ Cardinality(T) <= Cardinality(S) /\ Cardinality(S) \in Nat /\ Cardinality(T) \in Nat
<1>1. T \in SUBSET S
  OBVIOUS
<1>. QED BY <1>1, FS_Subset, FS_CardinalityType

LEMMA CountsOneMore ==
  ASSUME NEW S, IsFiniteSet(S), NEW T, NEW x, T \subseteq S \cup {x}
  PROVE  Cardinality(T) <= Cardinality(S) + 1 /\ Cardinality(S) \in Nat /\ Cardinality(T) \in Nat
<1>1. IsFiniteSet(S \cup {x}) /\ Cardinality(S \cup {x}) <= Cardinality(S) + 1 /\ Cardinality(S) \in Nat
  <2>1. Cardinality(S) \in Nat
    BY FS_CardinalityType
  <2>2. IsFiniteSet(S \cup {x}) /\ (Cardinality(S \cup {x}) = Cardinality(S) \/ Cardinality(S \cup {x}) = Cardinality(S) + 1)
    BY FS_AddElement, Zenon
  <2>. QED BY <2>1, <2>2
<1>2. Cardinality(T) <= Cardinality(S \cup {x}) /\ Cardinality(T) \in Nat /\ Cardinality(S \cup {x}) \in Nat
  BY <1>1, CountsLess
<1>. QED BY <1>1, <1>2

LEMMA OpenIsFinite == IsFiniteSet(OpenRows) /\ IsFiniteSet(Orphans)
<1>1. IsFiniteSet(Ids)
  BY FS_Interval DEF Ids
<1>2. OpenRows \subseteq Ids /\ Orphans \subseteq Ids
  BY DEF OpenRows, Orphans
<1>. QED BY <1>1, <1>2, CountsLess

\* What scoring a frame does to the incident, and what the agent is told of it.
LEMMA ObserveEffect ==
  ASSUME TypeOK, NEW f \in Frames, Observe(f)
  PROVE  /\ TypeOK'
         /\ \/ result' = Unchanged /\ incident' = incident
            \/ /\ incident = NoIncident /\ incident' \in Incident
               /\ incident'.id = 0 /\ ~incident'.notified
               /\ result'.opened /\ ~result'.closed
            \/ /\ incident # NoIncident /\ incident' \in Incident /\ result' = Unchanged
               /\ incident'.id = incident.id /\ incident'.notified = incident.notified
            \/ /\ incident # NoIncident /\ incident' = NoIncident
               /\ ~result'.opened /\ result'.closed
<1>1. TypeOK'
  BY ObserveType
<1>2. CASE BlindFrame(f) \/ WatchFrame(f)
  BY <1>1, <1>2 DEF BlindFrame, WatchFrame
<1>3. CASE OpenIncident(f)
  <2>1. incident = NoIncident /\ incident' = NewIncident(f) /\ Explained(f)
        /\ result'.opened /\ ~result'.closed
    BY <1>3 DEF OpenIncident, Opens, Unchanged
  <2>2. incident'.id = 0 /\ ~incident'.notified
    BY <2>1 DEF NewIncident
  <2>. QED BY <1>1, <2>1, <2>2, NewIncidentFacts
<1>4. CASE TrackIncident(f)
  <2>1. incident \in Incident /\ incident # NoIncident /\ incident' = Escalate(incident, f) /\ result' = Unchanged
    BY <1>4 DEF TrackIncident, TypeOK
  <2>2. incident'.id = incident.id /\ incident'.notified = incident.notified
    BY <2>1 DEF Escalate, Incident
  <2>. QED BY <1>1, <2>1, <2>2, EscalateFacts
<1>5. CASE CloseIncident(f)
  BY <1>1, <1>5 DEF CloseIncident, Unchanged
<1>. QED BY <1>2, <1>3, <1>4, <1>5 DEF Observe

\* A row made from an incident.
LEMMA RowFacts ==
  ASSUME NEW i \in Incident, NEW label \in Verdicts \cup {NoLabel}
  PROVE  /\ AsRow(i, label) \in Row /\ AsRow(i, label) # NoRow
         /\ AsRow(i, label).open /\ AsRow(i, label).notified = i.notified
         /\ AsRow(i, label).label = label
<1>1. AsRow(i, label) \in Row
  BY DEF AsRow, Row, Incident
<1>. QED BY <1>1 DEF AsRow

-----------------------------------------------------------------------------
LEMMA InitInvariant == StoreInit => IInv
<1> SUFFICES ASSUME StoreInit PROVE IInv
  OBVIOUS
<1>1. TypeOK
  BY InitType DEF StoreInit
<1>2. /\ above = 0 /\ below = 0 /\ incident = NoIncident /\ result = Unchanged
      /\ up = TRUE /\ step = "idle" /\ held = NoIncident /\ detached = FALSE /\ ended = 0
      /\ closing = NoClosing /\ rows = [i \in Ids |-> NoRow] /\ nextId = 1 /\ cleared = 1
      /\ labeller = NoLabeller /\ wiping = FALSE /\ sent = [i \in Ids |-> 0]
      /\ used = [k \in {"crash", "failure", "wipe", "label"} |-> 0] /\ calm = FALSE
  BY DEF StoreInit, Init
<1>3. StoreTypeOK
  <2>1. /\ up \in BOOLEAN /\ detached \in BOOLEAN /\ wiping \in BOOLEAN /\ calm \in BOOLEAN
        /\ step \in Steps /\ held \in Incident \cup {NoIncident}
    BY <1>2 DEF Steps
  <2>2. /\ ended \in 0 .. MaxIncidents /\ nextId \in 1 .. MaxIncidents + 1 /\ cleared \in 1 .. MaxIncidents + 1
    BY <1>2
  <2>3. /\ closing \in [id : 0 .. MaxIncidents, row : Row \cup {NoRow}]
        /\ labeller \in [at : {"none", "read"}, target : 0 .. MaxIncidents]
    BY <1>2 DEF NoClosing, NoLabeller
  <2>4. /\ rows \in [Ids -> Row \cup {NoRow}] /\ sent \in [Ids -> Nat]
        /\ used \in [{"crash", "failure", "wipe", "label"} -> Nat]
    BY <1>2
  <2>. QED BY <1>1, <2>1, <2>2, <2>3, <2>4 DEF StoreTypeOK
<1>4. OpenRows = {} /\ Orphans = {} /\ Due = 0 /\ Faults = 0
  BY <1>2 DEF OpenRows, Orphans, Due, Faults
<1>5. Counted
  BY <1>4, FS_EmptySet DEF Counted
<1>6. Remembered /\ TickOK /\ Owned /\ Honest /\ Mirrored
  BY <1>2 DEF Remembered, TickOK, Owned, CloseHitsItsOwnRow, Honest, NotifiedOnce, Stored,
              Mirrored, Unchanged, Ids
<1>. QED BY <1>3, <1>5, <1>6 DEF IInv

\* Counting: fewer orphans, and no fault more ...
LEMMA FewerOrphans ==
  ASSUME IInv, Orphans' \subseteq Orphans, Due \in Nat, Due' \in Nat, Faults \in Nat, Faults' \in Nat,
         Due' + Faults <= Due + Faults'
  PROVE  Counted'
<1>1. /\ Cardinality(Orphans') <= Cardinality(Orphans)
      /\ Cardinality(Orphans) \in Nat /\ Cardinality(Orphans') \in Nat
  BY OpenIsFinite, CountsLess
<1>2. Cardinality(Orphans) + Due <= Faults
  BY DEF IInv, Counted
<1>3. Cardinality(Orphans') + Due' <= Faults'
  BY <1>1, <1>2, Balance
<1>. QED BY <1>3 DEF Counted

\* ... or one orphan more, and either a fault more or one that was due.
LEMMA OneMoreOrphan ==
  ASSUME IInv, NEW id, Orphans' \subseteq Orphans \cup {id},
         Due \in Nat, Due' \in Nat, Faults \in Nat, Faults' \in Nat,
         Due' + Faults + 1 <= Due + Faults'
  PROVE  Counted'
<1>1. /\ Cardinality(Orphans') <= Cardinality(Orphans) + 1
      /\ Cardinality(Orphans) \in Nat /\ Cardinality(Orphans') \in Nat
  BY OpenIsFinite, CountsOneMore
<1>2. Cardinality(Orphans) + Due <= Faults
  BY DEF IInv, Counted
<1>3. Cardinality(Orphans') + Due' <= Faults'
  BY <1>1, <1>2, BalanceOneMore
<1>. QED BY <1>3 DEF Counted

LEMMA CountTypes ==
  ASSUME StoreTypeOK
  PROVE  Faults \in Nat /\ Due \in Nat
BY DEF StoreTypeOK, Faults, Due

\* A step that leaves the tick and the table alone.
LEMMA Bystander ==
  ASSUME IInv, UNCHANGED <<scorerVars, storeVars, tickVars, wiping, sent>>,
         up' \in BOOLEAN, calm' \in BOOLEAN, up' = up \/ up',
         labeller' \in [at : {"none", "read"}, target : 0 .. MaxIncidents],
         used' \in [{"crash", "failure", "wipe", "label"} -> Nat],
         used'["crash"] = used["crash"], used'["failure"] = used["failure"], used'["wipe"] = used["wipe"]
  PROVE  IInv'
<1>1. UNCHANGED <<above, below, incident, result, rows, nextId, cleared, step, held, detached, ended, closing, wiping, sent>>
  BY DEF scorerVars, storeVars, tickVars
<1>2. StoreTypeOK'
  BY <1>1 DEF IInv, StoreTypeOK, TypeOK
<1>3. Remembered'
  BY <1>1 DEF IInv, Remembered
<1>4. TickOK'
  BY <1>1 DEF IInv, TickOK
<1>5. Owned'
  BY <1>1 DEF IInv, Owned, CloseHitsItsOwnRow, IsLast, OpenRows
<1>6. Honest'
  BY <1>1 DEF IInv, Honest, NotifiedOnce, Told, Stored
<1>7. Mirrored'
  BY <1>1 DEF IInv, Mirrored, Shows, Stored, OpenRows, Deleted
<1>8. Counted'
  <2>1. Orphans' = Orphans /\ Due' = Due /\ Faults' = Faults
    BY <1>1 DEF Orphans, OpenRows, LookedAfter, Due, Faults
  <2>. QED BY <2>1 DEF IInv, Counted
<1>. QED BY <1>2, <1>3, <1>4, <1>5, <1>6, <1>7, <1>8 DEF IInv

LEMMA OtherSteps ==
  ASSUME IInv, Restart \/ CalmDown \/ LabelRead \/ UNCHANGED vars
  PROVE  IInv'
<1>0. StoreTypeOK
  BY DEF IInv
<1>1. CASE Restart
  BY <1>0, <1>1, Bystander DEF Restart, StoreTypeOK
<1>2. CASE CalmDown
  BY <1>0, <1>2, Bystander DEF CalmDown, StoreTypeOK
<1>3. CASE LabelRead
  BY <1>0, <1>3, Bystander, NewestIsOpen DEF LabelRead, Spend, StoreTypeOK
<1>4. CASE UNCHANGED vars
  <2>1. UNCHANGED <<scorerVars, storeVars, tickVars, wiping, sent, up, calm, labeller, used>>
    BY <1>4 DEF vars, envVars
  <2>. QED BY <1>0, <2>1, Bystander DEF StoreTypeOK
<1>. QED BY <1>1, <1>2, <1>3, <1>4

\* A label changes the column of one row, and nothing that is asked of it.
LEMMA LabelStep ==
  ASSUME IInv, NEW verdict \in Verdicts, LabelWrite(verdict)
  PROVE  IInv'
<1>0. StoreTypeOK
  BY DEF IInv
<1>1. /\ UNCHANGED <<above, below, incident, result, nextId, cleared, step, held, detached, ended, closing,
                     wiping, sent, up, calm, used>>
      /\ labeller' = NoLabeller
      /\ rows' = IF Stored(labeller.target) THEN [rows EXCEPT ![labeller.target].label = verdict] ELSE rows
  BY DEF LabelWrite, scorerVars, tickVars
<1>2. /\ rows' \in [Ids -> Row \cup {NoRow}]
      /\ \A i \in Ids : /\ rows'[i] = NoRow <=> rows[i] = NoRow
                        /\ rows[i] # NoRow => /\ rows'[i].open = rows[i].open
                                              /\ rows'[i].notified = rows[i].notified
                                              /\ rows'[i] = [rows[i] EXCEPT !.label = rows'[i].label]
  <2>1. rows \in [Ids -> Row \cup {NoRow}]
    BY <1>0 DEF StoreTypeOK
  <2>2. CASE ~Stored(labeller.target)
    <3>1. rows' = rows
      BY <1>1, <2>2
    <3>2. \A i \in Ids : rows[i] # NoRow => rows[i] = [rows[i] EXCEPT !.label = rows[i].label]
      BY <2>1 DEF Row
    <3>. QED BY <2>1, <3>1, <3>2
  <2>3. CASE Stored(labeller.target)
    <3>. DEFINE t == labeller.target
    <3>1. t \in Ids /\ rows[t] \in Row /\ rows' = [rows EXCEPT ![t] = [rows[t] EXCEPT !.label = verdict]]
      BY <1>1, <2>1, <2>3 DEF Stored
    <3>2. [rows[t] EXCEPT !.label = verdict] \in Row
      BY <3>1 DEF Row
    <3>3. /\ [rows[t] EXCEPT !.label = verdict] # NoRow
          /\ [rows[t] EXCEPT !.label = verdict].label = verdict
          /\ [rows[t] EXCEPT !.label = verdict].open = rows[t].open
          /\ [rows[t] EXCEPT !.label = verdict].notified = rows[t].notified
      BY <3>1, <3>2 DEF Row
    <3>4. \A i \in Ids : i # t /\ rows[i] # NoRow => rows[i] = [rows[i] EXCEPT !.label = rows[i].label]
      BY <2>1 DEF Row
    <3>. HIDE DEF t
    <3>. QED BY <2>1, <3>1, <3>2, <3>3, <3>4
  <2>. QED BY <2>2, <2>3
<1>3. OpenRows' = OpenRows /\ \A i : Stored(i)' <=> Stored(i)
  BY <1>2 DEF OpenRows, Stored
<1>4. StoreTypeOK'
  BY <1>0, <1>1, <1>2 DEF StoreTypeOK, TypeOK, NoLabeller
<1>5. Remembered'
  BY <1>1, <1>2 DEF IInv, Remembered
<1>6. TickOK'
  BY <1>1 DEF IInv, TickOK
<1>7. Owned'
  BY <1>1, <1>2, <1>3 DEF IInv, Owned, CloseHitsItsOwnRow, IsLast
<1>8. Honest'
  BY <1>1, <1>2, <1>3 DEF IInv, Honest, NotifiedOnce, Told, Stored
<1>9. Mirrored'
  <2>1. ASSUME NEW i \in Incident, Shows(i) PROVE Shows(i)'
    <3>1. Stored(i.id) /\ rows[i.id] = AsRow(i, rows[i.id].label) /\ i.id \in Ids
      BY <2>1 DEF Shows, Stored
    <3>2. rows'[i.id] = [AsRow(i, rows[i.id].label) EXCEPT !.label = rows'[i.id].label]
      BY <1>2, <3>1 DEF Stored
    <3>3. rows'[i.id] = AsRow(i, rows'[i.id].label)
      BY <3>2 DEF AsRow
    <3>. QED BY <1>3, <3>1, <3>3 DEF Shows
  <2>2. incident # NoIncident => incident \in Incident
    BY <1>0 DEF StoreTypeOK, TypeOK
  <2>3. incident # NoIncident /\ Shows(incident) => Shows(incident)'
    BY <1>1, <2>1, <2>2
  <2>. QED BY <1>1, <1>3, <2>3 DEF IInv, Mirrored, Deleted
<1>10. Counted'
  <2>1. Orphans' = Orphans /\ Due' = Due /\ Faults' = Faults
    BY <1>1, <1>3 DEF Orphans, LookedAfter, Due, Faults
  <2>. QED BY <2>1 DEF IInv, Counted
<1>. QED BY <1>4, <1>5, <1>6, <1>7, <1>8, <1>9, <1>10 DEF IInv

-----------------------------------------------------------------------------
\* Repository.update_incident.
LEMMA UpdateEffect ==
  ASSUME rows \in [Ids -> Row \cup {NoRow}], NEW id, NEW row \in Row, Update(id, row)
  PROVE  /\ rows' \in [Ids -> Row \cup {NoRow}]
         /\ \A i \in Ids : rows'[i] = IF i = id /\ rows[i] # NoRow THEN row ELSE rows[i]
         /\ \A i \in Ids : rows'[i] = NoRow <=> rows[i] = NoRow
         /\ Stored(id) /\ row.open => OpenRows' = OpenRows \cup {id}
         /\ Stored(id) /\ ~row.open => OpenRows' = OpenRows \ {id}
         /\ ~Stored(id) => OpenRows' = OpenRows
<1>1. row # NoRow
  OBVIOUS
<1>2. CASE Stored(id)
  <2>1. id \in Ids /\ rows[id] # NoRow /\ rows' = [rows EXCEPT ![id] = row]
    BY <1>2 DEF Update, Stored
  <2>2. rows' \in [Ids -> Row \cup {NoRow}] /\ rows'[id] = row /\ \A i \in Ids \ {id} : rows'[i] = rows[i]
    BY <2>1
  <2>3. row.open => OpenRows' = OpenRows \cup {id}
    BY <1>1, <2>1, <2>2 DEF OpenRows
  <2>4. ~row.open => OpenRows' = OpenRows \ {id}
    BY <1>1, <2>1, <2>2 DEF OpenRows
  <2>. QED BY <1>1, <1>2, <2>1, <2>2, <2>3, <2>4
<1>3. CASE ~Stored(id)
  <2>1. rows' = rows /\ \A i \in Ids : ~(i = id /\ rows[i] # NoRow)
    BY <1>3 DEF Update, Stored
  <2>. QED BY <1>3, <2>1 DEF OpenRows
<1>. QED BY <1>2, <1>3

\* The frame is scored: an incident may be opened, escalated or closed.
LEMMA ScoreStep ==
  ASSUME IInv, NEW f \in Frames, TickScore(f)
  PROVE  IInv'
<1>0. StoreTypeOK /\ TypeOK /\ TickOK /\ rows \in [Ids -> Row \cup {NoRow}] /\ nextId \in 1 .. MaxIncidents + 1
  BY DEF IInv, StoreTypeOK
<1>1. /\ up /\ step = "idle" /\ held = NoIncident /\ ~detached /\ ended = 0
      /\ Observe(f) /\ step' = "scored"
      /\ (result'.opened => nextId <= MaxIncidents)
      /\ held' = IF result'.opened THEN incident' ELSE NoIncident
      /\ ended' = IF result'.closed THEN incident.id ELSE 0
      /\ UNCHANGED <<detached, closing, rows, nextId, cleared, up, labeller, wiping, used, calm, sent>>
  BY <1>0 DEF TickScore, TickOK, storeVars, envVars
<1>2. incident # NoIncident =>
        incident \in Incident /\ incident.id \in Nat /\ incident.id < nextId /\ Told(incident)
        /\ (incident.id = 0 \/ IsLast(incident.id))
  BY <1>0 DEF TypeOK, Incident, IInv, Remembered, Honest, Owned
<1>3. TypeOK' /\ result'.opened \in BOOLEAN /\ result'.closed \in BOOLEAN
  BY <1>0, <1>1, ObserveEffect DEF TypeOK, ScoreResult
<1>4. \/ ~result'.opened /\ ~result'.closed /\ incident' = incident
      \/ /\ incident = NoIncident /\ incident' \in Incident
         /\ incident'.id = 0 /\ ~incident'.notified
         /\ result'.opened /\ ~result'.closed
      \/ /\ incident # NoIncident /\ incident' \in Incident /\ ~result'.opened /\ ~result'.closed
         /\ incident'.id = incident.id /\ incident'.notified = incident.notified
      \/ /\ incident # NoIncident /\ incident' = NoIncident
         /\ ~result'.opened /\ result'.closed
  BY <1>0, <1>1, ObserveEffect DEF Unchanged
<1>5. NoIncident \notin Incident /\ nextId > 0 /\ nextId \in Nat
  BY <1>0
<1>6. incident # NoIncident /\ incident.id > 0 => incident.id \in 0 .. MaxIncidents
  BY <1>0, <1>2
<1>7. StoreTypeOK'
  <2>1. held' \in Incident \cup {NoIncident}
    BY <1>1, <1>3 DEF TypeOK
  <2>2. ended' \in 0 .. MaxIncidents
    BY <1>1, <1>2, <1>4, <1>6
  <2>. QED BY <1>0, <1>1, <1>3, <2>1, <2>2 DEF StoreTypeOK, Steps
<1>8. Remembered'
  <2>1. incident' # NoIncident => incident'.id < nextId
    BY <1>2, <1>4, <1>5
  <2>. QED BY <1>1, <2>1 DEF IInv, Remembered
<1>9. TickOK'
  <2>1. result'.opened => held' # NoIncident /\ held'.id = 0 /\ incident' = held' /\ ~result'.closed
    BY <1>1, <1>4, <1>5
  <2>2. result'.closed => incident' = NoIncident
    BY <1>4
  <2>3. ended' # 0 => result'.closed
    BY <1>1
  <2>. QED BY <1>0, <1>1, <2>1, <2>2, <2>3 DEF TickOK
<1>10. Owned'
  <2>1. \A id : IsLast(id)' <=> IsLast(id)
    BY <1>1 DEF IsLast, OpenRows
  <2>2. incident' # NoIncident => incident'.id = 0 \/ IsLast(incident'.id)
    BY <1>2, <1>4
  <2>3. ended' = 0 \/ IsLast(ended')
    BY <1>1, <1>2, <1>4
  <2>. QED BY <1>1, <2>1, <2>2, <2>3 DEF Owned, CloseHitsItsOwnRow
<1>11. Honest'
  <2>1. \A i : Told(i)' <=> Told(i)
    BY <1>1 DEF Told
  <2>2. incident' # NoIncident => Told(incident')
    BY <1>2, <1>4 DEF Told
  <2>3. held' # NoIncident => Told(held')
    BY <1>1, <2>2
  <2>4. NotifiedOnce'
    BY <1>1 DEF IInv, Honest, NotifiedOnce, Stored
  <2>. QED BY <1>1, <2>1, <2>2, <2>3, <2>4 DEF Honest
<1>12. Mirrored'
  <2>1. ASSUME incident' # NoIncident, ~wiping, incident'.id \notin Deleted, used["failure"] = 0, ~result'.opened
        PROVE  incident'.id \in OpenRows
    <3>1. incident # NoIncident /\ incident'.id = incident.id
      BY <1>4, <2>1
    <3>2. Shows(incident)
      BY <1>1, <2>1, <3>1 DEF IInv, Mirrored, Deleted
    <3>3. rows[incident.id].open
      BY <3>2 DEF Shows, AsRow
    <3>. QED BY <3>1, <3>2, <3>3 DEF Shows, Stored, OpenRows
  <2>2. OpenRows' = OpenRows
    BY <1>1 DEF OpenRows
  <2>. QED BY <1>1, <2>1, <2>2 DEF Mirrored, Deleted
<1>13. Counted'
  <2>1. Due' = Due /\ Faults' = Faults
    BY <1>1 DEF Due, Faults
  <2>2. OpenRows' = OpenRows /\ OpenRows \subseteq Ids /\ 0 \notin Ids
    BY <1>1 DEF OpenRows, Ids
  <2>3. Orphans' \subseteq Orphans
    BY <1>1, <1>4, <2>2 DEF Orphans, LookedAfter
  <2>. QED BY <1>0, <1>7, <2>1, <2>3, FewerOrphans, CountTypes
<1>. QED BY <1>7, <1>8, <1>9, <1>10, <1>11, <1>12, <1>13 DEF IInv

\* The new incident is inserted, by a wipe or not still the scorer's.
LEMMA InsertStep ==
  ASSUME IInv, InsertIncident
  PROVE  IInv'
<1>0. StoreTypeOK /\ TypeOK /\ TickOK /\ rows \in [Ids -> Row \cup {NoRow}] /\ nextId \in 1 .. MaxIncidents + 1
  BY DEF IInv, StoreTypeOK
<1>1. /\ step = "scored" /\ result.opened /\ step' = "notify"
      /\ rows' = [rows EXCEPT ![nextId] = AsRow(held, NoLabel)]
      /\ held' = [held EXCEPT !.id = nextId]
      /\ incident' = IF detached THEN incident ELSE held'
      /\ nextId' = nextId + 1
      /\ UNCHANGED <<above, below, result, detached, ended, closing, cleared,
                     up, labeller, wiping, used, calm, sent>>
  BY DEF InsertIncident, envVars
<1>2. held # NoIncident /\ held.id = 0 /\ nextId <= MaxIncidents /\ (detached \/ incident = held)
      /\ (detached => incident = NoIncident) /\ ~result.closed /\ ended = 0
  BY <1>0, <1>1 DEF TickOK
<1>3. held \in Incident /\ nextId \in Ids /\ nextId \in Nat /\ 0 \notin Ids
  BY <1>0, <1>2 DEF StoreTypeOK, Ids
<1>4. /\ held' \in Incident /\ held' # NoIncident /\ held'.id = nextId /\ held'.notified = held.notified
      /\ AsRow(held', NoLabel) = AsRow(held, NoLabel)
  BY <1>1, <1>3 DEF Incident, AsRow
<1>5. ~held.notified
  BY <1>2, <1>3 DEF IInv, Honest, Told
<1>6. /\ AsRow(held, NoLabel) \in Row /\ AsRow(held, NoLabel) # NoRow /\ AsRow(held, NoLabel).open
      /\ ~AsRow(held, NoLabel).notified /\ AsRow(held, NoLabel).label = NoLabel
  BY <1>3, <1>5, RowFacts
<1>7. /\ rows' \in [Ids -> Row \cup {NoRow}] /\ rows'[nextId] = AsRow(held, NoLabel)
      /\ \A i \in Ids : i # nextId => rows'[i] = rows[i]
  BY <1>0, <1>1, <1>3, <1>6
<1>8. OpenRows' = OpenRows \cup {nextId}
  BY <1>3, <1>6, <1>7 DEF OpenRows
<1>9. nextId' - 1 = nextId /\ nextId' \in 1 .. MaxIncidents + 1
  BY <1>0, <1>1, <1>2
<1>10. rows[nextId] = NoRow /\ sent[nextId] = 0
  BY <1>3 DEF IInv, Remembered
<1>11. StoreTypeOK'
  <2>1. incident' \in Incident \cup {NoIncident}
    BY <1>1, <1>2, <1>4
  <2>. QED BY <1>0, <1>1, <1>4, <1>7, <1>9, <2>1 DEF StoreTypeOK, TypeOK, Steps
<1>12. Remembered'
  <2>1. \A i \in Ids : i >= nextId + 1 => i >= nextId /\ i # nextId
    BY <1>3 DEF Ids
  <2>2. cleared' <= nextId' /\ \A i \in Ids : i < cleared => i # nextId /\ rows[i] = NoRow
    <3>1. cleared <= nextId /\ cleared \in Nat /\ \A i \in Ids : i < cleared => rows[i] = NoRow
      BY <1>0 DEF IInv, Remembered, StoreTypeOK
    <3>2. \A i \in Ids : i < cleared => i # nextId
      BY <1>3, <3>1 DEF Ids
    <3>. QED BY <1>1, <1>3, <3>1, <3>2
  <2>3. /\ \A i \in Ids : i >= nextId' => rows'[i] = NoRow /\ sent'[i] = 0
        /\ \A i \in Ids : i < cleared' => rows'[i] = NoRow
    BY <1>1, <1>7, <2>1, <2>2 DEF IInv, Remembered
  <2>4. (incident' # NoIncident => incident'.id < nextId') /\ (held' # NoIncident => held'.id < nextId')
    BY <1>1, <1>2, <1>3, <1>4
  <2>. QED BY <2>2, <2>3, <2>4 DEF Remembered
<1>13. TickOK'
  BY <1>0, <1>1, <1>2, <1>3, <1>4 DEF TickOK
<1>14. Owned'
  <2>1. held'.id = nextId' - 1 /\ held'.id \in OpenRows'
    BY <1>4, <1>8, <1>9
  <2>2. IsLast(held.id)' /\ (incident' # NoIncident => IsLast(incident.id)')
    BY <1>1, <1>2, <2>1 DEF IsLast
  <2>. QED BY <1>1, <1>2, <2>2 DEF Owned, CloseHitsItsOwnRow
<1>15. Honest'
  <2>1. NotifiedOnce'
    BY <1>1, <1>3, <1>6, <1>7 DEF IInv, Honest, NotifiedOnce, Stored
  <2>2. ~held'.notified /\ sent'[held'.id] = 0
    BY <1>1, <1>4, <1>5, <1>10
  <2>3. Told(held)' /\ (incident' # NoIncident => Told(incident)')
    BY <1>1, <1>2, <2>2 DEF Told
  <2>. QED BY <1>1, <2>1, <2>2, <2>3 DEF Honest
<1>16. Mirrored'
  <2>1. incident' # NoIncident => incident' = held'
    BY <1>1, <1>2
  <2>2. Shows(held)'
    BY <1>3, <1>4, <1>6, <1>7 DEF Shows, Stored
  <2>. QED BY <1>1, <2>1, <2>2 DEF Mirrored, Shows, Deleted
<1>17. Counted'
  <2>1. Faults' = Faults /\ Due \in Nat /\ Due' \in Nat /\ Faults \in Nat
    <3>1. Faults' = Faults /\ Faults \in Nat /\ Due \in Nat
      BY <1>0, <1>1, CountTypes DEF Faults
    <3>2. Due' \in Nat
      BY DEF Due
    <3>. QED BY <3>1, <3>2
  <2>2. CASE detached
    <3>1. Due' + 1 = Due
      BY <1>1, <2>1, <2>2 DEF Due
    <3>2. Orphans' \subseteq Orphans \cup {nextId}
      BY <1>1, <1>2, <1>3, <1>8, <2>2 DEF Orphans, LookedAfter, OpenRows
    <3>3. Due' + Faults + 1 <= Due + Faults'
      BY <2>1, <3>1, DueIsPaid
    <3>. QED BY <2>1, <3>2, <3>3, OneMoreOrphan
  <2>3. CASE ~detached
    <3>1. Due' = Due
      BY <1>1, <2>3 DEF Due
    <3>2. incident # NoIncident /\ incident.id = 0 /\ incident' # NoIncident /\ incident'.id = nextId
      BY <1>1, <1>2, <1>4, <2>3
    <3>3. Orphans' \subseteq Orphans
      BY <1>3, <1>8, <3>2 DEF Orphans, LookedAfter, OpenRows
    <3>. QED BY <2>1, <3>1, <3>3, FewerOrphans
  <2>. QED BY <2>2, <2>3
<1>. QED BY <1>11, <1>12, <1>13, <1>14, <1>15, <1>16, <1>17 DEF IInv

\* The live incident is written to the row it already has.
LEMMA UpdateStep ==
  ASSUME IInv, UpdateLive
  PROVE  IInv'
<1>0. StoreTypeOK /\ TypeOK /\ TickOK /\ rows \in [Ids -> Row \cup {NoRow}] /\ nextId \in 1 .. MaxIncidents + 1
  BY DEF IInv, StoreTypeOK
<1>. DEFINE row == AsRow(incident, NoLabel)
<1>1. /\ step = "scored" /\ ~result.opened /\ incident # NoIncident /\ incident.id # 0
      /\ Update(incident.id, row) /\ step' = AfterUpdate
      /\ UNCHANGED <<above, below, incident, result, held, detached, ended, closing, nextId, cleared,
                     up, labeller, wiping, used, calm, sent>>
  BY DEF UpdateLive, scorerVars, envVars
<1>2. held = NoIncident /\ ended = 0 /\ ~result.closed /\ ~detached /\ step' = "maintain"
  BY <1>0, <1>1 DEF TickOK, AfterUpdate
<1>3. incident \in Incident /\ row \in Row /\ row.open /\ row.notified = incident.notified /\ row.label = NoLabel
  BY <1>0, <1>1, RowFacts DEF TypeOK
<1>. HIDE DEF row
<1>4. /\ rows' \in [Ids -> Row \cup {NoRow}]
      /\ \A i \in Ids : rows'[i] = IF i = incident.id /\ rows[i] # NoRow THEN row ELSE rows[i]
      /\ \A i \in Ids : rows'[i] = NoRow <=> rows[i] = NoRow
      /\ Stored(incident.id) => OpenRows' = OpenRows \cup {incident.id}
      /\ ~Stored(incident.id) => OpenRows' = OpenRows
  BY <1>0, <1>1, <1>3, UpdateEffect
<1>5. Told(incident) /\ IsLast(incident.id)
  BY <1>1 DEF IInv, Honest, Owned
<1>6. StoreTypeOK'
  BY <1>0, <1>1, <1>2, <1>4 DEF StoreTypeOK, TypeOK, Steps
<1>7. Remembered'
  BY <1>1, <1>4 DEF IInv, Remembered
<1>8. TickOK'
  BY <1>0, <1>1, <1>2 DEF TickOK
<1>9. Owned'
  <2>1. IsLast(incident.id)'
    BY <1>1, <1>4, <1>5 DEF IsLast
  <2>. QED BY <1>1, <1>2, <2>1 DEF Owned, CloseHitsItsOwnRow
<1>10. Honest'
  <2>1. NotifiedOnce'
    BY <1>1, <1>3, <1>4, <1>5 DEF IInv, Honest, NotifiedOnce, Stored, Told
  <2>. QED BY <1>1, <1>2, <2>1 DEF IInv, Honest, Told
<1>11. Mirrored'
  <2>1. ASSUME ~wiping, incident.id \notin Deleted, used["failure"] = 0 PROVE Shows(incident)'
    <3>1. incident.id \in OpenRows
      BY <1>1, <2>1 DEF IInv, Mirrored, Deleted
    <3>2. incident.id \in Ids /\ rows[incident.id] # NoRow /\ rows'[incident.id] = row /\ row # NoRow
      BY <1>3, <1>4, <3>1 DEF OpenRows
    <3>3. row = AsRow(incident, row.label)
      BY <1>3 DEF row
    <3>. QED BY <1>1, <3>2, <3>3 DEF Shows, Stored, AsRow
  <2>. QED BY <1>1, <1>2, <2>1 DEF Mirrored, Deleted
<1>12. Counted'
  <2>1. Due' = Due /\ Faults' = Faults
    BY <1>1, <1>2 DEF Due, Faults
  <2>2. Orphans' \subseteq Orphans
    BY <1>1, <1>4 DEF Orphans, LookedAfter
  <2>. QED BY <1>0, <1>6, <2>1, <2>2, FewerOrphans, CountTypes
<1>. QED BY <1>6, <1>7, <1>8, <1>9, <1>10, <1>11, <1>12 DEF IInv

LEMMA NoUpdateStep ==
  ASSUME IInv, NothingToUpdate
  PROVE  IInv'
<1>0. StoreTypeOK /\ TypeOK /\ TickOK /\ rows \in [Ids -> Row \cup {NoRow}]
  BY DEF IInv, StoreTypeOK
<1>1. /\ step = "scored" /\ ~result.opened /\ (incident # NoIncident => incident.id = 0)
      /\ step' = AfterUpdate
      /\ UNCHANGED <<above, below, incident, result, held, detached, ended, closing, rows, nextId, cleared,
                     up, labeller, wiping, used, calm, sent>>
  BY DEF NothingToUpdate, scorerVars, storeVars, envVars
<1>2. held = NoIncident /\ ~detached /\ step' \in {"closing", "maintain"}
      /\ (step' = "closing" => incident = NoIncident) /\ (step' = "maintain" => ended = 0)
  BY <1>0, <1>1 DEF TickOK, AfterUpdate
<1>3. OpenRows' = OpenRows /\ (\A i : Stored(i)' <=> Stored(i)) /\ (\A id : IsLast(id)' <=> IsLast(id))
  BY <1>1 DEF OpenRows, Stored, IsLast
<1>4. StoreTypeOK'
  BY <1>0, <1>1, <1>2 DEF StoreTypeOK, TypeOK, Steps
<1>5. Remembered'
  BY <1>1 DEF IInv, Remembered
<1>6. TickOK'
  BY <1>0, <1>1, <1>2 DEF TickOK
<1>7. Owned'
  BY <1>1, <1>2, <1>3 DEF IInv, Owned, CloseHitsItsOwnRow
<1>8. Honest'
  BY <1>1, <1>2, <1>3 DEF IInv, Honest, NotifiedOnce, Told
<1>9. Mirrored'
  <2>1. ~(incident # NoIncident /\ ~wiping /\ used["failure"] = 0)
    <3>0. 0 \notin Deleted
      BY DEF Deleted
    <3>1. incident # NoIncident /\ ~wiping /\ incident.id \notin Deleted /\ used["failure"] = 0 => incident.id \in OpenRows
      BY <1>1 DEF IInv, Mirrored, Deleted
    <3>2. 0 \notin OpenRows
      BY DEF OpenRows, Ids
    <3>. QED BY <1>1, <3>0, <3>1, <3>2
  <2>. QED BY <1>1, <2>1 DEF Mirrored, Deleted
<1>10. Counted'
  <2>1. Due' = Due /\ Faults' = Faults
    BY <1>1, <1>2 DEF Due, Faults
  <2>2. 0 \notin OpenRows
    BY DEF OpenRows, Ids
  <2>3. Orphans' \subseteq Orphans
    BY <1>1, <1>2, <1>3, <2>2 DEF Orphans, LookedAfter
  <2>. QED BY <1>0, <1>4, <2>1, <2>3, FewerOrphans, CountTypes
<1>. QED BY <1>4, <1>5, <1>6, <1>7, <1>8, <1>9, <1>10 DEF IInv

-----------------------------------------------------------------------------
\* The notification: the id is new, so it is the first one for it.
LEMMA NotifyStep ==
  ASSUME IInv, NEW delivered \in BOOLEAN, Notify(delivered)
  PROVE  IInv'
<1>0. StoreTypeOK /\ TypeOK /\ TickOK /\ rows \in [Ids -> Row \cup {NoRow}]
      /\ nextId \in 1 .. MaxIncidents + 1 /\ sent \in [Ids -> Nat]
  BY DEF IInv, StoreTypeOK
<1>1. /\ step = "notify"
      /\ sent' = [sent EXCEPT ![held.id] = IF delivered THEN @ + 1 ELSE @]
      /\ held' = [held EXCEPT !.notified = delivered]
      /\ incident' = IF detached THEN incident ELSE held'
      /\ step' = IF delivered THEN "mark" ELSE "maintain"
      /\ UNCHANGED <<above, below, result, detached, ended, closing, rows, nextId, cleared,
                     up, labeller, wiping, used, calm>>
  BY DEF Notify, storeVars, envVars
<1>2. /\ held # NoIncident /\ held.id \in Ids /\ held.id # 0 /\ (detached \/ incident = held)
      /\ (detached => incident = NoIncident) /\ held \in Incident
  BY <1>0, <1>1 DEF TickOK, StoreTypeOK, Ids
<1>3. IsLast(held.id) /\ ~held.notified /\ sent[held.id] = 0
  BY <1>1 DEF IInv, Owned, Honest
<1>4. held' \in Incident /\ held' # NoIncident /\ held'.id = held.id /\ held'.notified = delivered
  BY <1>1, <1>2 DEF Incident
<1>5. /\ sent' \in [Ids -> Nat] /\ sent'[held.id] = (IF delivered THEN 1 ELSE 0)
      /\ \A i \in Ids : i # held.id => sent'[i] = sent[i]
  BY <1>0, <1>1, <1>2, <1>3
<1>6. OpenRows' = OpenRows /\ (\A i : Stored(i)' <=> Stored(i)) /\ (\A id : IsLast(id)' <=> IsLast(id))
  BY <1>1 DEF OpenRows, Stored, IsLast
<1>7. StoreTypeOK'
  <2>1. incident' \in Incident \cup {NoIncident}
    BY <1>1, <1>2, <1>4
  <2>. QED BY <1>0, <1>1, <1>4, <1>5, <2>1 DEF StoreTypeOK, TypeOK, Steps
<1>8. Remembered'
  <2>1. \A i \in Ids : i >= nextId => i # held.id
    BY <1>0, <1>2 DEF IInv, Remembered, Ids
  <2>. QED BY <1>1, <1>2, <1>4, <1>5, <2>1 DEF IInv, Remembered
<1>9. TickOK'
  BY <1>0, <1>1, <1>2, <1>4 DEF TickOK
<1>10. Owned'
  BY <1>1, <1>2, <1>3, <1>4, <1>6 DEF IInv, Owned, CloseHitsItsOwnRow
<1>11. Honest'
  <2>1. NotifiedOnce'
    <3>1. ASSUME NEW i \in Ids PROVE sent'[i] <= 1 /\ (Stored(i)' /\ rows'[i].notified => sent'[i] = 1)
      <4>1. sent[i] <= 1 /\ (Stored(i) /\ rows[i].notified => sent[i] = 1)
        BY DEF IInv, Honest, NotifiedOnce
      <4>2. CASE i = held.id
        BY <1>1, <1>3, <1>5, <1>6, <4>1, <4>2
      <4>3. CASE i # held.id
        BY <1>1, <1>5, <1>6, <4>1, <4>3
      <4>. QED BY <4>2, <4>3
    <3>. QED BY <3>1 DEF NotifiedOnce
  <2>2. Told(held)'
    BY <1>2, <1>4, <1>5 DEF Told
  <2>3. incident' # NoIncident => Told(incident)'
    BY <1>1, <1>2, <2>2 DEF Told
  <2>. QED BY <1>1, <2>1, <2>2, <2>3 DEF Honest
<1>12. Mirrored'
  <2>1. ASSUME incident' # NoIncident, ~wiping, incident'.id \notin Deleted, used["failure"] = 0
        PROVE  IF delivered THEN incident'.id \in OpenRows ELSE Shows(incident')
    <3>1. incident = held /\ incident' = held'
      BY <1>1, <1>2, <2>1
    <3>2. Shows(held)
      BY <1>1, <1>2, <2>1, <3>1 DEF IInv, Mirrored, Deleted
    <3>3. held.id \in OpenRows
      BY <3>2 DEF Shows, Stored, OpenRows, AsRow
    <3>4. ~delivered => held' = held
      BY <1>1, <1>2, <1>3 DEF Incident
    <3>. QED BY <1>4, <3>1, <3>2, <3>3, <3>4
  <2>2. Shows(incident)' <=> Shows(incident')
    BY <1>1 DEF Shows, Stored
  <2>. QED BY <1>1, <1>6, <2>1, <2>2 DEF Mirrored, Deleted
<1>13. Counted'
  <2>1. Due' = Due /\ Faults' = Faults
    BY <1>1 DEF Due, Faults
  <2>2. Orphans' \subseteq Orphans
    BY <1>1, <1>2, <1>4, <1>6 DEF Orphans, LookedAfter
  <2>. QED BY <1>0, <1>7, <2>1, <2>2, FewerOrphans, CountTypes
<1>. QED BY <1>7, <1>8, <1>9, <1>10, <1>11, <1>12, <1>13 DEF IInv

LEMMA MarkStep ==
  ASSUME IInv, MarkNotified
  PROVE  IInv'
<1>0. StoreTypeOK /\ TypeOK /\ TickOK /\ rows \in [Ids -> Row \cup {NoRow}]
  BY DEF IInv, StoreTypeOK
<1>. DEFINE row == AsRow(held, NoLabel)
<1>1. /\ step = "mark" /\ Update(held.id, row) /\ step' = "maintain"
      /\ UNCHANGED <<above, below, incident, result, held, detached, ended, closing, nextId, cleared,
                     up, labeller, wiping, used, calm, sent>>
  BY DEF MarkNotified, scorerVars, envVars
<1>2. /\ held # NoIncident /\ held.id \in Ids /\ held.id # 0 /\ (detached \/ incident = held)
      /\ (detached => incident = NoIncident) /\ held \in Incident
  BY <1>0, <1>1 DEF TickOK, StoreTypeOK, Ids
<1>3. row \in Row /\ row # NoRow /\ row.open /\ row.notified = held.notified /\ row.label = NoLabel
      /\ row = AsRow(held, row.label)
  BY <1>2, RowFacts DEF AsRow
<1>. HIDE DEF row
<1>4. /\ rows' \in [Ids -> Row \cup {NoRow}]
      /\ \A i \in Ids : rows'[i] = IF i = held.id /\ rows[i] # NoRow THEN row ELSE rows[i]
      /\ \A i \in Ids : rows'[i] = NoRow <=> rows[i] = NoRow
      /\ Stored(held.id) => OpenRows' = OpenRows \cup {held.id}
      /\ ~Stored(held.id) => OpenRows' = OpenRows
  BY <1>0, <1>1, <1>3, UpdateEffect
<1>5. Told(held) /\ IsLast(held.id)
  BY <1>1, <1>2 DEF IInv, Honest, Owned
<1>6. OpenRows' = OpenRows
  BY <1>4, <1>5 DEF IsLast, Stored
<1>7. StoreTypeOK'
  BY <1>0, <1>1, <1>4 DEF StoreTypeOK, TypeOK, Steps
<1>8. Remembered'
  BY <1>1, <1>4 DEF IInv, Remembered
<1>9. TickOK'
  BY <1>0, <1>1 DEF TickOK
<1>10. Owned'
  <2>1. \A id : IsLast(id)' <=> IsLast(id)
    BY <1>1, <1>4, <1>6 DEF IsLast
  <2>. QED BY <1>1, <2>1 DEF IInv, Owned, CloseHitsItsOwnRow
<1>11. Honest'
  <2>1. NotifiedOnce'
    BY <1>1, <1>3, <1>4, <1>5 DEF IInv, Honest, NotifiedOnce, Stored, Told
  <2>. QED BY <1>1, <2>1 DEF IInv, Honest, Told
<1>12. Mirrored'
  <2>1. ASSUME incident # NoIncident, ~wiping, incident.id \notin Deleted, used["failure"] = 0 PROVE Shows(incident)'
    <3>1. incident = held /\ incident.id \in OpenRows
      BY <1>1, <1>2, <2>1 DEF IInv, Mirrored, Deleted
    <3>2. held.id \in Ids /\ rows[held.id] # NoRow /\ rows'[held.id] = row
      BY <1>4, <3>1 DEF OpenRows
    <3>. QED BY <1>1, <1>3, <3>1, <3>2 DEF Shows, Stored, AsRow
  <2>. QED BY <1>1, <2>1 DEF Mirrored, Deleted
<1>13. Counted'
  <2>1. Due' = Due /\ Faults' = Faults
    BY <1>1 DEF Due, Faults
  <2>2. Orphans' \subseteq Orphans
    BY <1>1, <1>6 DEF Orphans, LookedAfter
  <2>. QED BY <1>0, <1>7, <2>1, <2>2, FewerOrphans, CountTypes
<1>. QED BY <1>7, <1>8, <1>9, <1>10, <1>11, <1>12, <1>13 DEF IInv

-----------------------------------------------------------------------------
\* The row to close is the newest open one: that of the incident that was closed.
LEMMA ReadStep ==
  ASSUME IInv, ReadClosing
  PROVE  IInv'
<1>0. StoreTypeOK /\ TypeOK /\ TickOK /\ rows \in [Ids -> Row \cup {NoRow}] /\ nextId \in 1 .. MaxIncidents + 1
  BY DEF IInv, StoreTypeOK
<1>1. /\ step = "closing"
      /\ closing' = IF NewestOpen = 0 THEN NoClosing ELSE [id |-> NewestOpen, row |-> rows[NewestOpen]]
      /\ step' = IF NewestOpen = 0 THEN "maintain" ELSE "close"
      /\ UNCHANGED <<above, below, incident, result, held, detached, ended, rows, nextId, cleared,
                     up, labeller, wiping, used, calm, sent>>
  BY DEF ReadClosing, scorerVars, storeVars, envVars
<1>2. incident = NoIncident /\ held = NoIncident /\ ~detached
  BY <1>0, <1>1 DEF TickOK
<1>3. OpenRows' = OpenRows /\ (\A i : Stored(i)' <=> Stored(i)) /\ (\A id : IsLast(id)' <=> IsLast(id))
  BY <1>1 DEF OpenRows, Stored, IsLast
<1>4. NewestOpen # 0 => NewestOpen \in OpenRows /\ NewestOpen \in Ids /\ rows[NewestOpen] \in Row
  BY <1>0, NewestIsOpen DEF OpenRows
<1>5. closing' \in [id : 0 .. MaxIncidents, row : Row \cup {NoRow}]
  BY <1>1, <1>4 DEF NoClosing, Ids
<1>6. step' = "close" => NewestOpen # 0 /\ closing'.id = NewestOpen /\ closing'.row = rows[NewestOpen]
  BY <1>1
<1>7. step' \in {"maintain", "close"}
  BY <1>1
<1>8. StoreTypeOK'
  BY <1>0, <1>1, <1>5 DEF StoreTypeOK, TypeOK, Steps
<1>9. Remembered'
  BY <1>1 DEF IInv, Remembered
<1>10. TickOK'
  BY <1>0, <1>1, <1>2, <1>4, <1>6, <1>7 DEF TickOK
<1>11. Owned'
  <2>1. NewestOpen # 0 /\ ended # 0 => NewestOpen = ended
    <3>1. ended # 0 => ended = nextId - 1 /\ (ended \in OpenRows \/ \A i \in Ids : rows[i] = NoRow)
      BY <1>1 DEF IInv, Owned, IsLast
    <3>2. \A i \in OpenRows : i <= nextId - 1
      BY <1>0 DEF IInv, Remembered, OpenRows, Ids
    <3>3. NewestOpen # 0 /\ ended # 0 => NewestOpen >= ended /\ NewestOpen <= ended /\ NewestOpen \in Nat /\ ended \in Nat
      BY <1>0, <3>1, <3>2, NewestIsOpen DEF OpenRows, StoreTypeOK
    <3>. QED BY <3>3
  <2>. QED BY <1>1, <1>2, <1>6, <1>7, <2>1 DEF Owned, CloseHitsItsOwnRow
<1>12. Honest'
  <2>1. NotifiedOnce'
    BY <1>1, <1>3 DEF IInv, Honest, NotifiedOnce
  <2>2. step' = "close" /\ closing'.row.notified => sent[closing'.id] = 1
    BY <1>4, <1>6 DEF IInv, Honest, NotifiedOnce, Stored, OpenRows
  <2>. QED BY <1>1, <1>2, <1>7, <2>1, <2>2 DEF Honest
<1>13. Mirrored'
  BY <1>1, <1>2 DEF Mirrored, Deleted
<1>14. Counted'
  <2>1. Due' = Due /\ Faults' = Faults
    BY <1>1, <1>2 DEF Due, Faults
  <2>2. Orphans' \subseteq Orphans
    BY <1>1, <1>2, <1>3, NewestIsOpen DEF Orphans, LookedAfter
  <2>. QED BY <1>0, <1>8, <2>1, <2>2, FewerOrphans, CountTypes
<1>. QED BY <1>8, <1>9, <1>10, <1>11, <1>12, <1>13, <1>14 DEF IInv

LEMMA WriteStep ==
  ASSUME IInv, WriteClosing
  PROVE  IInv'
<1>0. StoreTypeOK /\ TypeOK /\ TickOK /\ rows \in [Ids -> Row \cup {NoRow}]
  BY DEF IInv, StoreTypeOK
<1>. DEFINE row == [closing.row EXCEPT !.open = FALSE]
<1>1. /\ step = "close" /\ Update(closing.id, row) /\ step' = "maintain"
      /\ UNCHANGED <<above, below, incident, result, held, detached, ended, closing, nextId, cleared,
                     up, labeller, wiping, used, calm, sent>>
  BY DEF WriteClosing, scorerVars, envVars
<1>2. incident = NoIncident /\ held = NoIncident /\ ~detached /\ closing.id \in Ids /\ closing.row \in Row
  BY <1>0, <1>1 DEF TickOK
<1>3. row \in Row /\ ~row.open /\ row.notified = closing.row.notified
  BY <1>2 DEF Row
<1>. HIDE DEF row
<1>4. /\ rows' \in [Ids -> Row \cup {NoRow}]
      /\ \A i \in Ids : rows'[i] = IF i = closing.id /\ rows[i] # NoRow THEN row ELSE rows[i]
      /\ \A i \in Ids : rows'[i] = NoRow <=> rows[i] = NoRow
      /\ Stored(closing.id) => OpenRows' = OpenRows \ {closing.id}
      /\ ~Stored(closing.id) => OpenRows' = OpenRows /\ closing.id \notin OpenRows
  <2>1. ~Stored(closing.id) => closing.id \notin OpenRows
    BY DEF Stored, OpenRows
  <2>. QED BY <1>0, <1>1, <1>3, <2>1, UpdateEffect
<1>5. StoreTypeOK'
  BY <1>0, <1>1, <1>4 DEF StoreTypeOK, TypeOK, Steps
<1>6. Remembered'
  BY <1>1, <1>4 DEF IInv, Remembered
<1>7. TickOK'
  BY <1>0, <1>1, <1>2 DEF TickOK
<1>8. Owned'
  BY <1>1, <1>2 DEF Owned, CloseHitsItsOwnRow
<1>9. Honest'
  <2>1. NotifiedOnce'
    BY <1>1, <1>3, <1>4 DEF IInv, Honest, NotifiedOnce, Stored
  <2>. QED BY <1>1, <1>2, <2>1 DEF Honest
<1>10. Mirrored'
  BY <1>1, <1>2 DEF Mirrored, Deleted
<1>11. Counted'
  <2>1. Due' = Due /\ Faults' = Faults
    BY <1>1 DEF Due, Faults
  <2>2. ended # 0 => closing.id = ended
    BY <1>1 DEF IInv, Owned, CloseHitsItsOwnRow
  <2>3. 0 \notin OpenRows
    BY DEF OpenRows, Ids
  <2>4. Orphans' \subseteq Orphans
    BY <1>1, <1>2, <1>4, <2>2, <2>3 DEF Orphans, LookedAfter
  <2>. QED BY <1>0, <1>5, <2>1, <2>4, FewerOrphans, CountTypes
<1>. QED BY <1>5, <1>6, <1>7, <1>8, <1>9, <1>10, <1>11 DEF IInv

\* The locals that a tick leaves behind when it ends, well or not.
LEMMA EndOfTickType ==
  ASSUME StoreTypeOK, above' \in 0 .. CounterCap, below' \in 0 .. CounterCap, incident' \in Incident \cup {NoIncident},
         step' = "idle", result' = Unchanged, held' = NoIncident, detached' = FALSE,
         ended' = 0, closing' = NoClosing
  PROVE  /\ TypeOK' /\ step' \in Steps /\ held' \in Incident \cup {NoIncident}
         /\ detached' \in BOOLEAN /\ ended' \in 0 .. MaxIncidents
         /\ closing' \in [id : 0 .. MaxIncidents, row : Row \cup {NoRow}]
<1>1. Unchanged \in ScoreResult /\ NoClosing \in [id : 0 .. MaxIncidents, row : Row \cup {NoRow}]
  BY DEF Unchanged, ScoreResult, NoClosing
<1>2. TypeOK'
  BY <1>1 DEF TypeOK
<1>3. ended' \in 0 .. MaxIncidents
  OBVIOUS
<1>4. closing' \in [id : 0 .. MaxIncidents, row : Row \cup {NoRow}]
  BY <1>1
<1>5. step' \in Steps /\ held' \in Incident \cup {NoIncident} /\ detached' \in BOOLEAN
  BY DEF Steps
<1>. QED BY <1>2, <1>3, <1>4, <1>5

\* Maintenance prunes closed rows only.
LEMMA MaintainStep ==
  ASSUME IInv, Maintain
  PROVE  IInv'
<1>0. StoreTypeOK /\ TypeOK /\ TickOK /\ rows \in [Ids -> Row \cup {NoRow}]
  BY DEF IInv, StoreTypeOK
<1>1. PICK gone \in SUBSET {i \in Ids : Stored(i) /\ ~rows[i].open} :
        rows' = [i \in Ids |-> IF i \in gone THEN NoRow ELSE rows[i]]
  BY DEF Maintain
<1>2. /\ step = "maintain" /\ step' = "idle" /\ result' = Unchanged /\ held' = NoIncident
      /\ detached' = FALSE /\ ended' = 0 /\ closing' = NoClosing
      /\ UNCHANGED <<above, below, incident, nextId, cleared, up, labeller, wiping, used, calm, sent>>
  BY DEF Maintain, EndTick, envVars
<1>3. /\ rows' \in [Ids -> Row \cup {NoRow}]
      /\ \A i \in Ids : rows'[i] = NoRow \/ rows'[i] = rows[i]
      /\ \A i \in OpenRows : rows'[i] = rows[i]
  BY <1>0, <1>1 DEF OpenRows
<1>4. OpenRows' = OpenRows
  BY <1>3 DEF OpenRows
<1>5. StoreTypeOK'
  BY <1>0, <1>2, <1>3, EndOfTickType DEF StoreTypeOK, TypeOK
<1>6. Remembered'
  BY <1>2, <1>3 DEF IInv, Remembered
<1>7. TickOK'
  BY <1>0, <1>2 DEF TickOK, Unchanged
<1>8. Owned'
  <2>1. incident # NoIncident => incident.id = 0 \/ IsLast(incident.id)
    BY DEF IInv, Owned
  <2>2. incident # NoIncident /\ IsLast(incident.id) => IsLast(incident.id)'
    BY <1>2, <1>3, <1>4 DEF IsLast
  <2>. QED BY <1>2, <2>1, <2>2 DEF Owned, CloseHitsItsOwnRow
<1>9. Honest'
  <2>1. NotifiedOnce'
    BY <1>2, <1>3 DEF IInv, Honest, NotifiedOnce, Stored
  <2>. QED BY <1>2, <2>1 DEF IInv, Honest, Told
<1>10. Mirrored'
  <2>1. ASSUME incident # NoIncident, ~wiping, incident.id \notin Deleted, used["failure"] = 0 PROVE Shows(incident)'
    <3>1. Shows(incident)
      BY <1>2, <2>1 DEF IInv, Mirrored, Deleted
    <3>2. incident.id \in OpenRows
      BY <3>1 DEF Shows, Stored, OpenRows, AsRow
    <3>3. rows'[incident.id] = rows[incident.id]
      BY <1>3, <3>2
    <3>. QED BY <1>2, <3>1, <3>3 DEF Shows, Stored
  <2>. QED BY <1>2, <2>1 DEF Mirrored, Deleted
<1>11. Counted'
  <2>1. Due' = Due /\ Faults' = Faults
    BY <1>2 DEF Due, Faults
  <2>2. Orphans' \subseteq Orphans
    BY <1>2, <1>4 DEF Orphans, LookedAfter
  <2>. QED BY <1>0, <1>5, <2>1, <2>2, FewerOrphans, CountTypes
<1>. QED BY <1>5, <1>6, <1>7, <1>8, <1>9, <1>10, <1>11 DEF IInv

-----------------------------------------------------------------------------
\* A statement raises and the tick is over: what it had yet to do is left undone.
LEMMA FailStep ==
  ASSUME IInv, TickFails
  PROVE  IInv'
<1>0. StoreTypeOK /\ TypeOK /\ TickOK /\ used \in [{"crash", "failure", "wipe", "label"} -> Nat]
  BY DEF IInv, StoreTypeOK
<1>1. /\ step \in {"scored", "mark", "closing", "close"}
      /\ used' = [used EXCEPT !["failure"] = @ + 1]
      /\ step' = "idle" /\ result' = Unchanged /\ held' = NoIncident
      /\ detached' = FALSE /\ ended' = 0 /\ closing' = NoClosing
      /\ UNCHANGED <<above, below, incident, rows, nextId, cleared, up, labeller, wiping, calm, sent>>
  BY DEF TickFails, Spend, EndTick, storeVars
<1>2. /\ used' \in [{"crash", "failure", "wipe", "label"} -> Nat]
      /\ used'["failure"] = used["failure"] + 1 /\ used'["failure"] # 0
      /\ used'["crash"] = used["crash"] /\ used'["wipe"] = used["wipe"]
  BY <1>0, <1>1
<1>3. OpenRows' = OpenRows /\ (\A i : Stored(i)' <=> Stored(i)) /\ (\A id : IsLast(id)' <=> IsLast(id))
  BY <1>1 DEF OpenRows, Stored, IsLast
<1>4. StoreTypeOK'
  BY <1>0, <1>1, <1>2, EndOfTickType DEF StoreTypeOK, TypeOK
<1>5. Remembered'
  BY <1>1 DEF IInv, Remembered
<1>6. TickOK'
  BY <1>0, <1>1 DEF TickOK, Unchanged
<1>7. Owned'
  BY <1>1, <1>3 DEF IInv, Owned, CloseHitsItsOwnRow
<1>8. Honest'
  BY <1>1, <1>3 DEF IInv, Honest, NotifiedOnce, Told
<1>9. Mirrored'
  BY <1>2 DEF Mirrored, Deleted
<1>10. Counted'
  <2>1. Faults \in Nat /\ Faults' \in Nat /\ Due \in Nat /\ Due' \in Nat /\ Faults' = Faults + 1
    <3>1. Faults \in Nat /\ Due \in Nat
      BY <1>0, CountTypes
    <3>2. Faults' = Faults + 1 /\ Faults' \in Nat
      BY <1>0, <1>2 DEF Faults
    <3>3. Due' \in Nat
      BY DEF Due
    <3>. QED BY <3>1, <3>2, <3>3
  <2>2. Due' <= Due
    BY <1>1 DEF Due
  <2>3. Due' + Faults + 1 <= Due + Faults'
    BY <2>1, <2>2, FaultIsPaid
  <2>4. Orphans' \subseteq Orphans \cup {ended}
    BY <1>1, <1>3 DEF Orphans, LookedAfter
  <2>. QED BY <2>1, <2>3, <2>4, OneMoreOrphan
<1>. QED BY <1>4, <1>5, <1>6, <1>7, <1>8, <1>9, <1>10 DEF IInv

\* The table is emptied, whatever the tick is doing.
LEMMA EmptyEffect ==
  ASSUME IInv, EmptyTable, Spend("wipe", MaxWipes),
         UNCHANGED <<scorerVars, nextId, tickVars, up, labeller, calm, sent>>,
         wiping' \in BOOLEAN, wiping => wiping', wiping' => up,
         cleared' \in {cleared, nextId}, wiping' \/ cleared' = nextId
  PROVE  StoreTypeOK' /\ Remembered' /\ TickOK' /\ Owned' /\ Honest' /\ Mirrored'
<1>0. StoreTypeOK /\ TypeOK /\ TickOK /\ used \in [{"crash", "failure", "wipe", "label"} -> Nat]
      /\ nextId \in 1 .. MaxIncidents + 1 /\ cleared \in 1 .. MaxIncidents + 1
  BY DEF IInv, StoreTypeOK
<1>1. /\ used' = [used EXCEPT !["wipe"] = @ + 1]
      /\ rows' = [i \in Ids |-> NoRow]
      /\ UNCHANGED <<above, below, incident, result, step, held, detached, ended, closing, nextId,
                     up, labeller, calm, sent>>
  BY DEF EmptyTable, Spend, scorerVars, tickVars
<1>2. /\ used' \in [{"crash", "failure", "wipe", "label"} -> Nat]
      /\ used'["failure"] = used["failure"]
  BY <1>0, <1>1
<1>3. rows' \in [Ids -> Row \cup {NoRow}] /\ \A i \in Ids : rows'[i] = NoRow
  BY <1>1
<1>4. (\A i : ~Stored(i)') /\ (\A id : IsLast(id) => IsLast(id)')
  BY <1>1, <1>3 DEF Stored, IsLast
<1>5. StoreTypeOK'
  BY <1>0, <1>1, <1>2, <1>3 DEF StoreTypeOK, TypeOK
<1>6. Remembered'
  <2>1. cleared' <= nextId'
    BY <1>0, <1>1 DEF IInv, Remembered
  <2>. QED BY <1>1, <1>3, <2>1 DEF IInv, Remembered
<1>7. TickOK'
  BY <1>0, <1>1 DEF TickOK
<1>8. Owned'
  BY <1>1, <1>4 DEF IInv, Owned, CloseHitsItsOwnRow
<1>9. Honest'
  <2>1. NotifiedOnce'
    BY <1>1, <1>4 DEF IInv, Honest, NotifiedOnce
  <2>. QED BY <1>1, <2>1 DEF IInv, Honest, Told
<1>10. Mirrored'
  <2>1. incident # NoIncident => incident.id \in Nat /\ incident.id < nextId
    BY <1>0 DEF IInv, Remembered, TypeOK, Incident
  <2>2. cleared' = nextId /\ incident # NoIncident /\ incident.id # 0 => incident.id \in Deleted'
    BY <1>0, <1>1, <2>1 DEF Deleted
  <2>3. 0 \notin Deleted /\ 0 \notin OpenRows /\ ~Stored(0)
    BY DEF Deleted, OpenRows, Stored, Ids
  <2>4. incident # NoIncident /\ ~wiping /\ incident.id = 0 /\ used["failure"] = 0
          => step = "scored" /\ result.opened
    BY <2>3 DEF IInv, Mirrored, Shows
  <2>5. ASSUME incident # NoIncident, ~wiping', incident.id \notin Deleted', used["failure"] = 0
        PROVE  step = "scored" /\ result.opened
    <3>1. ~wiping /\ cleared' = nextId
      BY <2>5, Zenon
    <3>. QED BY <2>2, <2>4, <2>5, <3>1
  <2>6. Mirrored' <=>
          (incident # NoIncident /\ ~wiping' /\ incident.id \notin Deleted' /\ used["failure"] = 0 =>
             IF step = "scored" /\ result.opened THEN TRUE
             ELSE IF step \in {"scored", "mark"} THEN incident.id \in OpenRows' ELSE Shows(incident)')
    BY <1>1, <1>2 DEF Mirrored, Shows
  <2>. QED BY <2>5, <2>6
<1>. QED BY <1>5, <1>6, <1>7, <1>8, <1>9, <1>10

LEMMA EmptyCounts ==
  ASSUME IInv, EmptyTable, Spend("wipe", MaxWipes)
  PROVE  /\ Orphans' \subseteq Orphans
         /\ Faults \in Nat /\ Faults' \in Nat /\ Due \in Nat /\ Due' \in Nat /\ Faults' = Faults + 1
<1>0. StoreTypeOK /\ used \in [{"crash", "failure", "wipe", "label"} -> Nat]
  BY DEF IInv, StoreTypeOK
<1>1. used' = [used EXCEPT !["wipe"] = @ + 1] /\ rows' = [i \in Ids |-> NoRow]
  BY DEF EmptyTable, Spend
<1>2. Orphans' \subseteq Orphans
  BY <1>1 DEF Orphans, OpenRows
<1>3. Faults \in Nat /\ Due \in Nat
  BY <1>0, CountTypes
<1>4. /\ used'["wipe"] = used["wipe"] + 1
      /\ used'["crash"] = used["crash"] /\ used'["failure"] = used["failure"]
  BY <1>0, <1>1
<1>5. Faults' = Faults + 1 /\ Faults' \in Nat
  BY <1>0, <1>4 DEF Faults
<1>6. Due' \in Nat
  BY DEF Due
<1>. QED BY <1>2, <1>3, <1>5, <1>6

\* The command line empties it: the agent goes on with what it has in memory.
LEMMA CliWipeStep ==
  ASSUME IInv, CliWipe
  PROVE  IInv'
<1>1. /\ EmptyTable /\ Spend("wipe", MaxWipes) /\ wiping' = wiping /\ cleared' = nextId
      /\ UNCHANGED <<scorerVars, nextId, tickVars, up, labeller, calm, sent>>
  BY DEF CliWipe
<1>2. wiping' \in BOOLEAN /\ (wiping => wiping') /\ (wiping' => up)
  BY <1>1 DEF IInv, StoreTypeOK, TickOK
<1>3. StoreTypeOK' /\ Remembered' /\ TickOK' /\ Owned' /\ Honest' /\ Mirrored'
  BY <1>1, <1>2, EmptyEffect
<1>4. Counted'
  <2>1. Due' <= Due
    <3>1. step' = step /\ detached' = detached
      BY <1>1 DEF tickVars
    <3>. QED BY <1>1, <3>1 DEF Due
  <2>2. Due' + Faults + 1 <= Due + Faults'
    BY <1>1, <2>1, EmptyCounts, FaultIsPaid
  <2>3. Due' + Faults <= Due + Faults'
    BY <1>1, <2>2, EmptyCounts
  <2>. QED BY <1>1, <2>3, EmptyCounts, FewerOrphans
<1>. QED BY <1>3, <1>4 DEF IInv

\* The agent empties it; the row that its running tick may yet insert is due.
LEMMA WipeStoreStep ==
  ASSUME IInv, WipeStore
  PROVE  IInv'
<1>1. /\ EmptyTable /\ Spend("wipe", MaxWipes) /\ up /\ ~wiping /\ wiping' = TRUE /\ cleared' = cleared
      /\ UNCHANGED <<scorerVars, nextId, tickVars, up, labeller, calm, sent>>
  BY DEF WipeStore
<1>2. StoreTypeOK' /\ Remembered' /\ TickOK' /\ Owned' /\ Honest' /\ Mirrored'
  BY <1>1, EmptyEffect
<1>3. Counted'
  <2>1. Due' = Due + 1
    <3>1. step' = step /\ detached' = detached
      BY <1>1 DEF tickVars
    <3>. QED BY <1>1, <3>1 DEF Due
  <2>2. Due' + Faults <= Due + Faults'
    BY <1>1, <2>1, EmptyCounts, WipeIsPaid
  <2>. QED BY <1>1, <2>2, EmptyCounts, FewerOrphans
<1>. QED BY <1>2, <1>3 DEF IInv

\* The new scorer knows no incident; the tick may hold one, and on its own.
LEMMA WipeScorerStep ==
  ASSUME IInv, WipeScorer
  PROVE  IInv'
<1>0. StoreTypeOK /\ TypeOK /\ TickOK
  BY DEF IInv, StoreTypeOK
<1>1. /\ wiping /\ wiping' = FALSE /\ above' = 0 /\ below' = 0 /\ incident' = NoIncident
      /\ detached' = (held # NoIncident)
      /\ UNCHANGED <<result, step, held, ended, closing, rows, nextId, cleared, up, labeller, used, calm, sent>>
  BY DEF WipeScorer, ForgetScorer, storeVars
<1>2. OpenRows' = OpenRows /\ (\A i : Stored(i)' <=> Stored(i)) /\ (\A id : IsLast(id)' <=> IsLast(id))
  BY <1>1 DEF OpenRows, Stored, IsLast
<1>3. TypeOK'
  BY <1>0, <1>1 DEF TypeOK
<1>4. StoreTypeOK'
  BY <1>0, <1>1, <1>3 DEF StoreTypeOK
<1>5. Remembered'
  BY <1>1 DEF IInv, Remembered
<1>6. TickOK'
  BY <1>0, <1>1 DEF TickOK
<1>7. Owned'
  BY <1>1, <1>2 DEF IInv, Owned, CloseHitsItsOwnRow
<1>8. Honest'
  BY <1>1, <1>2 DEF IInv, Honest, NotifiedOnce, Told
<1>9. Mirrored'
  BY <1>1 DEF Mirrored, Deleted
<1>10. Counted'
  <2>1. Faults \in Nat /\ Faults' \in Nat /\ Due \in Nat /\ Due' \in Nat /\ Faults' = Faults
    <3>1. Faults \in Nat /\ Due \in Nat
      BY <1>0, CountTypes
    <3>2. Faults' = Faults
      BY <1>1 DEF Faults
    <3>3. Due' \in Nat
      BY DEF Due
    <3>. QED BY <3>1, <3>2, <3>3
  <2>2. CASE step = "scored" /\ held # NoIncident
    <3>1. held.id = 0 /\ (detached \/ incident = held) /\ (detached => incident = NoIncident)
          /\ (result.opened => ended = 0) /\ result.opened
      BY <1>0, <2>2 DEF TickOK
    <3>2. 0 \notin OpenRows
      BY DEF OpenRows, Ids
    <3>3. Orphans' \subseteq Orphans
      BY <1>1, <1>2, <2>2, <3>1, <3>2 DEF Orphans, LookedAfter
    <3>4. Due' <= Due
      BY <1>1, <2>2 DEF Due
    <3>5. Due' + Faults <= Due + Faults'
      BY <2>1, <3>4, SameIsPaid
    <3>. QED BY <2>1, <3>3, <3>5, FewerOrphans
  <2>3. CASE ~(step = "scored" /\ held # NoIncident)
    <3>1. Orphans' \subseteq Orphans \cup {incident.id}
      BY <1>0, <1>1, <1>2 DEF Orphans, LookedAfter, TickOK
    <3>2. ~(detached /\ step = "scored") /\ ~(detached' /\ step' = "scored")
      BY <1>0, <1>1, <2>3 DEF TickOK
    <3>3. Due' + 1 = Due
      BY <1>1, <3>2 DEF Due
    <3>4. Due' + Faults + 1 <= Due + Faults'
      BY <2>1, <3>3, DueIsPaid
    <3>. QED BY <2>1, <3>1, <3>4, OneMoreOrphan
  <2>. QED BY <2>2, <2>3
<1>. QED BY <1>4, <1>5, <1>6, <1>7, <1>8, <1>9, <1>10 DEF IInv

\* Memory is lost, and with it whoever looked after an open row.
LEMMA CrashStep ==
  ASSUME IInv, Crash
  PROVE  IInv'
<1>0. StoreTypeOK /\ TypeOK /\ TickOK /\ used \in [{"crash", "failure", "wipe", "label"} -> Nat]
  BY DEF IInv, StoreTypeOK
<1>1. /\ up' = FALSE /\ above' = 0 /\ below' = 0 /\ incident' = NoIncident /\ wiping' = FALSE
      /\ used' = [used EXCEPT !["crash"] = @ + 1]
      /\ step' = "idle" /\ result' = Unchanged /\ held' = NoIncident
      /\ detached' = FALSE /\ ended' = 0 /\ closing' = NoClosing
      /\ UNCHANGED <<rows, nextId, cleared, labeller, calm, sent>>
  BY DEF Crash, Spend, ForgetScorer, EndTick, storeVars
<1>2. /\ used' \in [{"crash", "failure", "wipe", "label"} -> Nat]
      /\ used'["crash"] = used["crash"] + 1
      /\ used'["failure"] = used["failure"] /\ used'["wipe"] = used["wipe"]
  BY <1>0, <1>1
<1>3. OpenRows' = OpenRows /\ (\A i : Stored(i)' <=> Stored(i))
  BY <1>1 DEF OpenRows, Stored
<1>4. StoreTypeOK'
  <2>1. above' \in 0 .. CounterCap /\ below' \in 0 .. CounterCap
    BY <1>1
  <2>. QED BY <1>0, <1>1, <1>2, <2>1, EndOfTickType DEF StoreTypeOK
<1>5. Remembered'
  BY <1>1 DEF IInv, Remembered
<1>6. TickOK'
  BY <1>1 DEF TickOK, Unchanged
<1>7. Owned'
  BY <1>1 DEF Owned, CloseHitsItsOwnRow
<1>8. Honest'
  BY <1>1, <1>3 DEF IInv, Honest, NotifiedOnce
<1>9. Mirrored'
  BY <1>1 DEF Mirrored, Deleted
<1>10. Counted'
  <2>1. Faults \in Nat /\ Faults' \in Nat /\ Due \in Nat /\ Due' \in Nat /\ Faults' = Faults + 1
    <3>1. Faults \in Nat /\ Due \in Nat
      BY <1>0, CountTypes
    <3>2. Faults' = Faults + 1 /\ Faults' \in Nat
      BY <1>0, <1>2 DEF Faults
    <3>3. Due' \in Nat
      BY DEF Due
    <3>. QED BY <3>1, <3>2, <3>3
  <2>2. Due' <= Due
    BY <1>1 DEF Due
  <2>3. Due' + Faults + 1 <= Due + Faults'
    BY <2>1, <2>2, FaultIsPaid
  <2>4. PICK id : LookedAfter \subseteq {id}
    BY DEF LookedAfter
  <2>5. Orphans' \subseteq Orphans \cup {id}
    BY <1>1, <1>3, <2>4 DEF Orphans
  <2>. QED BY <2>1, <2>3, <2>5, OneMoreOrphan
<1>. QED BY <1>4, <1>5, <1>6, <1>7, <1>8, <1>9, <1>10 DEF IInv

-----------------------------------------------------------------------------
LEMMA StepInvariant == IInv /\ [StoreNext]_vars => IInv'
<1> SUFFICES ASSUME IInv, [StoreNext]_vars PROVE IInv'
  OBVIOUS
<1>1. CASE \E f \in Frames : TickScore(f)
  BY <1>1, ScoreStep
<1>2. CASE InsertIncident
  BY <1>2, InsertStep
<1>3. CASE UpdateLive
  BY <1>3, UpdateStep
<1>4. CASE NothingToUpdate
  BY <1>4, NoUpdateStep
<1>5. CASE \E delivered \in BOOLEAN : Notify(delivered)
  BY <1>5, NotifyStep
<1>6. CASE MarkNotified
  BY <1>6, MarkStep
<1>7. CASE ReadClosing
  BY <1>7, ReadStep
<1>8. CASE WriteClosing
  BY <1>8, WriteStep
<1>9. CASE Maintain
  BY <1>9, MaintainStep
<1>10. CASE TickFails
  BY <1>10, FailStep
<1>11. CASE \E verdict \in Verdicts : LabelWrite(verdict)
  BY <1>11, LabelStep
<1>12. CASE WipeStore
  BY <1>12, WipeStoreStep
<1>13. CASE WipeScorer
  BY <1>13, WipeScorerStep
<1>14. CASE Crash
  BY <1>14, CrashStep
<1>16. CASE CliWipe
  BY <1>16, CliWipeStep
<1>15. CASE LabelRead \/ Restart \/ CalmDown \/ UNCHANGED vars
  BY <1>15, OtherSteps
<1>. QED
  BY <1>1, <1>2, <1>3, <1>4, <1>5, <1>6, <1>7, <1>8, <1>9, <1>10, <1>11, <1>12, <1>13, <1>14, <1>15, <1>16
     DEF StoreNext, Tick

LEMMA AlwaysInvariant == StoreSpec => []IInv
<1>. QED BY InitInvariant, StepInvariant, PTL DEF StoreSpec

\* Every variable of the agent and of the incidents table has its type, for any
\* bounds: no id, counter or step leaves its range.
THEOREM StoreTypeCorrect == StoreSpec => []StoreTypeOK
<1>1. IInv => StoreTypeOK
  BY DEF IInv
<1>. QED BY <1>1, AlwaysInvariant, PTL

\* core/agent.py _persist_incidents, with any number of crashes and of wipes, by the
\* agent or behind it: unless a statement failed, the row shows between two ticks
\* what the scorer knows of the live incident, and there is none under its id from
\* the moment the command line deleted it.
THEOREM MirrorCorrect == StoreSpec => []RowMirrorsIncident
<1>1. IInv => RowMirrorsIncident
  <2> SUFFICES ASSUME IInv, step = "idle", ~wiping, incident # NoIncident, used["failure"] = 0
               PROVE  IF incident.id \in Deleted THEN ~Stored(incident.id) ELSE Shows(incident)
    BY DEF RowMirrorsIncident, Shows
  <2>1. CASE incident.id \in Deleted
    BY <2>1 DEF IInv, Remembered, StoreTypeOK, Deleted, Stored
  <2>2. CASE incident.id \notin Deleted
    BY <2>2 DEF IInv, Mirrored
  <2>. QED BY <2>1, <2>2
<1>. QED BY <1>1, AlwaysInvariant, PTL

\* The row a closing tick finds as the newest open one is that of the incident the
\* scorer closed, through crashes, failures, wipes and labels in any order.
THEOREM CloseCorrect == StoreSpec => []CloseHitsItsOwnRow
<1>1. IInv => CloseHitsItsOwnRow
  BY DEF IInv, Owned
<1>. QED BY <1>1, AlwaysInvariant, PTL

\* No incident is announced twice, and a row says so only of one that was.
THEOREM NotifiedCorrect == StoreSpec => []NotifiedOnce
<1>1. IInv => NotifiedOnce
  BY DEF IInv, Honest
<1>. QED BY <1>1, AlwaysInvariant, PTL

\* However many faults there are, each leaves at most one row open for good.
THEOREM OrphansCorrect == StoreSpec => []OrphansBounded
<1>1. IInv => OrphansBounded
  <2> SUFFICES ASSUME IInv PROVE OrphansBounded
    OBVIOUS
  <2>1. PICK id : LookedAfter \subseteq {id}
    BY DEF LookedAfter
  <2>2. OpenRows \subseteq Orphans \cup {id}
    BY <2>1 DEF Orphans
  <2>3. Cardinality(OpenRows) <= Cardinality(Orphans) + 1 /\ Cardinality(OpenRows) \in Nat /\ Cardinality(Orphans) \in Nat
    BY <2>2, OpenIsFinite, CountsOneMore
  <2>4. Faults \in Nat /\ Due \in Nat
    BY CountTypes DEF IInv
  <2>5. Cardinality(Orphans) + Due <= Faults
    BY DEF IInv, Counted
  <2>6. Cardinality(OpenRows) <= Faults + 1
    BY <2>3, <2>4, <2>5, OneOverDue
  <2>7. used \in [{"crash", "failure", "wipe", "label"} -> Nat]
    BY DEF IInv, StoreTypeOK
  <2>8. Faults + 1 = 1 + used["crash"] + used["failure"] + used["wipe"]
    BY <2>7 DEF Faults
  <2>. QED BY <2>6, <2>8 DEF OrphansBounded
<1>. QED BY <1>1, AlwaysInvariant, PTL
=============================================================================
