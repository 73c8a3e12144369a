--------------------------- MODULE AgentIncidents ---------------------------
(***************************************************************************)
(* The incidents table and everything that writes it: the scoring tick of  *)
(* core/agent.py (Agent.tick and _persist_incidents), the user's label, a  *)
(* wipe through the agent and one by the command line behind it, a crash.  *)
(* Each statement on the database takes the lock by itself, so others run  *)
(* between the statements of one tick; step says which one the tick has    *)
(* reached.  The scorer is module Scorer.                                  *)
(***************************************************************************)
EXTENDS Scorer, FiniteSets, FiniteSetsExt

CONSTANTS
  NoRow,         \* no row under this id, never inserted or deleted
  NoLabel,       \* user_label is NULL
  Verdicts,      \* the verdicts a user may give
  MaxIncidents,  \* bound: rows ever inserted
  MaxCrashes,    \* bound: times the process dies
  MaxFailures,   \* bound: database statements of a tick that raise
  MaxWipes,      \* bound: wipes asked for
  MaxLabels      \* bound: labels given

Ids == 1 .. MaxIncidents
Row == [open : BOOLEAN, layer : Layers, severity : Severity, peak : Severity,
        notified : BOOLEAN, label : Verdicts \cup {NoLabel}]

ASSUME StoreAssumption ==
  /\ MaxIncidents \in Nat /\ MaxCrashes \in Nat /\ MaxFailures \in Nat
  /\ MaxWipes \in Nat /\ MaxLabels \in Nat
  /\ NoRow \notin Row
  /\ NoLabel \notin Verdicts

VARIABLES
  up,        \* the agent process is alive
  step,      \* where the tick is
  held,      \* result.opened, the incident object the tick holds
  detached,  \* held is no longer the scorer's active_incident object
  ended,     \* the id of the incident the scorer closed in this tick, 0 if none
  closing,   \* the row repo.active_incident() returned to the tick
  rows,      \* the incidents table
  nextId,    \* the AUTOINCREMENT counter, which a wipe does not reset
  cleared,   \* history: nextId when the command line last wiped
  labeller,  \* add_label: the row it read, and how far it is
  wiping,    \* Agent.wipe has emptied the tables, not yet replaced the scorer
  sent,      \* how often the backend delivered a notification for an id
  used,      \* how many faults and requests there have been
  calm       \* the network is quiet from now on

storeVars == <<rows, nextId, cleared>>
tickVars == <<step, held, detached, ended, closing>>
envVars == <<up, labeller, wiping, used, calm>>
vars == <<scorerVars, storeVars, tickVars, envVars, sent>>

Steps == {"idle", "scored", "notify", "mark", "closing", "close", "maintain"}
NoClosing == [id |-> 0, row |-> NoRow]
NoLabeller == [at |-> "none", target |-> 0]

-----------------------------------------------------------------------------
Stored(i) == i \in Ids /\ rows[i] # NoRow
\* The ids given out before the command line last wiped.
Deleted == 1 .. cleared - 1
OpenRows == {i \in Ids : rows[i] # NoRow /\ rows[i].open}

OldestOpen == IF OpenRows = {} THEN 0 ELSE Min(OpenRows)
\* Repository.active_incident: the open row that started last, 0 if none.
NewestOpen == IF OpenRows = {} THEN 0 ELSE Max(OpenRows)

AsRow(i, label) == [open |-> TRUE, layer |-> i.layer, severity |-> i.severity,
                    peak |-> i.peak, notified |-> i.notified, label |-> label]

UpdateMissing(id, row) == rows' = rows
UpdateOrInsert(id, row) == rows' = [rows EXCEPT ![id] = row]
\* Repository.update_incident: every column of the row, the label too, is
\* overwritten; a row that is gone is not.
Update(id, row) == rows' = IF Stored(id) THEN [rows EXCEPT ![id] = row] ELSE rows

Spend(kind, bound) ==
  /\ used[kind] < bound
  /\ used' = [used EXCEPT ![kind] = @ + 1]

ForgetScorer ==
  /\ above' = 0
  /\ below' = 0
  /\ incident' = NoIncident

\* The locals of tick, its ScoreResult among them, are gone.
EndTick ==
  /\ step' = "idle"
  /\ result' = Unchanged
  /\ held' = NoIncident
  /\ detached' = FALSE
  /\ ended' = 0
  /\ closing' = NoClosing

-----------------------------------------------------------------------------
StoreInit ==
  /\ Init
  /\ up = TRUE
  /\ step = "idle" /\ held = NoIncident /\ detached = FALSE
  /\ ended = 0 /\ closing = NoClosing
  /\ rows = [i \in Ids |-> NoRow]
  /\ nextId = 1 /\ cleared = 1
  /\ labeller = NoLabeller
  /\ wiping = FALSE
  /\ sent = [i \in Ids |-> 0]
  /\ used = [k \in {"crash", "failure", "wipe", "label"} |-> 0]
  /\ calm = FALSE

\* tick up to the scorer.  A tick without values returns before it changes
\* anything and one whose add_sample raises has not scored: both are stutters.
TickScore(f) ==
  /\ up /\ step = "idle"
  /\ calm => ~f.blind /\ ~Alerting(f)
  /\ Observe(f)
  /\ result'.opened => nextId <= MaxIncidents
  /\ held' = IF result'.opened THEN incident' ELSE NoIncident
  /\ ended' = IF result'.closed THEN incident.id ELSE 0
  /\ step' = "scored"
  /\ UNCHANGED <<detached, closing, storeVars, envVars, sent>>

AfterUpdateElse ==
  IF result.closed /\ incident # NoIncident THEN "closing" ELSE "maintain"
\* Where _persist_incidents goes after its first half.
AfterUpdate == IF result.closed THEN "closing" ELSE "maintain"

\* INSERT, then the id is set on the object the scorer holds too.
InsertIncident ==
  /\ step = "scored" /\ result.opened
  /\ rows' = [rows EXCEPT ![nextId] = AsRow(held, NoLabel)]
  /\ held' = [held EXCEPT !.id = nextId]
  /\ incident' = IF detached THEN incident ELSE held'
  /\ nextId' = nextId + 1
  /\ step' = "notify"
  /\ UNCHANGED <<above, below, result, detached, ended, closing, cleared, envVars, sent>>

\* The live incident is written to its row, with the label it was opened with.
UpdateLive ==
  /\ step = "scored" /\ ~result.opened
  /\ incident # NoIncident /\ incident.id # 0
  /\ Update(incident.id, AsRow(incident, NoLabel))
  /\ step' = AfterUpdate
  /\ UNCHANGED <<scorerVars, held, detached, ended, closing, nextId, cleared,
                 envVars, sent>>

\* No incident is live, or its INSERT failed and it has no id to update.
NothingToUpdate ==
  /\ step = "scored" /\ ~result.opened
  /\ incident # NoIncident => incident.id = 0
  /\ step' = AfterUpdate
  /\ UNCHANGED <<scorerVars, held, detached, ended, closing, storeVars, envVars, sent>>

NotifyMarksUnsent(delivered) ==
  /\ step = "notify"
  /\ sent' = [sent EXCEPT ![held.id] = IF delivered THEN @ + 1 ELSE @]
  /\ held' = [held EXCEPT !.notified = TRUE]
  /\ incident' = IF detached THEN incident ELSE held'
  /\ step' = "mark"
  /\ UNCHANGED <<above, below, result, detached, ended, closing, storeVars, envVars>>

\* The notifier may hold the notification back or fail to deliver it.
Notify(delivered) ==
  /\ step = "notify"
  /\ sent' = [sent EXCEPT ![held.id] = IF delivered THEN @ + 1 ELSE @]
  /\ held' = [held EXCEPT !.notified = delivered]
  /\ incident' = IF detached THEN incident ELSE held'
  /\ step' = IF delivered THEN "mark" ELSE "maintain"
  /\ UNCHANGED <<above, below, result, detached, ended, closing, storeVars, envVars>>

MarkNotified ==
  /\ step = "mark"
  /\ Update(held.id, AsRow(held, NoLabel))
  /\ step' = "maintain"
  /\ UNCHANGED <<scorerVars, held, detached, ended, closing, nextId, cleared,
                 envVars, sent>>

\* The scorer closed its incident: the row to close is read back ...
ReadClosing ==
  /\ step = "closing"
  /\ closing' = IF NewestOpen = 0 THEN NoClosing
                ELSE [id |-> NewestOpen, row |-> rows[NewestOpen]]
  /\ step' = IF NewestOpen = 0 THEN "maintain" ELSE "close"
  /\ UNCHANGED <<scorerVars, held, detached, ended, storeVars, envVars, sent>>

\* ... and written as it was read, with ended_at set.
WriteClosing ==
  /\ step = "close"
  /\ Update(closing.id, [closing.row EXCEPT !.open = FALSE])
  /\ step' = "maintain"
  /\ UNCHANGED <<scorerVars, held, detached, ended, closing, nextId, cleared,
                 envVars, sent>>

\* _maybe_maintain may prune closed incidents; which ones are past the retention
\* window is up to the clock.
Maintain ==
  /\ step = "maintain"
  /\ \E gone \in SUBSET {i \in Ids : Stored(i) /\ ~rows[i].open} :
       rows' = [i \in Ids |-> IF i \in gone THEN NoRow ELSE rows[i]]
  /\ EndTick
  /\ UNCHANGED <<above, below, incident, nextId, cleared, envVars, sent>>

\* A statement raises: _loop logs it and the rest of the tick is gone.
TickFails ==
  /\ step \in {"scored", "mark", "closing", "close"}
  /\ Spend("failure", MaxFailures)
  /\ EndTick
  /\ UNCHANGED <<above, below, incident, storeVars, up, labeller, wiping, calm, sent>>

Tick ==
  \/ \E f \in Frames : TickScore(f)
  \/ InsertIncident
  \/ UpdateLive
  \/ NothingToUpdate
  \/ \E delivered \in BOOLEAN : Notify(delivered)
  \/ MarkNotified
  \/ ReadClosing
  \/ WriteClosing
  \/ Maintain

-----------------------------------------------------------------------------
\* Agent.add_label, or the command line on the same database: the open
\* incident is read, then the label is inserted and copied to its row.
LabelRead ==
  /\ labeller = NoLabeller
  /\ Spend("label", MaxLabels)
  /\ labeller' = [at |-> "read", target |-> NewestOpen]
  /\ UNCHANGED <<scorerVars, storeVars, tickVars, up, wiping, calm, sent>>

LabelWrite(verdict) ==
  /\ labeller.at = "read"
  /\ rows' = IF Stored(labeller.target)
             THEN [rows EXCEPT ![labeller.target].label = verdict]
             ELSE rows
  /\ labeller' = NoLabeller
  /\ UNCHANGED <<scorerVars, nextId, cleared, tickVars, up, wiping, used, calm, sent>>

\* Database.wipe, one transaction.
EmptyTable == rows' = [i \in Ids |-> NoRow]

\* netpulse wipe, when no API answered it: the database is emptied from another
\* process, under an agent that may be running and is not told.
CliWipe ==
  /\ Spend("wipe", MaxWipes)
  /\ EmptyTable
  /\ cleared' = nextId
  /\ UNCHANGED <<scorerVars, nextId, tickVars, up, labeller, wiping, calm, sent>>

\* Agent.wipe: the same transaction ...
WipeStore ==
  /\ up /\ ~wiping
  /\ Spend("wipe", MaxWipes)
  /\ EmptyTable
  /\ wiping' = TRUE
  /\ UNCHANGED <<scorerVars, nextId, cleared, tickVars, up, labeller, calm, sent>>

WipeKeepsScorer ==
  /\ wiping
  /\ detached' = (held # NoIncident)
  /\ wiping' = FALSE
  /\ UNCHANGED <<scorerVars, step, held, ended, closing, storeVars,
                 up, labeller, used, calm, sent>>

\* ... then a new scorer takes the place of the old one, under a tick that may
\* be running.
WipeScorer ==
  /\ wiping
  /\ ForgetScorer
  /\ detached' = (held # NoIncident)
  /\ wiping' = FALSE
  /\ UNCHANGED <<result, step, held, ended, closing, storeVars,
                 up, labeller, used, calm, sent>>

\* The process dies between two statements: memory is gone, the table is not.
Crash ==
  /\ up
  /\ Spend("crash", MaxCrashes)
  /\ up' = FALSE
  /\ ForgetScorer
  /\ EndTick
  /\ wiping' = FALSE
  /\ UNCHANGED <<storeVars, labeller, calm, sent>>

\* Agent.__init__ restores baselines and switches, never an incident.
Restart ==
  /\ ~up
  /\ up' = TRUE
  /\ UNCHANGED <<scorerVars, storeVars, tickVars, labeller, wiping, used, calm, sent>>

\* The environment: from here on every frame is sighted and quiet.
CalmDown ==
  /\ ~calm
  /\ calm' = TRUE
  /\ UNCHANGED <<scorerVars, storeVars, tickVars, up, labeller, wiping, used, sent>>

StoreNext ==
  \/ Tick
  \/ TickFails
  \/ LabelRead
  \/ \E verdict \in Verdicts : LabelWrite(verdict)
  \/ CliWipe
  \/ WipeStore
  \/ WipeScorer
  \/ Crash
  \/ Restart
  \/ CalmDown

StoreSpec == StoreInit /\ [][StoreNext]_vars

\* The scoring loop keeps ticking and a dead agent is started again.
FairStoreSpec == StoreSpec /\ WF_vars(Tick) /\ WF_vars(Restart) /\ WF_vars(WipeScorer)

-----------------------------------------------------------------------------
\* Every variable of the agent and of the incidents table has its type.
StoreTypeOK ==
  /\ TypeOK
  /\ up \in BOOLEAN /\ detached \in BOOLEAN /\ wiping \in BOOLEAN /\ calm \in BOOLEAN
  /\ step \in Steps
  /\ held \in Incident \cup {NoIncident}
  /\ ended \in 0 .. MaxIncidents
  /\ closing \in [id : 0 .. MaxIncidents, row : Row \cup {NoRow}]
  /\ rows \in [Ids -> Row \cup {NoRow}]
  /\ nextId \in 1 .. MaxIncidents + 1 /\ cleared \in 1 .. MaxIncidents + 1
  /\ labeller \in [at : {"none", "read"}, target : 0 .. MaxIncidents]
  /\ sent \in [Ids -> Nat]
  /\ used \in [{"crash", "failure", "wipe", "label"} -> Nat]

\* Between two ticks the live incident has a row of its own that, as long as no
\* statement failed, shows what the scorer knows: a process that dies there loses
\* no escalation.  The one exception is an incident whose row the command line has
\* deleted under a running agent: it stays live in the scorer, nothing the agent
\* writes brings its row back, and it ends without one.
RowMirrorsIncident ==
  step = "idle" /\ ~wiping /\ incident # NoIncident /\ used["failure"] = 0 =>
    IF incident.id \in Deleted
    THEN ~Stored(incident.id)
    ELSE /\ Stored(incident.id)
         /\ rows[incident.id] = AsRow(incident, rows[incident.id].label)

\* The tick that closes an incident reads the row back by "the newest open one";
\* that is the row of the incident the scorer closed, orphans or not.
CloseHitsItsOwnRow ==
  step = "close" /\ ended # 0 => closing.id = ended

\* Every open row but one was left behind by a fault, one row per fault: ticks
\* by themselves never leave an incident open that the scorer has given up.
OrphansBounded ==
  Cardinality(OpenRows) <= 1 + used["crash"] + used["failure"] + used["wipe"]

\* A user is interrupted at most once for an incident, and a row marked as
\* notified is one for which that really happened.
NotifiedOnce ==
  \A i \in Ids : /\ sent[i] <= 1
                 /\ Stored(i) /\ rows[i].notified => sent[i] = 1

\* Nothing has crashed, failed or been wiped.
FaultFree == \A k \in {"crash", "failure", "wipe"} : used[k] = 0

\* A label given for an open incident stays on its row: test_label_attaches_to_
\* active_incident reads user_label back, operations.md says it "is stored
\* against whatever incident was open".
LabelSticks ==
  [][ \A i \in Ids : Stored(i) /\ rows[i].label # NoLabel /\ rows'[i] # NoRow
        => rows'[i].label # NoLabel ]_vars

\* Once the network stays quiet and measured, every open incident is closed,
\* unless a fault has made an orphan of one.
CalmClosesEverything == calm ~> OpenRows = {} \/ ~FaultFree
=============================================================================
