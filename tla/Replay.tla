------------------------------- MODULE Replay -------------------------------
(***************************************************************************)
(* The replay harness of eval/replay.py next to the agent it stands for:   *)
(* both watch the same scorer.  The harness counts an alert for an         *)
(* incident that opens once the scorer is warm, unless one on the same     *)
(* layer was counted within the cooldown; the agent asks the notifier.     *)
(***************************************************************************)
EXTENDS Alerts, FiniteSets

CONSTANTS
  NoAlert,  \* no entry in last_alert_per_layer
  WarmUps   \* bound: when the scorer may be warm

ASSUME ReplayAssumption == WarmUps \subseteq Nat /\ NoAlert \notin Nat

VARIABLES
  warmFrom,   \* the first tick that finds the scorer warm
  lastAlert,  \* last_alert_per_layer
  alerts      \* outcome.alerts, by layer

replayVars == <<vars, warmFrom, lastAlert, alerts>>

ReplayInit ==
  /\ AlertsInit
  /\ warmFrom \in WarmUps
  /\ lastAlert = [layer \in Layers |-> NoAlert]
  /\ alerts = [layer \in Layers |-> 0]

RepeatedAnywhere(layer) ==
  \E other \in Layers : lastAlert[other] # NoAlert /\ now - lastAlert[other] < settings.cooldown
\* A repeat within the cooldown for the same layer collapses into the first.
Repeated(layer) == lastAlert[layer] # NoAlert /\ now - lastAlert[layer] < settings.cooldown

\* replay_run, after the scorer has observed a sample.
Tally ==
  IF result'.opened /\ now >= warmFrom /\ ~Repeated(incident'.layer)
    THEN /\ lastAlert' = [lastAlert EXCEPT ![incident'.layer] = now]
         /\ alerts' = [alerts EXCEPT ![incident'.layer] = @ + 1]
    ELSE UNCHANGED <<lastAlert, alerts>>

\* A recording is of one life of an agent; the next one is counted afresh.
NextRecording ==
  /\ Restart
  /\ lastAlert' = [layer \in Layers |-> NoAlert]
  /\ alerts' = [layer \in Layers |-> 0]
  /\ UNCHANGED warmFrom

ReplayNext ==
  \/ \E f \in Frames, delivered \in Bell!Answers(backend) : Tick(f, delivered) /\ Tally /\ UNCHANGED warmFrom
  \/ EmptyTick /\ UNCHANGED <<warmFrom, lastAlert, alerts>>
  \/ NextRecording

ReplaySpec == ReplayInit /\ [][ReplayNext]_replayVars

-----------------------------------------------------------------------------
\* What the user has been shown of a layer by a warm scorer in this life.
Shown(layer) == {i \in DOMAIN sent : seen < i /\ sent[i].layer = layer /\ sent[i].ts >= warmFrom}

\* replay.py:37, alerts are counted as "what a user would actually be shown".  The
\* notifier lets escalations through a cooldown, the harness does not, so a layer
\* interrupts more often than it is counted: but never more often than once per
\* count and level of alert, whatever fails to be delivered.
CountBoundsInterruptions ==
  \A layer \in Layers :
    Cardinality(Shown(layer)) <= alerts[layer] * Cardinality(Risk .. Critical)
=============================================================================
