------------------------------- MODULE Alerts -------------------------------
(***************************************************************************)
(* The scorer and the notifier together: what the user is interrupted      *)
(* with.  As in Agent._persist_incidents, a notification is sent when an   *)
(* incident opens and at no other time.  A frame is scored once per tick   *)
(* of the clock.                                                           *)
(***************************************************************************)
EXTENDS Scorer, Integers, Sequences

CONSTANTS
  NeverSent, Settings, Day, MaxTime,
  MaxRestarts   \* bound: restarts of the agent

ASSUME AlertsAssumption ==
  /\ MaxRestarts \in Nat
  /\ Day \in Nat \ {0} /\ MaxTime \in Nat
  /\ Settings \subseteq [enabled : BOOLEAN, floor : Severity, cooldown : Nat \ {0},
                         start : 0 .. Day - 1, end : 0 .. Day - 1]
  /\ NeverSent \notin [ts : Nat, severity : Severity]

VARIABLES
  now, settings, lastSent, sent, seen,
  backend,    \* Notifier.backend
  restarts    \* restarts so far

bellVars == <<settings, lastSent, sent, seen, backend>>
vars == <<scorerVars, now, bellVars, restarts>>

Bell == INSTANCE Notifier

AlertsInit == Init /\ Bell!Init /\ backend \in Bell!Backends /\ restarts = 0

\* The notification names the layer of the new incident and the severity of the
\* frame that opened it.
NotifyOpened(f, delivered) ==
  IF result'.opened
    THEN Bell!Deliver(incident'.layer, f.severity, delivered)
    ELSE UNCHANGED <<lastSent, sent>>

Tick(f, delivered) ==
  /\ now < MaxTime /\ now' = now + 1
  /\ Observe(f)
  /\ NotifyOpened(f, delivered)
  /\ UNCHANGED <<settings, seen, backend, restarts>>

\* Nothing was measured: no frame is scored, nothing opens.
EmptyTick ==
  /\ now < MaxTime /\ now' = now + 1
  /\ result' = Unchanged
  /\ UNCHANGED <<above, below, incident, bellVars, restarts>>

\* Neither the incident nor _last_sent survives the process, and the new one looks
\* for a backend again.
Restart ==
  /\ restarts < MaxRestarts /\ restarts' = restarts + 1
  /\ above' = 0 /\ below' = 0 /\ incident' = NoIncident /\ result' = Unchanged
  /\ Bell!Recreate
  /\ backend' \in Bell!Backends

AlertsNext ==
  \/ \E f \in Frames, delivered \in Bell!Answers(backend) : Tick(f, delivered)
  \/ EmptyTick
  \/ Restart

AlertsSpec == AlertsInit /\ [][AlertsNext]_vars

-----------------------------------------------------------------------------

\* The user hears of an episode once: between two notifications of one agent,
\* whatever their layers, lies at least a full quiet run and a full alerting run.
OneAlertPerEpisode ==
  \A i, j \in DOMAIN sent :
    seen < i /\ i < j => sent[j].ts >= sent[i].ts + OpenAfter + CloseAfter

\* Of what the agent lets through, one layer interrupts once per level and
\* cooldown (Notifier.should_send).
OncePerLevel == Bell!OncePerLevel

\* At every hour the agent reaches, only critical incidents are announced in the
\* quiet hours, and one that opens in the daytime is announced unless the user has
\* heard lately of one as severe (Notifier.should_send, Notifier._in_quiet_hours);
\* where notifications are lines in a log, so is this one.
QuietWithReason ==
  /\ Bell!QuietWithReason
  /\ LET opening == now - 1
     IN  /\ result.opened /\ backend = "log"
         /\ settings.enabled /\ incident.severity >= settings.floor /\ ~Bell!Night(opening)
         => \E i \in DOMAIN sent :
              /\ seen < i /\ sent[i].layer = incident.layer
              /\ sent[i].severity >= incident.severity /\ opening < sent[i].ts + settings.cooldown
=============================================================================
