------------------------------ MODULE Notifier ------------------------------
(***************************************************************************)
(* The policy of notify/notifier.py: which notification may interrupt the  *)
(* user.  Only the scoring loop calls notify, so the decision and the      *)
(* record of a delivery are one step.  Module Alerts says who calls it.    *)
(***************************************************************************)
EXTENDS Naturals, Sequences

CONSTANTS
  Layers,
  NeverSent,  \* no entry in _last_sent
  Settings,   \* the NotificationConfigs to be looked at
  Day,        \* hours of a day, the clock counts hours
  MaxTime     \* bound: the clock

Critical == 3
Severity == 0 .. Critical

\* default_backend: the notifications of the desktop, or the log where it has none.
Backends == {"desktop", "log"}

\* Backend.send: a line in the log is written, a command may fail for many reasons.
Answers(backend) == IF backend = "log" THEN {TRUE} ELSE BOOLEAN

VARIABLES
  now,       \* the wall clock
  settings,  \* config.notifications
  lastSent,  \* Notifier._last_sent
  sent,      \* history: everything delivered
  seen       \* history: how much of it by earlier runs of the agent

-----------------------------------------------------------------------------
QuietThroughEnd(t) ==
  LET hour == t % Day
  IN  IF settings.start < settings.end
        THEN settings.start <= hour /\ hour <= settings.end
        ELSE settings.start # settings.end /\ (hour >= settings.start \/ hour <= settings.end)
\* _in_quiet_hours: an empty window, one within a day, or one across midnight.
InQuietHours(t) ==
  LET hour == t % Day
  IN  IF settings.start < settings.end
        THEN settings.start <= hour /\ hour < settings.end
        ELSE settings.start # settings.end /\ (hour >= settings.start \/ hour < settings.end)

CoolingLoosely(layer, severity) ==
  /\ lastSent[layer] # NeverSent
  /\ now < lastSent[layer].ts + settings.cooldown
  /\ severity < lastSent[layer].severity
\* The layer interrupted lately and this is no escalation.
Cooling(layer, severity) ==
  /\ lastSent[layer] # NeverSent
  /\ now < lastSent[layer].ts + settings.cooldown
  /\ severity <= lastSent[layer].severity

\* should_send
ShouldSend(layer, severity) ==
  /\ settings.enabled
  /\ severity >= settings.floor
  /\ InQuietHours(now) => severity = Critical
  /\ ~Cooling(layer, severity)

\* notify, after should_send has said yes: only a delivery is remembered.
Send(layer, severity, delivered) ==
  IF delivered
    THEN /\ lastSent' = [lastSent EXCEPT ![layer] = [ts |-> now, severity |-> severity]]
         /\ sent' = Append(sent, [layer |-> layer, severity |-> severity, ts |-> now])
    ELSE UNCHANGED <<lastSent, sent>>

\* notify; delivered is what the backend answers.
Deliver(layer, severity, delivered) ==
  IF ShouldSend(layer, severity) THEN Send(layer, severity, delivered)
                                 ELSE UNCHANGED <<lastSent, sent>>

-----------------------------------------------------------------------------
Init ==
  /\ now = 0
  /\ settings \in Settings
  /\ lastSent = [layer \in Layers |-> NeverSent]
  /\ sent = << >>
  /\ seen = 0

\* A new Notifier remembers no delivery.
Recreate ==
  /\ lastSent' = [layer \in Layers |-> NeverSent]
  /\ seen' = Len(sent)
  /\ UNCHANGED <<now, settings, sent>>

-----------------------------------------------------------------------------

\* Within one cooldown of one run of the agent a layer interrupts at most once
\* per level of severity, and only upwards, whichever of its notifications.
OncePerLevel ==
  \A i, j \in DOMAIN sent :
    seen < i /\ i < j /\ sent[i].layer = sent[j].layer /\ sent[j].ts < sent[i].ts + settings.cooldown
      => sent[j].severity > sent[i].severity

\* t is less than a window's length past the start of the last window, counting
\* hours around the clock.
Night(t) ==
  (t + Day - settings.start) % Day < (settings.end + Day - settings.start) % Day

\* Night is kept, and nothing else holds a notification back: for every pair of
\* hours, empty and wrapping windows included, only critical ones come in the hours
\* from start to end around the clock; and if one at or over the floor would be
\* suppressed in the daytime, the user has seen one as severe about the same layer
\* within the cooldown.
QuietWithReason ==
  /\ \A i \in DOMAIN sent : Night(sent[i].ts) => sent[i].severity = Critical
  /\ \A layer \in Layers, severity \in settings.floor .. Critical :
       settings.enabled /\ ~Night(now) /\ ~ShouldSend(layer, severity)
         => \E i \in DOMAIN sent : /\ seen < i /\ sent[i].layer = layer /\ sent[i].severity >= severity
                                   /\ now < sent[i].ts + settings.cooldown
=============================================================================
