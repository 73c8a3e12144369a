------------------------------ MODULE Control ------------------------------
(***************************************************************************)
(* The two switches a user has, probing and learning, each kept twice: in  *)
(* the running agent (core/agent.py) and in the kv table (store/db.py),    *)
(* from which a new agent restores it.  Requests come over the API, where  *)
(* each is served by a thread of its own, or, when no agent answers, from  *)
(* the command line straight to the table (cli.py).  With them goes what   *)
(* the scorer has learned: in memory, and in a state file that the scoring *)
(* loop writes in place, a wipe deletes and a new agent loads.             *)
(***************************************************************************)
EXTENDS Naturals

CONSTANTS
  Requesters,     \* API requests served at the same time
  NoSwitch,
  MaxCrashes,     \* bound: times the agent ends and starts again
  MaxUnanswered,  \* bound: commands that a running agent does not answer
  MaxWipes,       \* bound: wipes
  MaxLearned      \* bound: what a scorer learns in one life

ASSUME ControlAssumption ==
  /\ MaxCrashes \in Nat /\ MaxUnanswered \in Nat /\ MaxWipes \in Nat /\ MaxLearned \in Nat
  /\ NoSwitch \notin {"paused", "learning"}

Switches == {"paused", "learning"}
\* What an empty kv table means.
Default == [s \in Switches |-> s = "learning"]

VARIABLES
  up,       \* an agent is running
  live,     \* budget.paused and scorer.learn of that agent
  stored,   \* what the kv table says
  request,  \* the switch each request has set and has still to store
  wiping,   \* the step Agent.wipe has still to do
  disputed, \* history: switches that two requests, a bypassed agent or a wipe
            \* have set since the last request that had them to itself
  used,     \* crashes, unanswered calls and wipes so far
  era,      \* how often the data has been wiped
  models,   \* what the scorer has learned, and since which wipe
  file,     \* the state file
  saving,   \* the save of the scoring loop that is under way
  stopping, \* Agent.stop waits for its save
  tainted,  \* history: the last wipe met a save, a crash or a running agent
            \* that did not answer, and nothing has repaired it since
  kept,     \* history: what was saved last and not wiped since
  torn      \* history: the agent died while the file was half written

switchVars == <<up, live, stored, request, disputed>>
fileVars == <<models, file, saving, stopping, kept, torn>>
vars == <<switchVars, wiping, used, era, fileVars, tainted>>

Idle == [switch |-> NoSwitch, on |-> FALSE]
Nothing == [era |-> 0, n |-> 0]
NoSave == [step |-> "idle", content |-> Nothing]
NoFile == [state |-> "none", content |-> Nothing]
Whole(content) == [state |-> "whole", content |-> content]
Half == [NoFile EXCEPT !.state = "half"]

Bound == [crash |-> MaxCrashes, unanswered |-> MaxUnanswered, wipe |-> MaxWipes]
Spend(kinds) ==
  /\ \A k \in kinds : used[k] < Bound[k]
  /\ used' = [k \in DOMAIN used |-> IF k \in kinds THEN used[k] + 1 ELSE used[k]]

-----------------------------------------------------------------------------
Init ==
  /\ up = TRUE
  /\ live = Default
  /\ stored = Default
  /\ request = [r \in Requesters |-> Idle]
  /\ wiping = "no"
  /\ disputed = {}
  /\ used = [k \in DOMAIN Bound |-> 0]
  /\ era = 0 /\ models = Nothing /\ file = NoFile /\ saving = NoSave
  /\ stopping = FALSE /\ tainted = FALSE /\ torn = FALSE /\ kept = Nothing

\* Agent.pause, resume and set_learning: first the running agent ...
SetLive(r, s, on) ==
  /\ up /\ ~stopping /\ request[r] = Idle
  /\ live' = [live EXCEPT ![s] = on]
  /\ request' = [request EXCEPT ![r] = [switch |-> s, on |-> on]]
  /\ disputed' = IF \E other \in Requesters : request[other].switch = s
                 THEN disputed \cup {s} ELSE disputed \ {s}
  /\ UNCHANGED <<up, stored, wiping, used, era, fileVars, tainted>>

\* ... then the table.
Store(r) ==
  /\ up /\ request[r] # Idle
  /\ stored' = [stored EXCEPT ![request[r].switch] = request[r].on]
  /\ request' = [request EXCEPT ![r] = Idle]
  /\ UNCHANGED <<up, live, wiping, disputed, used, era, fileVars, tainted>>

\* _api_call without an answer: no agent is running, or one runs without its API
\* (--no-api, or it is still starting), or the call took longer than its timeout.
Unanswered == IF up THEN {"unanswered"} ELSE {}

\* _toggle_probing and cmd_learning when the API does not answer.
CliStore(s, on) ==
  /\ Spend(Unanswered)
  /\ stored' = [stored EXCEPT ![s] = on]
  /\ disputed' = IF up THEN disputed \cup {s} ELSE disputed
  /\ UNCHANGED <<up, live, request, wiping, era, fileVars, tainted>>

\* cmd_wipe when the API does not answer: the tables and nothing else.
CliWipe ==
  /\ Spend(Unanswered \cup {"wipe"})
  /\ era' = era + 1
  /\ tainted' = TRUE
  /\ UNCHANGED <<switchVars, wiping, fileVars>>

-----------------------------------------------------------------------------
\* Agent.wipe: the kv table is not among the emptied ones ...
WipeStore ==
  /\ up /\ ~stopping /\ wiping = "no"
  /\ Spend({"wipe"})
  /\ wiping' = "file"
  /\ era' = era + 1
  /\ tainted' = (saving # NoSave)
  /\ UNCHANGED <<switchVars, fileVars>>

\* ... then the file; a file that is open is unlinked under its writer, or stays
\* where the system does not allow that ...
WipeFile(unlinked) ==
  /\ up /\ wiping = "file"
  /\ saving.step # "open" => unlinked
  /\ wiping' = "scorer"
  /\ file' = IF unlinked THEN NoFile ELSE file
  /\ saving' = IF unlinked /\ saving.step = "open" THEN [saving EXCEPT !.step = "unlinked"] ELSE saving
  /\ kept' = IF unlinked THEN Nothing ELSE kept
  /\ torn' = (torn /\ ~unlinked)
  /\ UNCHANGED <<switchVars, used, era, models, stopping, tainted>>

WipeKeepsScorer ==
  /\ up /\ wiping = "scorer"
  /\ wiping' = "no"
  /\ UNCHANGED <<switchVars, used, era, fileVars, tainted>>

\* ... and the new scorer learns.
WipeScorer ==
  /\ up /\ wiping = "scorer"
  /\ live' = [live EXCEPT !["learning"] = TRUE]
  /\ models' = [era |-> era, n |-> 0]
  /\ wiping' = "no"
  /\ disputed' = disputed \cup {"learning"}
  /\ UNCHANGED <<up, stored, request, used, era, file, saving, stopping, tainted, kept, torn>>

-----------------------------------------------------------------------------
\* A tick: the scorer learns from what it observes.
Learn ==
  /\ up /\ ~stopping /\ saving = NoSave
  /\ live["learning"] /\ models.n < MaxLearned
  /\ models' = [models EXCEPT !.n = @ + 1]
  /\ UNCHANGED <<switchVars, wiping, used, era, file, saving, stopping, tainted, kept, torn>>

\* _save_state, by the scoring loop or by Agent.stop after the loop has ended: the
\* text is made, the file is opened, which empties it, and written.
MakeText(stop) ==
  /\ up /\ ~stopping /\ saving = NoSave
  /\ stop => wiping = "no" /\ \A r \in Requesters : request[r] = Idle
  /\ stopping' = stop
  /\ saving' = [step |-> "made", content |-> models]
  /\ tainted' = (tainted \/ wiping # "no")
  /\ UNCHANGED <<switchVars, wiping, used, era, models, file, kept, torn>>

OpenFile ==
  /\ up /\ saving.step = "made"
  /\ file' = Half
  /\ saving' = [saving EXCEPT !.step = "open"]
  /\ UNCHANGED <<switchVars, wiping, used, era, models, stopping, tainted, kept, torn>>

\* A save that a stop waits for ends the agent.
WriteFile ==
  /\ up /\ saving.step \in {"open", "unlinked"}
  /\ file' = IF saving.step = "open" THEN Whole(saving.content) ELSE file
  /\ kept' = IF saving.step = "open" THEN saving.content ELSE kept
  /\ torn' = (torn /\ saving.step # "open")
  /\ saving' = NoSave
  /\ tainted' = (tainted /\ ~(saving.step = "open" /\ wiping = "no"
                              /\ saving.content.era = era /\ models.era = era))
  /\ stopping' = FALSE
  /\ IF stopping THEN up' = FALSE /\ live' = Default /\ disputed' = {} /\ models' = Nothing
                 ELSE UNCHANGED <<up, live, disputed, models>>
  /\ UNCHANGED <<stored, request, wiping, used, era>>

\* The agent dies, with the requests it was serving.
Crash ==
  /\ up
  /\ Spend({"crash"})
  /\ up' = FALSE
  /\ live' = Default
  /\ request' = [r \in Requesters |-> Idle]
  /\ wiping' = "no" /\ saving' = NoSave /\ stopping' = FALSE
  /\ models' = Nothing
  /\ disputed' = {}
  /\ tainted' = (tainted \/ wiping # "no")
  /\ torn' = (torn \/ saving.step = "open")
  /\ UNCHANGED <<stored, era, file, kept>>

\* _restore_pause_state changes a switch of a new agent only where the table says
\* something else than the default.
RestorePauseOnly == [Default EXCEPT !["paused"] = stored["paused"]]

Restored == [s \in Switches |-> IF stored[s] # Default[s] THEN stored[s] ELSE Default[s]]

LoadedNothing == [era |-> era, n |-> 0]

\* _restore_state takes the file unless there is none or it cannot be parsed.
Loaded == IF file.state = "whole" THEN file.content ELSE [era |-> era, n |-> 0]

\* A new agent.
Restore ==
  /\ ~up
  /\ up' = TRUE
  /\ live' = Restored
  /\ models' = Loaded
  /\ UNCHANGED <<stored, request, disputed, wiping, used, era, file, saving, stopping, tainted, kept, torn>>

Next ==
  \/ \E r \in Requesters : \/ \E s \in Switches, on \in BOOLEAN : SetLive(r, s, on)
                           \/ Store(r)
  \/ \E s \in Switches, on \in BOOLEAN : CliStore(s, on)
  \/ CliWipe \/ WipeStore \/ WipeScorer
  \/ \E unlinked \in BOOLEAN : WipeFile(unlinked)
  \/ Learn \/ OpenFile \/ WriteFile
  \/ \E stop \in BOOLEAN : MakeText(stop)
  \/ Crash \/ Restore

Spec == Init /\ [][Next]_vars

-----------------------------------------------------------------------------
\* Every variable has its type, and nothing an agent was doing outlives it.
TypeOK ==
  /\ up \in BOOLEAN /\ wiping \in {"no", "file", "scorer"} /\ stopping \in BOOLEAN
  /\ ~up => /\ request = [r \in Requesters |-> Idle] /\ wiping = "no"
            /\ saving = NoSave /\ ~stopping
  /\ live \in [Switches -> BOOLEAN] /\ stored \in [Switches -> BOOLEAN]
  /\ disputed \subseteq Switches
  /\ request \in [Requesters -> [switch : Switches \cup {NoSwitch}, on : BOOLEAN]]
  /\ used \in [DOMAIN Bound -> Nat] /\ era \in Nat
  /\ models \in [era : Nat, n : Nat] /\ kept \in [era : Nat, n : Nat]
  /\ file \in [state : {"none", "half", "whole"}, content : [era : Nat, n : Nat]]
  /\ saving \in [step : {"idle", "made", "open", "unlinked"}, content : [era : Nat, n : Nat]]
  /\ tainted \in BOOLEAN /\ torn \in BOOLEAN

AtRest == up /\ wiping = "no" /\ \A r \in Requesters : request[r] = Idle

\* privacy.md:108, "netpulse pause stops all of it immediately, and the pause survives
\* a restart", and operations.md:21, "netpulse learning off  # keep scoring, stop
\* updating baselines": when no request is being served, each switch of the running
\* agent is what the next one will restore.  What breaks this is overlapping requests,
\* an agent that did not answer or, for learning, a wipe; a restart repairs it.
SwitchesHold ==
  AtRest => \A s \in Switches \ disputed : live[s] = stored[s]

\* privacy.md:156, a wipe "deletes the saved model state": what was learned before
\* it is in no scorer, no save under way and no file, after any later restart, as
\* long as the agent itself wiped and neither a save nor a crash came in between;
\* and if one did, the next save or the next wipe repairs it.
WipedStaysWiped ==
  up /\ wiping = "no" /\ ~tainted =>
    /\ models.era = era
    /\ file.state = "whole" => file.content.era = era
    /\ saving # NoSave => saving.content.era = era

\* An agent knows what was saved last, however it ended; only a crash in the
\* middle of a save, which writes the file in place, costs the older save too.
SavesSurvive ==
  up /\ ~torn => models.era > kept.era \/ (models.era = kept.era /\ models.n >= kept.n)
=============================================================================
