----------------------------- MODULE Scheduler -----------------------------
(***************************************************************************)
(* core/scheduler.py with the part of core/agent.py that drives it: one    *)
(* worker thread per collector, the scoring loop, which wakes workers on   *)
(* suspicion and is also their watchdog, and Agent.stop.  An action is     *)
(* what a thread does between two points where another thread can tell.    *)
(* How long a worker rests (interval, jitter, battery, backoff) is left    *)
(* out: a rest may end at any time.                                        *)
(***************************************************************************)
EXTENDS Naturals

CONSTANTS
  Collectors,
  Steady,        \* collectors whose every result has values (counters)
  Mortal,        \* collectors whose thread may die of an escaped exception
  OnSuspicion,   \* the collectors that tick triggers: path and captive
  MaxDeaths,     \* bound: threads that die
  MaxFailures,   \* bound: ticks that raise and threads that cannot start
  MaxTriggers,   \* bound: rises of severity
  MaxTimeouts    \* bound: joins that time out

ASSUME SchedulerAssumption ==
  /\ Steady \subseteq Collectors /\ Mortal \subseteq Collectors
  /\ OnSuspicion \subseteq Collectors
  /\ MaxDeaths \in Nat /\ MaxFailures \in Nat
  /\ MaxTriggers \in Nat /\ MaxTimeouts \in Nat

VARIABLES
  at,         \* where the worker registered for each collector is
  wake,       \* its CollectorWorker.wake
  owed,       \* history: triggered, and no collect has begun since
  late,       \* history: its collects begun after the stop event was set
  behind,     \* history: the collectors whose worker was registered after that
  started,    \* WorkerSupervisor.started
  stopEvent,  \* WorkerSupervisor.stop_event
  pending,    \* the assembler holds values
  loop,       \* where the scoring loop is
  todo,       \* collectors it has still to trigger or to check
  due,        \* MAINTENANCE_INTERVAL_S has passed since the last maintenance
  halt,       \* Agent._stop
  stopper,    \* where Agent.stop is
  joins,      \* collectors whose worker it has still to join
  used        \* faults and triggers so far

workerVars == <<at, wake, owed, late, behind>>
flagVars == <<started, stopEvent>>
loopVars == <<loop, todo, due>>
stopVars == <<halt, stopper, joins>>
vars == <<workerVars, flagVars, pending, loopVars, stopVars, used>>

\* "none": no worker is registered; "new": registered, its thread not started yet;
\* "unstarted": the thread could not start.
Running == {"stagger", "test", "clear", "collect", "rest"}
Unborn == {"new", "unstarted"}
Points == {"none", "exited", "dead"} \cup Unborn \cup Running
Alive(c) == at[c] \in Running

Spend(kind, bound) == used[kind] < bound /\ used' = [used EXCEPT ![kind] = @ + 1]

\* A step of the worker of c that leaves everyone else alone.
Goto(c, point) ==
  /\ at' = [at EXCEPT ![c] = point]
  /\ UNCHANGED <<behind, flagVars, loopVars, stopVars, used>>

-----------------------------------------------------------------------------
Init ==
  /\ at = [c \in Collectors |-> "none"]
  /\ wake = [c \in Collectors |-> FALSE]
  /\ owed = [c \in Collectors |-> FALSE]
  /\ late = [c \in Collectors |-> 0] /\ behind = {}
  /\ started = FALSE /\ stopEvent = FALSE
  /\ pending = FALSE
  /\ loop = "off" /\ todo = {} /\ due = TRUE
  /\ halt = FALSE /\ stopper = "off" /\ joins = {}
  /\ used = [k \in {"death", "failure", "trigger", "timeout"} |-> 0]

\* Agent.start: every worker is spawned before the scoring loop exists.
Start ==
  /\ loop = "off"
  /\ started' = TRUE
  /\ stopEvent' = FALSE
  /\ at' = [c \in Collectors |-> "stagger"]
  /\ loop' = "sleep"
  /\ UNCHANGED <<wake, owed, late, behind, pending, todo, due, stopVars, used>>

-----------------------------------------------------------------------------
\* CollectorWorker.run, from its first wait to its return.
Stagger(c) ==
  /\ at[c] = "stagger"
  /\ Goto(c, IF stopEvent THEN "exited" ELSE "test")
  /\ UNCHANGED <<wake, owed, late, pending>>

LoopTestNever(c) ==
  /\ at[c] = "test"
  /\ Goto(c, "clear")
  /\ UNCHANGED <<wake, owed, late, pending>>

LoopTest(c) ==
  /\ at[c] = "test"
  /\ Goto(c, IF stopEvent THEN "exited" ELSE "clear")
  /\ UNCHANGED <<wake, owed, late, pending>>

\* The wake flag is cleared and only then the collect begins.
BeginCollect(c) ==
  /\ at[c] = "clear"
  /\ Goto(c, "collect")
  /\ wake' = [wake EXCEPT ![c] = FALSE]
  /\ owed' = [owed EXCEPT ![c] = FALSE]
  /\ late' = [late EXCEPT ![c] = IF stopEvent THEN @ + 1 ELSE @]
  /\ UNCHANGED pending

EndCollectClears(c) ==
  /\ at[c] = "collect"
  /\ pending' = TRUE
  /\ Goto(c, "rest")
  /\ wake' = [wake EXCEPT ![c] = FALSE]
  /\ UNCHANGED <<owed, late>>

\* A result goes to the assembler if it has values; that of a failed, skipped
\* or raising collect has none.
EndCollect(c) ==
  /\ at[c] = "collect"
  /\ \E values \in BOOLEAN : /\ c \in Steady => values
                             /\ pending' = (pending \/ values)
  /\ Goto(c, "rest")
  /\ UNCHANGED <<wake, owed, late>>

\* A rest is cut short by the stop event or by a trigger, or it is over.
RestStopped(c) ==
  /\ at[c] = "rest" /\ stopEvent
  /\ Goto(c, "exited")
  /\ UNCHANGED <<wake, owed, late, pending>>

RestWoken(c) ==
  /\ at[c] = "rest" /\ wake[c]
  /\ Goto(c, "test")
  /\ UNCHANGED <<wake, owed, late, pending>>

RestOver(c) ==
  /\ at[c] = "rest"
  /\ Goto(c, "test")
  /\ UNCHANGED <<wake, owed, late, pending>>

Worker(c) ==
  \/ Stagger(c) \/ LoopTest(c) \/ BeginCollect(c) \/ EndCollect(c)
  \/ RestStopped(c) \/ RestWoken(c) \/ RestOver(c)

\* An exception that run does not contain ends the thread.
Die(c) ==
  /\ Alive(c) /\ c \in Mortal
  /\ Spend("death", MaxDeaths)
  /\ at' = [at EXCEPT ![c] = "dead"]
  /\ UNCHANGED <<wake, owed, late, behind, flagVars, pending, loopVars, stopVars>>

-----------------------------------------------------------------------------
\* Agent._loop.  A tick without values returns at once: a stutter.  One with
\* values scores them; a rise of the severity triggers the slow probes.
BeginTick(rose) ==
  /\ loop = "sleep" /\ ~halt /\ pending
  /\ pending' = FALSE
  /\ IF rose THEN Spend("trigger", MaxTriggers) /\ todo' = OnSuspicion
             ELSE todo' = {} /\ UNCHANGED used
  /\ loop' = "tick"
  /\ UNCHANGED <<workerVars, flagVars, due, stopVars>>

\* WorkerSupervisor.trigger for one name.
Trigger(c) ==
  /\ loop = "tick" /\ c \in todo
  /\ todo' = todo \ {c}
  /\ wake' = [wake EXCEPT ![c] = @ \/ Alive(c)]
  /\ owed' = [owed EXCEPT ![c] = @ \/ Alive(c)]
  /\ UNCHANGED <<at, late, behind, flagVars, pending, loop, due, stopVars, used>>

\* _maybe_maintain, up to WorkerSupervisor.check.
Maintain ==
  /\ loop = "tick" /\ todo = {}
  /\ due' = FALSE
  /\ IF due /\ started /\ ~stopEvent
       THEN loop' = "check" /\ todo' = Collectors
       ELSE loop' = "sleep" /\ todo' = {}
  /\ UNCHANGED <<workerVars, flagVars, pending, stopVars, used>>

CheckRegistered(c) ==
  /\ loop = "check" /\ c \in todo
  /\ todo' = todo \ {c}
  /\ UNCHANGED <<workerVars, flagVars, pending, loop, due, stopVars, used>>

CheckUnstarted(c) ==
  /\ loop = "check" /\ c \in todo
  /\ todo' = todo \ {c}
  /\ at' = [at EXCEPT ![c] = IF Alive(c) THEN @ ELSE "new"]
  /\ UNCHANGED <<wake, owed, late, behind, flagVars, pending, loop, due, stopVars, used>>

\* WorkerSupervisor.check for one collector: a dead worker is replaced in the
\* table, then the new thread is started.  The stop event is not looked at again.
CheckOne(c) ==
  /\ loop = "check" /\ c \in todo
  /\ IF Alive(c)
       THEN todo' = todo \ {c} /\ UNCHANGED <<workerVars, loop>>
       ELSE /\ at' = [at EXCEPT ![c] = "new"]
            /\ wake' = [wake EXCEPT ![c] = FALSE]
            /\ owed' = [owed EXCEPT ![c] = FALSE]
            /\ late' = [late EXCEPT ![c] = 0]
            /\ behind' = IF stopEvent THEN behind \cup {c} ELSE behind
            /\ loop' = "spawn"
            /\ UNCHANGED todo
  /\ UNCHANGED <<flagVars, pending, due, stopVars, used>>

SpawnCollects(c) ==
  /\ loop = "spawn" /\ at[c] = "new" /\ c \in todo
  /\ at' = [at EXCEPT ![c] = "clear"]
  /\ todo' = todo \ {c}
  /\ loop' = "check"
  /\ UNCHANGED <<wake, owed, late, behind, flagVars, pending, due, stopVars, used>>

SpawnOne(c) ==
  /\ loop = "spawn" /\ at[c] = "new" /\ c \in todo
  /\ at' = [at EXCEPT ![c] = "stagger"]
  /\ todo' = todo \ {c}
  /\ loop' = "check"
  /\ UNCHANGED <<wake, owed, late, behind, flagVars, pending, due, stopVars, used>>

CheckDone ==
  /\ loop = "check" /\ todo = {}
  /\ loop' = "sleep"
  /\ UNCHANGED <<workerVars, flagVars, pending, todo, due, stopVars, used>>

\* Any of it raises (the store, a thread that cannot start): _loop logs it and
\* the rest of the tick is gone, maintenance included.
TickFails ==
  /\ loop \in {"tick", "spawn"}
  /\ Spend("failure", MaxFailures)
  /\ loop' = "sleep" /\ todo' = {}
  /\ at' = [c \in Collectors |-> IF at[c] = "new" THEN "unstarted" ELSE at[c]]
  /\ UNCHANGED <<wake, owed, late, behind, flagVars, pending, due, stopVars>>

LoopExit ==
  /\ loop = "sleep" /\ halt
  /\ loop' = "exited"
  /\ UNCHANGED <<workerVars, flagVars, pending, todo, due, stopVars, used>>

Loop ==
  \/ \E rose \in BOOLEAN : BeginTick(rose)
  \/ \E c \in Collectors : Trigger(c) \/ CheckOne(c) \/ SpawnOne(c)
  \/ Maintain \/ CheckDone \/ LoopExit

MaintenanceDue ==
  /\ ~due /\ loop # "off"
  /\ due' = TRUE
  /\ UNCHANGED <<workerVars, flagVars, pending, loop, todo, stopVars, used>>

-----------------------------------------------------------------------------
\* Agent.stop, called by the main thread.
AskStop ==
  /\ stopper = "off" /\ loop # "off"
  /\ halt' = TRUE
  /\ stopper' = "asked"
  /\ UNCHANGED <<workerVars, flagVars, pending, loopVars, joins, used>>

StopForgetsEvent ==
  /\ stopper = "asked"
  /\ started' = FALSE
  /\ joins' = Collectors
  /\ stopper' = "join"
  /\ UNCHANGED <<workerVars, stopEvent, pending, loopVars, halt, used>>

StopSupervisor ==
  /\ stopper = "asked"
  /\ started' = FALSE
  /\ stopEvent' = TRUE
  /\ joins' = Collectors
  /\ stopper' = "join"
  /\ UNCHANGED <<workerVars, pending, loopVars, halt, used>>

\* Joining a thread that was never started raises, and the state is not saved.
JoinWorker(c) ==
  /\ stopper = "join" /\ c \in joins
  /\ ~Alive(c)
  /\ IF at[c] \in Unborn
       THEN stopper' = "raised" /\ UNCHANGED joins
       ELSE joins' = joins \ {c} /\ UNCHANGED stopper
  /\ UNCHANGED <<workerVars, flagVars, pending, loopVars, halt, used>>

JoinTimesOut(c) ==
  /\ stopper = "join" /\ c \in joins
  /\ Alive(c)
  /\ Spend("timeout", MaxTimeouts)
  /\ joins' = joins \ {c}
  /\ UNCHANGED <<workerVars, flagVars, pending, loopVars, halt, stopper>>

SaveEarly ==
  /\ stopper = "join"
  /\ stopper' = "saved"
  /\ UNCHANGED <<workerVars, flagVars, pending, loopVars, halt, joins, used>>

\* The scoring loop is joined, then the state is saved.
SaveState ==
  /\ stopper = "join" /\ joins = {} /\ loop = "exited"
  /\ stopper' = "saved"
  /\ UNCHANGED <<workerVars, flagVars, pending, loopVars, halt, joins, used>>

SaveTimesOut ==
  /\ stopper = "join" /\ joins = {} /\ loop # "exited"
  /\ Spend("timeout", MaxTimeouts)
  /\ stopper' = "saved"
  /\ UNCHANGED <<workerVars, flagVars, pending, loopVars, halt, joins>>

Stopper == StopSupervisor \/ SaveState \/ \E c \in Collectors : JoinWorker(c)

Next ==
  \/ Start
  \/ \E c \in Collectors : Worker(c) \/ Die(c) \/ JoinTimesOut(c)
  \/ Loop \/ TickFails \/ MaintenanceDue
  \/ AskStop \/ Stopper \/ SaveTimesOut

Spec == Init /\ [][Next]_vars

\* Every thread keeps running, a collect ends (each probe has a timeout), a rest
\* ends, and the clock goes on.  Nothing has to fail or to be asked for.
FairSpec ==
  /\ Spec
  /\ WF_vars(Start) /\ WF_vars(Loop) /\ WF_vars(MaintenanceDue) /\ WF_vars(Stopper)
  /\ \A c \in Collectors : WF_vars(Worker(c))

-----------------------------------------------------------------------------
\* Every variable of the scheduler has its type.
TypeOK ==
  /\ at \in [Collectors -> Points]
  /\ wake \in [Collectors -> BOOLEAN] /\ owed \in [Collectors -> BOOLEAN]
  /\ late \in [Collectors -> Nat] /\ behind \subseteq Collectors
  /\ started \in BOOLEAN /\ stopEvent \in BOOLEAN /\ pending \in BOOLEAN
  /\ loop \in {"off", "sleep", "tick", "check", "spawn", "exited"}
  /\ todo \subseteq Collectors /\ due \in BOOLEAN
  /\ halt \in BOOLEAN
  /\ stopper \in {"off", "asked", "join", "saved", "raised"}
  /\ joins \subseteq Collectors /\ (stopper = "saved" => joins = {})
  /\ used \in [{"death", "failure", "trigger", "timeout"} -> Nat]

\* A trigger is never lost: a worker that was triggered and has not begun a
\* collect since finds its wake flag set when it rests, at whatever point of its
\* loop the trigger came.
WakeNotLost ==
  \A c \in Collectors : owed[c] /\ at[c] = "rest" => wake[c]

\* After the stop event a worker begins one collect at most, the one it was
\* about to begin; one that a check in progress registers after it begins none:
\* whoever starts behind the stop finds it before its first collect.
StopIsPrompt ==
  \A c \in Collectors : late[c] <= IF c \in behind THEN 0 ELSE 1

\* When Agent.stop has saved the state and no join timed out, no thread of the
\* agent is left that could change what was saved.
StoppedMeansQuiet ==
  stopper = "saved" /\ used["timeout"] = 0
    => loop = "exited" /\ \A c \in Collectors : at[c] \notin {"test", "clear", "collect", "rest"}

\* Agent.stop comes to the save, unless a thread could not start, or a join meets a
\* worker in the moment between its entry in the table and the start of its thread,
\* which a check begun before the stop may put there behind it.
SaveIsReached ==
  [][stopper' = "raised" => stopper = "raised" \/ loop = "spawn" \/ used["failure"] > 0]_vars

\* WorkerSupervisor: "Starts workers and restarts any that die".  What holds of
\* the watchdog is that it brings a dead worker back as long as a collector that always has values is alive to keep the scoring loop going.
WatchedWorkerReturns ==
  \A c \in Collectors :
    started /\ ~Alive(c) ~> Alive(c) \/ ~started \/ \A s \in Steady : ~Alive(s)

\* Agent.stop brings every worker to its end, those that a check in progress
\* spawns behind it included.
StopEndsWorkers ==
  \A c \in Collectors : stopper = "join" ~> []~Alive(c)
=============================================================================
