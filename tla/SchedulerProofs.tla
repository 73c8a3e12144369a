-------------------------- MODULE SchedulerProofs --------------------------
(***************************************************************************)
(* For any set of collectors and any number of faults: a trigger is never  *)
(* lost, no worker begins more than one collect after the stop event, and  *)
(* a stop whose joins all succeeded leaves no worker measuring.            *)
(***************************************************************************)
EXTENDS Scheduler, TLAPS

WorkerVars == <<flagVars, loopVars, stopVars, used>>

\* The steps of a worker, seen as a move of its program counter.
LEMMA WorkerMoves ==
  ASSUME TypeOK, NEW c \in Collectors, Worker(c)
  PROVE  \E p \in Running \cup {"exited"} :
           /\ at' = [at EXCEPT ![c] = p]
           /\ Alive(c)
           /\ UNCHANGED WorkerVars
<1>1. ASSUME NEW p, Goto(c, p)
      PROVE  at' = [at EXCEPT ![c] = p] /\ UNCHANGED WorkerVars
  BY <1>1 DEF Goto, WorkerVars
<1>2. CASE Stagger(c)
  BY <1>1, <1>2 DEF Stagger, Running, Alive
<1>3. CASE LoopTest(c)
  BY <1>1, <1>3 DEF LoopTest, Running, Alive
<1>4. CASE BeginCollect(c)
  BY <1>1, <1>4 DEF BeginCollect, Running, Alive
<1>5. CASE EndCollect(c)
  BY <1>1, <1>5 DEF EndCollect, Running, Alive
<1>6. CASE RestStopped(c)
  BY <1>1, <1>6 DEF RestStopped, Running, Alive
<1>7. CASE RestWoken(c) \/ RestOver(c)
  BY <1>1, <1>7 DEF RestWoken, RestOver, Running, Alive
<1>. QED BY <1>2, <1>3, <1>4, <1>5, <1>6, <1>7 DEF Worker

\* The data a worker's step changes keeps its type.
LEMMA WorkerData ==
  ASSUME TypeOK, NEW c \in Collectors, Worker(c)
  PROVE  /\ wake' \in [Collectors -> BOOLEAN] /\ owed' \in [Collectors -> BOOLEAN]
         /\ late' \in [Collectors -> Nat] /\ pending' \in BOOLEAN /\ UNCHANGED behind
<1>0. UNCHANGED behind
  BY DEF Worker, Stagger, LoopTest, BeginCollect, EndCollect, RestStopped, RestWoken, RestOver, Goto
<1>1. CASE Stagger(c) \/ LoopTest(c) \/ RestStopped(c) \/ RestWoken(c) \/ RestOver(c)
  <2>1. UNCHANGED <<wake, owed, late, pending>>
    BY <1>1 DEF Stagger, LoopTest, RestStopped, RestWoken, RestOver
  <2>. QED BY <1>0, <2>1 DEF TypeOK
<1>2. CASE BeginCollect(c)
  BY <1>0, <1>2 DEF BeginCollect, TypeOK
<1>3. CASE EndCollect(c)
  <2>1. UNCHANGED <<wake, owed, late>> /\ pending' \in BOOLEAN
    BY <1>3 DEF EndCollect, TypeOK
  <2>. QED BY <1>0, <2>1 DEF TypeOK
<1>. QED BY <1>0, <1>1, <1>2, <1>3 DEF Worker

\* Nothing runs before Agent.start, and everything is well typed.
LEMMA InitType == Init => TypeOK
<1> SUFFICES ASSUME Init PROVE TypeOK
  OBVIOUS
<1>1. at \in [Collectors -> Points] /\ late \in [Collectors -> Nat] /\ behind = {}
  BY DEF Init, Points
<1>2. wake \in [Collectors -> BOOLEAN] /\ owed \in [Collectors -> BOOLEAN]
  BY DEF Init
<1>3. used \in [{"death", "failure", "trigger", "timeout"} -> Nat]
  BY DEF Init
<1>. QED BY <1>1, <1>2, <1>3 DEF Init, TypeOK

\* Counting a fault keeps the counters naturals.
LEMMA SpendType ==
  ASSUME TypeOK, NEW k \in {"death", "failure", "trigger", "timeout"}, NEW b, Spend(k, b)
  PROVE  used' \in [{"death", "failure", "trigger", "timeout"} -> Nat]
BY DEF TypeOK, Spend

\* Every step keeps every type.
LEMMA StepType == TypeOK /\ [Next]_vars => TypeOK'
<1> SUFFICES ASSUME TypeOK, [Next]_vars PROVE TypeOK'
  OBVIOUS
<1> USE DEF workerVars, flagVars, loopVars, stopVars
<1>1. CASE Start
  BY <1>1 DEF Start, TypeOK, Points, Unborn, Running
<1>2. ASSUME NEW c \in Collectors, Worker(c) PROVE TypeOK'
  <2>1. PICK p \in Running \cup {"exited"} :
          at' = [at EXCEPT ![c] = p] /\ Alive(c) /\ UNCHANGED WorkerVars
    BY <1>2, WorkerMoves
  <2>2. at' \in [Collectors -> Points]
    BY <2>1 DEF TypeOK, Points, Unborn
  <2>3. /\ wake' \in [Collectors -> BOOLEAN] /\ owed' \in [Collectors -> BOOLEAN]
        /\ late' \in [Collectors -> Nat] /\ pending' \in BOOLEAN /\ UNCHANGED behind
    BY <1>2, WorkerData
  <2>. QED BY <2>1, <2>2, <2>3 DEF TypeOK, WorkerVars
<1>3. ASSUME NEW c \in Collectors, Die(c) PROVE TypeOK'
  BY <1>3, SpendType DEF Die, TypeOK, Points, Unborn
<1>4. ASSUME NEW c \in Collectors, JoinTimesOut(c) PROVE TypeOK'
  BY <1>4, SpendType DEF JoinTimesOut, TypeOK
<1>5. ASSUME NEW rose \in BOOLEAN, BeginTick(rose) PROVE TypeOK'
  <2>1. used' \in [{"death", "failure", "trigger", "timeout"} -> Nat]
    BY <1>5, SpendType DEF BeginTick, TypeOK
  <2>2. todo' \subseteq Collectors
    BY <1>5, SchedulerAssumption DEF BeginTick
  <2>. QED BY <1>5, <2>1, <2>2 DEF BeginTick, TypeOK
<1>6. ASSUME NEW c \in Collectors, Trigger(c) PROVE TypeOK'
  <2> DEFINE w == wake[c] \/ Alive(c)
             o == owed[c] \/ Alive(c)
  <2>1. w \in BOOLEAN /\ o \in BOOLEAN
    OBVIOUS
  <2>2. wake' = [wake EXCEPT ![c] = w] /\ owed' = [owed EXCEPT ![c] = o]
    BY <1>6, Zenon DEF Trigger
  <2> HIDE DEF w, o
  <2>3. wake' \in [Collectors -> BOOLEAN] /\ owed' \in [Collectors -> BOOLEAN]
    BY <2>1, <2>2 DEF TypeOK
  <2>4. todo' \subseteq Collectors
    BY <1>6 DEF Trigger, TypeOK
  <2>. QED BY <1>6, <2>3, <2>4 DEF Trigger, TypeOK
<1>7. ASSUME NEW c \in Collectors, CheckOne(c) PROVE TypeOK'
  <2>1. UNCHANGED <<flagVars, pending, due, stopVars, used>>
    BY <1>7 DEF CheckOne
  <2>2. CASE Alive(c)
    <3>1. UNCHANGED <<workerVars, loop>> /\ todo' = todo \ {c}
      BY <1>7, <2>2 DEF CheckOne
    <3>. QED BY <2>1, <3>1 DEF TypeOK
  <2>3. CASE ~Alive(c)
    <3>1. /\ at' = [at EXCEPT ![c] = "new"] /\ wake' = [wake EXCEPT ![c] = FALSE]
          /\ owed' = [owed EXCEPT ![c] = FALSE] /\ late' = [late EXCEPT ![c] = 0]
          /\ loop' = "spawn" /\ UNCHANGED todo
          /\ behind' \in {behind, behind \cup {c}}
      BY <1>7, <2>3 DEF CheckOne
    <3>2. at' \in [Collectors -> Points] /\ late' \in [Collectors -> Nat]
      BY <3>1 DEF TypeOK, Points, Unborn
    <3>3. wake' \in [Collectors -> BOOLEAN] /\ owed' \in [Collectors -> BOOLEAN]
      BY <3>1 DEF TypeOK
    <3>. QED BY <2>1, <3>1, <3>2, <3>3 DEF TypeOK
  <2>. QED BY <2>2, <2>3
<1>8. ASSUME NEW c \in Collectors, SpawnOne(c) PROVE TypeOK'
  BY <1>8 DEF SpawnOne, TypeOK, Points, Unborn, Running
<1>9. CASE Maintain
  BY <1>9 DEF Maintain, TypeOK
<1>10. CASE CheckDone \/ LoopExit \/ MaintenanceDue
  BY <1>10 DEF CheckDone, LoopExit, MaintenanceDue, TypeOK
<1>11. CASE TickFails
  <2>1. at' \in [Collectors -> Points]
    BY <1>11 DEF TickFails, TypeOK, Points, Unborn
  <2>2. used' \in [{"death", "failure", "trigger", "timeout"} -> Nat]
    BY <1>11, SpendType DEF TickFails
  <2>. QED BY <1>11, <2>1, <2>2 DEF TickFails, TypeOK
<1>12. CASE AskStop \/ StopSupervisor \/ SaveState
  BY <1>12 DEF AskStop, StopSupervisor, SaveState, TypeOK
<1>13. ASSUME NEW c \in Collectors, JoinWorker(c) PROVE TypeOK'
  BY <1>13 DEF JoinWorker, TypeOK
<1>14. CASE SaveTimesOut
  BY <1>14, SpendType DEF SaveTimesOut, TypeOK
<1>15. CASE UNCHANGED vars
  BY <1>15 DEF vars, TypeOK
<1>. QED BY <1>1, <1>2, <1>3, <1>4, <1>5, <1>6, <1>7, <1>8, <1>9, <1>10, <1>11, <1>12,
            <1>13, <1>14, <1>15 DEF Next, Loop, Stopper

\* Threads, flags and counters are well typed in every reachable state.
THEOREM TypeCorrect == Spec => []TypeOK
BY InitType, StepType, PTL DEF Spec

-----------------------------------------------------------------------------
(***************************************************************************)
(* The inductive invariant.  A worker's wake flag and its debt are set and *)
(* cleared together.  A collect begun after the stop event was the one the *)
(* worker was about to begin: it is past the point where it could begin    *)
(* another.  A worker registered after the event has not got past its      *)
(* first wait, which ends it.  Once the workers are being joined the stop event stays set,   *)
(* and a worker already joined, or spawned since, has not got past its     *)
(* first look at it.                                                       *)
(***************************************************************************)
DebtOK == \A c \in Collectors : owed[c] => wake[c]

Waiting == Unborn \cup {"stagger", "exited", "dead"}

LateOK ==
  \A c \in Collectors : /\ late[c] \in {0, 1}
                        /\ late[c] = 1 => stopEvent /\ at[c] # "clear"
                        /\ c \in behind => stopEvent /\ late[c] = 0 /\ at[c] \in Waiting

Measuring == {"test", "clear", "collect", "rest"}

JoinOK ==
  /\ loop = "off" => stopper = "off"
  /\ stopper \in {"off", "asked"} => ~stopEvent
  /\ stopper \in {"join", "saved"} => stopEvent
  /\ stopper \in {"join", "saved"} /\ used["timeout"] = 0
       => \A c \in Collectors \ joins : at[c] \notin Measuring
  /\ stopper = "saved" /\ used["timeout"] = 0 => loop = "exited"

\* Every step keeps wake flag and debt together.
LEMMA StepDebt == TypeOK /\ DebtOK /\ [Next]_vars => DebtOK'
<1> SUFFICES ASSUME TypeOK, DebtOK, [Next]_vars, NEW d \in Collectors, owed'[d]
             PROVE  wake'[d]
  BY DEF DebtOK
<1> USE DEF workerVars, flagVars, loopVars, stopVars
<1>a. owed[d] => wake[d]
  BY DEF DebtOK
<1>b. ASSUME UNCHANGED <<wake, owed>> PROVE wake'[d]
  BY <1>a, <1>b
<1>1. ASSUME NEW c \in Collectors, Worker(c) PROVE wake'[d]
  <2>1. CASE BeginCollect(c)
    BY <1>a, <2>1 DEF BeginCollect, TypeOK
  <2>2. CASE Stagger(c) \/ LoopTest(c) \/ EndCollect(c) \/ RestStopped(c) \/ RestWoken(c) \/ RestOver(c)
    BY <1>b, <2>2 DEF Stagger, LoopTest, EndCollect, RestStopped, RestWoken, RestOver
  <2>. QED BY <1>1, <2>1, <2>2 DEF Worker
<1>2. ASSUME NEW c \in Collectors, Trigger(c) PROVE wake'[d]
  <2>1. CASE c = d
    <3>1. owed'[d] = (owed[d] \/ Alive(d)) /\ wake'[d] = (wake[d] \/ Alive(d))
      BY <1>2, <2>1, Zenon DEF Trigger, TypeOK
    <3>. QED BY <1>a, <3>1
  <2>2. CASE c # d
    BY <1>2, <1>a, <2>2 DEF Trigger, TypeOK
  <2>. QED BY <2>1, <2>2
<1>3. ASSUME NEW c \in Collectors, CheckOne(c) PROVE wake'[d]
  <2>1. CASE Alive(c)
    BY <1>3, <1>b, <2>1 DEF CheckOne
  <2>2. CASE ~Alive(c)
    <3>1. wake' = [wake EXCEPT ![c] = FALSE] /\ owed' = [owed EXCEPT ![c] = FALSE]
      BY <1>3, <2>2 DEF CheckOne
    <3>. QED BY <1>a, <3>1 DEF TypeOK
  <2>. QED BY <2>1, <2>2
<1>4. ASSUME NEW c \in Collectors, Die(c) \/ JoinTimesOut(c) \/ SpawnOne(c) \/ JoinWorker(c)
      PROVE  wake'[d]
  BY <1>4, <1>b DEF Die, JoinTimesOut, SpawnOne, JoinWorker
<1>5. ASSUME NEW rose \in BOOLEAN, BeginTick(rose) PROVE wake'[d]
  BY <1>5, <1>b DEF BeginTick
<1>6. CASE Start \/ Maintain \/ CheckDone \/ LoopExit \/ TickFails \/ MaintenanceDue
           \/ AskStop \/ StopSupervisor \/ SaveState \/ SaveTimesOut \/ UNCHANGED vars
  BY <1>6, <1>b DEF Start, Maintain, CheckDone, LoopExit, TickFails, MaintenanceDue,
                    AskStop, StopSupervisor, SaveState, SaveTimesOut, vars
<1>. QED BY <1>1, <1>2, <1>3, <1>4, <1>5, <1>6 DEF Next, Loop, Stopper

\* No trigger is lost, whatever point of its loop the worker is at.
THEOREM WakeCorrect == Spec => []WakeNotLost
<1>1. Init => DebtOK
  BY DEF Init, DebtOK
<1>2. DebtOK => WakeNotLost
  BY DEF DebtOK, WakeNotLost
<1>. QED BY <1>1, <1>2, StepDebt, TypeCorrect, PTL DEF Spec

-----------------------------------------------------------------------------
\* Every step keeps a worker from beginning a second collect after the stop, and one
\* that was registered behind it from beginning a first.
LEMMA StepLate == TypeOK /\ JoinOK /\ LateOK /\ [Next]_vars => LateOK'
<1> DEFINE OK(d) == /\ late[d] \in {0, 1}
                    /\ late[d] = 1 => stopEvent /\ at[d] # "clear"
                    /\ d \in behind => stopEvent /\ late[d] = 0 /\ at[d] \in Waiting
<1> SUFFICES ASSUME TypeOK, JoinOK, LateOK, [Next]_vars, NEW d \in Collectors PROVE OK(d)'
  BY DEF LateOK
<1> USE DEF workerVars, flagVars, loopVars, stopVars
<1>a. OK(d)
  BY DEF LateOK
<1>b. ASSUME UNCHANGED <<late, behind>>, at'[d] = at[d], stopEvent => stopEvent' PROVE OK(d)'
  BY <1>a, <1>b
<1>1. ASSUME NEW c \in Collectors, Worker(c) PROVE OK(d)'
  <2>0. UNCHANGED <<behind, stopEvent>>
    BY <1>1 DEF Worker, Stagger, LoopTest, BeginCollect, EndCollect, RestStopped,
                RestWoken, RestOver, Goto
  <2>1. CASE c # d
    <3>1. at'[d] = at[d] /\ late'[d] = late[d]
      BY <1>1, <2>1 DEF Worker, Stagger, LoopTest, BeginCollect, EndCollect, RestStopped,
                        RestWoken, RestOver, Goto, TypeOK
    <3>. QED BY <1>a, <2>0, <3>1
  <2>2. CASE c = d /\ BeginCollect(c)
    <3>1. at[d] = "clear" /\ at'[d] = "collect"
          /\ late'[d] = IF stopEvent THEN late[d] + 1 ELSE late[d]
      BY <2>2 DEF BeginCollect, Goto, TypeOK
    <3>2. d \notin behind /\ late[d] = 0
      BY <1>a, <3>1 DEF Waiting, Unborn
    <3>. QED BY <2>0, <3>1, <3>2
  <2>3. CASE c = d /\ Stagger(c)
    <3>1. late'[d] = late[d] /\ at'[d] = IF stopEvent THEN "exited" ELSE "test"
      BY <2>3 DEF Stagger, Goto, TypeOK
    <3>. QED BY <1>a, <2>0, <3>1 DEF Waiting
  <2>4. CASE c = d /\ (LoopTest(c) \/ EndCollect(c) \/ RestStopped(c) \/ RestWoken(c) \/ RestOver(c))
    <3>1. late'[d] = late[d] /\ at[d] \notin Waiting /\ (stopEvent => at'[d] # "clear")
      BY <2>4 DEF LoopTest, EndCollect, RestStopped, RestWoken, RestOver, Goto, TypeOK,
                  Waiting, Unborn
    <3>. QED BY <1>a, <2>0, <3>1
  <2>. QED BY <1>1, <2>1, <2>2, <2>3, <2>4 DEF Worker
<1>2. ASSUME NEW c \in Collectors, CheckOne(c) PROVE OK(d)'
  <2>1. CASE Alive(c)
    BY <1>2, <1>b, <2>1 DEF CheckOne
  <2>2. CASE ~Alive(c)
    <3>1. /\ at' = [at EXCEPT ![c] = "new"] /\ late' = [late EXCEPT ![c] = 0]
          /\ behind' = (IF stopEvent THEN behind \cup {c} ELSE behind)
          /\ stopEvent' = stopEvent
      BY <1>2, <2>2 DEF CheckOne
    <3>2. CASE c = d
      <4>1. late'[d] = 0 /\ at'[d] = "new"
        BY <3>1, <3>2 DEF TypeOK
      <4>. QED BY <1>a, <3>1, <4>1 DEF Waiting, Unborn
    <3>3. CASE c # d
      <4>1. late'[d] = late[d] /\ at'[d] = at[d] /\ (d \in behind' => d \in behind)
        BY <3>1, <3>3 DEF TypeOK
      <4>. QED BY <1>a, <3>1, <4>1
    <3>. QED BY <3>2, <3>3
  <2>. QED BY <2>1, <2>2
<1>3. ASSUME NEW c \in Collectors, Die(c) \/ SpawnOne(c) PROVE OK(d)'
  <2>1. /\ UNCHANGED <<late, behind, stopEvent>>
        /\ at'[d] = at[d] \/ at'[d] \in {"dead", "stagger"}
    BY <1>3 DEF Die, SpawnOne, TypeOK
  <2>. QED BY <1>a, <2>1 DEF Waiting
<1>4. ASSUME NEW c \in Collectors, JoinTimesOut(c) \/ Trigger(c) \/ JoinWorker(c) PROVE OK(d)'
  BY <1>4, <1>b DEF JoinTimesOut, Trigger, JoinWorker
<1>5. ASSUME NEW rose \in BOOLEAN, BeginTick(rose) PROVE OK(d)'
  BY <1>5, <1>b DEF BeginTick
<1>6. CASE Start
  <2>1. late[d] = 0 /\ d \notin behind /\ UNCHANGED <<late, behind>>
    BY <1>6, <1>a DEF Start, JoinOK
  <2>. QED BY <2>1
<1>7. CASE Maintain \/ CheckDone \/ LoopExit \/ MaintenanceDue
           \/ AskStop \/ StopSupervisor \/ SaveState \/ SaveTimesOut \/ UNCHANGED vars
  BY <1>7, <1>b DEF Maintain, CheckDone, LoopExit, MaintenanceDue,
                    AskStop, StopSupervisor, SaveState, SaveTimesOut, vars
<1>8. CASE TickFails
  <2>1. /\ UNCHANGED <<late, behind, stopEvent>>
        /\ at'[d] = IF at[d] = "new" THEN "unstarted" ELSE at[d]
    BY <1>8 DEF TickFails
  <2>. QED BY <1>a, <2>1 DEF Waiting, Unborn
<1>. QED BY <1>1, <1>2, <1>3, <1>4, <1>5, <1>6, <1>7, <1>8 DEF Next, Loop, Stopper

\* Every step keeps what Agent.stop has achieved so far.
LEMMA StepJoin == TypeOK /\ JoinOK /\ [Next]_vars => JoinOK'
<1> SUFFICES ASSUME TypeOK, JoinOK, [Next]_vars PROVE JoinOK'
  OBVIOUS
<1> USE DEF workerVars, flagVars, loopVars, stopVars
<1>a. ASSUME UNCHANGED <<stopEvent, stopper, joins, used>>,
             loop = "off" <=> loop' = "off", loop = "exited" => loop' = "exited",
             stopEvent => \A c \in Collectors : at'[c] \in Measuring => at[c] \in Measuring
      PROVE  JoinOK'
  BY <1>a DEF JoinOK
<1>1. CASE Start
  BY <1>1 DEF Start, JoinOK
<1>2. ASSUME NEW c \in Collectors, Worker(c) PROVE JoinOK'
  <2>1. UNCHANGED <<stopEvent, stopper, joins, used, loop>>
    BY <1>2 DEF Worker, Stagger, LoopTest, BeginCollect, EndCollect, RestStopped,
                RestWoken, RestOver, Goto
  <2>2. ASSUME stopEvent, NEW d \in Collectors, at'[d] \in Measuring PROVE at[d] \in Measuring
    <3>1. CASE c # d
      <4>1. at'[d] = at[d]
        BY <1>2, <3>1 DEF Worker, Stagger, LoopTest, BeginCollect, EndCollect, RestStopped,
                          RestWoken, RestOver, Goto, TypeOK
      <4>. QED BY <2>2, <4>1
    <3>2. CASE c = d /\ Stagger(c)
      BY <2>2, <3>2 DEF Stagger, Goto, TypeOK, Measuring
    <3>3. CASE c = d /\ ~Stagger(c)
      BY <1>2, <3>3 DEF Worker, LoopTest, BeginCollect, EndCollect, RestStopped,
                        RestWoken, RestOver, Measuring
    <3>. QED BY <3>1, <3>2, <3>3
  <2>. QED BY <1>a, <2>1, <2>2
<1>3. ASSUME NEW c \in Collectors, Die(c) PROVE JoinOK'
  <2>1. at' = [at EXCEPT ![c] = "dead"] /\ UNCHANGED <<stopEvent, stopper, joins, loop>>
        /\ used' = [used EXCEPT !["death"] = @ + 1]
    BY <1>3 DEF Die, Spend
  <2>2. used'["timeout"] = used["timeout"]
    BY <2>1 DEF TypeOK
  <2>3. \A d \in Collectors : at'[d] \in Measuring => at[d] \in Measuring
    BY <2>1 DEF TypeOK, Measuring
  <2>. QED BY <2>1, <2>2, <2>3 DEF JoinOK
<1>4. ASSUME NEW rose \in BOOLEAN, BeginTick(rose) PROVE JoinOK'
  <2>1. UNCHANGED <<at, stopEvent, stopper, joins>> /\ loop = "sleep" /\ loop' = "tick"
    BY <1>4 DEF BeginTick
  <2>2. used'["timeout"] = used["timeout"]
    BY <1>4 DEF BeginTick, Spend, TypeOK
  <2>. QED BY <2>1, <2>2 DEF JoinOK
<1>5. CASE TickFails
  <2>1. UNCHANGED <<stopEvent, stopper, joins>> /\ loop \in {"tick", "spawn"} /\ loop' = "sleep"
    BY <1>5 DEF TickFails
  <2>2. used'["timeout"] = used["timeout"]
    BY <1>5 DEF TickFails, Spend, TypeOK
  <2>3. \A c \in Collectors : at'[c] \in Measuring => at[c] \in Measuring
    BY <1>5 DEF TickFails, Measuring
  <2>. QED BY <2>1, <2>2, <2>3 DEF JoinOK
<1>6. ASSUME NEW c \in Collectors, Trigger(c) \/ SpawnOne(c) PROVE JoinOK'
  BY <1>6, <1>a DEF Trigger, SpawnOne, TypeOK, Measuring
<1>7. ASSUME NEW c \in Collectors, CheckOne(c) PROVE JoinOK'
  <2>1. /\ UNCHANGED <<stopEvent, stopper, joins, used>>
        /\ loop = "check" /\ loop' \in {"check", "spawn"}
        /\ at' = at \/ at' = [at EXCEPT ![c] = "new"]
    BY <1>7 DEF CheckOne
  <2>2. \A d \in Collectors : at'[d] \in Measuring => at[d] \in Measuring
    BY <2>1 DEF TypeOK, Measuring
  <2>. QED BY <1>a, <2>1, <2>2
<1>8. CASE Maintain \/ CheckDone \/ LoopExit \/ MaintenanceDue \/ UNCHANGED vars
  BY <1>8, <1>a DEF Maintain, CheckDone, LoopExit, MaintenanceDue, vars
<1>9. CASE AskStop
  BY <1>9 DEF AskStop, JoinOK
<1>10. CASE StopSupervisor
  BY <1>10 DEF StopSupervisor, JoinOK
<1>13. CASE SaveState
  <2>1. UNCHANGED <<at, stopEvent, joins, used, loop>> /\ loop = "exited" /\ stopper = "join"
        /\ stopper' = "saved"
    BY <1>13 DEF SaveState
  <2>. QED BY <2>1 DEF JoinOK
<1>14. ASSUME NEW c \in Collectors, JoinWorker(c) PROVE JoinOK'
  <2>1. UNCHANGED <<at, stopEvent, used, loop>> /\ stopper = "join" /\ ~Alive(c)
    BY <1>14 DEF JoinWorker
  <2>2. CASE at[c] \in Unborn
    <3>1. stopper' = "raised" /\ joins' = joins
      BY <1>14, <2>2 DEF JoinWorker
    <3>. QED BY <2>1, <3>1 DEF JoinOK
  <2>3. CASE at[c] \notin Unborn
    <3>1. stopper' = stopper /\ joins' = joins \ {c}
      BY <1>14, <2>3 DEF JoinWorker
    <3>2. at[c] \notin Measuring
      BY <2>1 DEF Alive, Running, Measuring
    <3>. QED BY <2>1, <3>1, <3>2 DEF JoinOK
  <2>. QED BY <2>2, <2>3
<1>11. ASSUME NEW c \in Collectors, JoinTimesOut(c) PROVE JoinOK'
  <2>1. UNCHANGED <<stopEvent, stopper, loop>> /\ used' = [used EXCEPT !["timeout"] = @ + 1]
    BY <1>11 DEF JoinTimesOut, Spend
  <2>2. used'["timeout"] # 0
    BY <2>1 DEF TypeOK
  <2>. QED BY <2>1, <2>2 DEF JoinOK
<1>12. CASE SaveTimesOut
  <2>1. UNCHANGED <<stopEvent, loop>> /\ stopper = "join" /\ stopper' = "saved"
        /\ used' = [used EXCEPT !["timeout"] = @ + 1]
    BY <1>12 DEF SaveTimesOut, Spend
  <2>2. used'["timeout"] # 0
    BY <2>1 DEF TypeOK
  <2>. QED BY <2>1, <2>2 DEF JoinOK
<1>. QED BY <1>1, <1>2, <1>3, <1>4, <1>5, <1>6, <1>7, <1>8, <1>9, <1>10, <1>11, <1>12,
         <1>13, <1>14 DEF Next, Loop, Stopper

\* What Agent.stop has achieved holds in every reachable state.
LEMMA JoinInvariant == Spec => []JoinOK
<1>1. Init => JoinOK
  BY DEF Init, JoinOK
<1>. QED BY <1>1, StepJoin, TypeCorrect, PTL DEF Spec

\* With any number of collectors, faults and respawns, a worker begins at most
\* one collect after the stop event, and one registered after it none.
THEOREM StopCorrect == Spec => []StopIsPrompt
<1>1. Init => LateOK
  <2> SUFFICES ASSUME Init PROVE LateOK
    OBVIOUS
  <2>1. late = [c \in Collectors |-> 0] /\ behind = {}
    BY DEF Init
  <2>2. ASSUME NEW c \in Collectors
        PROVE  late[c] \in {0, 1} /\ late[c] # 1 /\ c \notin behind
    BY <2>1
  <2>. QED BY <2>2 DEF LateOK
<1>2. LateOK => StopIsPrompt
  <2> SUFFICES ASSUME LateOK, NEW c \in Collectors
               PROVE  late[c] <= IF c \in behind THEN 0 ELSE 1
    BY DEF StopIsPrompt
  <2>1. (late[c] = 0 \/ late[c] = 1) /\ (c \in behind => late[c] = 0)
    BY DEF LateOK
  <2>. QED BY <2>1
<1>. QED BY <1>1, <1>2, StepLate, JoinInvariant, TypeCorrect, PTL DEF Spec

\* When no join timed out, the state is saved after the last measurement.
THEOREM QuietCorrect == Spec => []StoppedMeansQuiet
<1>1. TypeOK /\ JoinOK => StoppedMeansQuiet
  BY DEF TypeOK, JoinOK, StoppedMeansQuiet, Measuring
<1>. QED BY <1>1, JoinInvariant, TypeCorrect, PTL

-----------------------------------------------------------------------------
(***************************************************************************)
(* Who may be registered without a thread: the one collector whose worker  *)
(* the check in progress is starting, and those whose thread could not     *)
(* start.                                                                  *)
(***************************************************************************)
UnbornOK ==
  /\ \A c \in Collectors : /\ at[c] = "new" => loop = "spawn"
                           /\ at[c] = "unstarted" => used["failure"] > 0
  /\ \A c, d \in Collectors : at[c] = "new" /\ at[d] = "new" => c = d

\* A step that leaves the loop and the faults alone and registers nobody.
LEMMA UnbornStays ==
  ASSUME UnbornOK, UNCHANGED <<loop, used>>,
         \A c \in Collectors : at'[c] \in Unborn => at'[c] = at[c]
  PROVE  UnbornOK'
BY DEF UnbornOK, Unborn

\* Every step keeps it so.
LEMMA StepUnborn == TypeOK /\ UnbornOK /\ [Next]_vars => UnbornOK'
<1> SUFFICES ASSUME TypeOK, UnbornOK, [Next]_vars PROVE UnbornOK'
  OBVIOUS
<1> USE DEF workerVars, flagVars, loopVars, stopVars
<1>a. /\ used \in [{"death", "failure", "trigger", "timeout"} -> Nat]
      /\ at \in [Collectors -> Points]
  BY DEF TypeOK
<1>b. ASSUME UNCHANGED at, loop # "spawn", used'["failure"] = used["failure"]
      PROVE  UnbornOK'
  BY <1>b DEF UnbornOK
<1>1. CASE Start
  BY <1>1 DEF Start, UnbornOK
<1>2. ASSUME NEW c \in Collectors, Worker(c) PROVE UnbornOK'
  <2>1. PICK p \in Running \cup {"exited"} :
          at' = [at EXCEPT ![c] = p] /\ Alive(c) /\ UNCHANGED WorkerVars
    BY <1>2, WorkerMoves
  <2>2. \A d \in Collectors : at'[d] \in Unborn => at'[d] = at[d]
    BY <1>a, <2>1 DEF Running, Unborn
  <2>. QED BY <2>1, <2>2, UnbornStays DEF WorkerVars
<1>3. ASSUME NEW c \in Collectors, Die(c) PROVE UnbornOK'
  <2>1. at' = [at EXCEPT ![c] = "dead"] /\ UNCHANGED loop
        /\ used' = [used EXCEPT !["death"] = @ + 1]
    BY <1>3 DEF Die, Spend
  <2>2. used'["failure"] = used["failure"]
    BY <1>a, <2>1
  <2>3. \A d \in Collectors : at'[d] \in Unborn => at'[d] = at[d]
    BY <1>a, <2>1 DEF Unborn
  <2>. QED BY <2>1, <2>2, <2>3 DEF UnbornOK, Unborn
<1>4. ASSUME NEW c \in Collectors, JoinTimesOut(c) PROVE UnbornOK'
  <2>1. UNCHANGED <<at, loop>> /\ used'["failure"] = used["failure"]
    BY <1>4, <1>a DEF JoinTimesOut, Spend
  <2>. QED BY <2>1 DEF UnbornOK
<1>5. ASSUME NEW rose \in BOOLEAN, BeginTick(rose) PROVE UnbornOK'
  <2>1. UNCHANGED at /\ loop = "sleep" /\ used'["failure"] = used["failure"]
    BY <1>5, <1>a DEF BeginTick, Spend
  <2>. QED BY <1>b, <2>1
<1>6. ASSUME NEW c \in Collectors, Trigger(c) \/ JoinWorker(c) PROVE UnbornOK'
  BY <1>6, UnbornStays DEF Trigger, JoinWorker
<1>7. ASSUME NEW c \in Collectors, CheckOne(c) PROVE UnbornOK'
  <2>1. loop = "check" /\ UNCHANGED used
    BY <1>7 DEF CheckOne
  <2>2. CASE Alive(c)
    <3>1. UNCHANGED at
      BY <1>7, <2>2 DEF CheckOne
    <3>. QED BY <1>b, <2>1, <3>1
  <2>3. CASE ~Alive(c)
    <3>1. at' = [at EXCEPT ![c] = "new"] /\ loop' = "spawn"
      BY <1>7, <2>3 DEF CheckOne
    <3>2. \A d \in Collectors : at[d] # "new"
      BY <2>1 DEF UnbornOK
    <3>3. \A d \in Collectors : at'[d] = IF d = c THEN "new" ELSE at[d]
      BY <1>a, <3>1
    <3>. QED BY <2>1, <3>1, <3>2, <3>3 DEF UnbornOK
  <2>. QED BY <2>2, <2>3
<1>8. ASSUME NEW c \in Collectors, SpawnOne(c) PROVE UnbornOK'
  <2>1. at[c] = "new" /\ at' = [at EXCEPT ![c] = "stagger"] /\ UNCHANGED used
    BY <1>8 DEF SpawnOne
  <2>2. \A d \in Collectors : at[d] = "new" => d = c
    BY <2>1 DEF UnbornOK
  <2>3. \A d \in Collectors : at'[d] = IF d = c THEN "stagger" ELSE at[d]
    BY <1>a, <2>1
  <2>. QED BY <2>1, <2>2, <2>3 DEF UnbornOK
<1>9. CASE TickFails
  <2>1. /\ used'["failure"] = used["failure"] + 1
        /\ \A d \in Collectors : at'[d] = IF at[d] = "new" THEN "unstarted" ELSE at[d]
    BY <1>9, <1>a DEF TickFails, Spend
  <2>2. used'["failure"] > 0
    BY <1>a, <2>1
  <2>. QED BY <2>1, <2>2 DEF UnbornOK
<1>10. CASE Maintain \/ CheckDone \/ LoopExit
  <2>1. UNCHANGED <<at, used>> /\ loop # "spawn"
    BY <1>10 DEF Maintain, CheckDone, LoopExit
  <2>. QED BY <1>b, <2>1
<1>11. CASE MaintenanceDue \/ AskStop \/ StopSupervisor \/ SaveState \/ UNCHANGED vars
  <2>1. UNCHANGED <<at, used, loop>>
    BY <1>11 DEF MaintenanceDue, AskStop, StopSupervisor, SaveState, vars
  <2>. QED BY <2>1 DEF UnbornOK
<1>12. CASE SaveTimesOut
  <2>1. UNCHANGED <<at, loop>> /\ used'["failure"] = used["failure"]
    BY <1>12, <1>a DEF SaveTimesOut, Spend
  <2>. QED BY <2>1 DEF UnbornOK
<1>. QED BY <1>1, <1>2, <1>3, <1>4, <1>5, <1>6, <1>7, <1>8, <1>9, <1>10, <1>11, <1>12
         DEF Next, Loop, Stopper

\* Only a join raises, so a stop comes to its save unless a thread could not start
\* or it meets the one worker that is being started.
THEOREM SaveCorrect == Spec => SaveIsReached
<1>1. Init => UnbornOK
  <2> SUFFICES ASSUME Init PROVE UnbornOK
    OBVIOUS
  <2>1. \A c \in Collectors : at[c] = "none"
    BY DEF Init
  <2>. QED BY <2>1 DEF UnbornOK
<1>2. TypeOK /\ UnbornOK /\ [Next]_vars =>
        [stopper' = "raised" => stopper = "raised" \/ loop = "spawn" \/ used["failure"] > 0]_vars
  <2> SUFFICES ASSUME UnbornOK, Next, stopper' = "raised", stopper # "raised"
               PROVE  loop = "spawn" \/ used["failure"] > 0
    OBVIOUS
  <2> USE DEF workerVars, flagVars, loopVars, stopVars
  <2>1. stopper' # stopper
    OBVIOUS
  <2>2. ASSUME NEW c \in Collectors
        PROVE  ~(Worker(c) \/ Die(c) \/ JoinTimesOut(c) \/ Trigger(c) \/ CheckOne(c) \/ SpawnOne(c))
    BY <2>1 DEF Worker, Stagger, LoopTest, BeginCollect, EndCollect, RestStopped, RestWoken,
                RestOver, Goto, Die, JoinTimesOut, Trigger, CheckOne, SpawnOne
  <2>3. ~(Start \/ Maintain \/ CheckDone \/ LoopExit \/ TickFails \/ MaintenanceDue
          \/ \E rose \in BOOLEAN : BeginTick(rose))
    BY <2>1 DEF Start, Maintain, CheckDone, LoopExit, TickFails, MaintenanceDue, BeginTick
  <2>4. ~(AskStop \/ StopSupervisor \/ SaveState \/ SaveTimesOut)
    BY DEF AskStop, StopSupervisor, SaveState, SaveTimesOut
  <2>5. PICK c \in Collectors : JoinWorker(c)
    BY <2>2, <2>3, <2>4 DEF Next, Loop, Stopper
  <2>6. at[c] \in Unborn
    BY <2>1, <2>5 DEF JoinWorker
  <2>. QED BY <2>6 DEF UnbornOK, Unborn
<1>. QED BY <1>1, <1>2, StepUnborn, TypeCorrect, PTL DEF Spec, SaveIsReached
=============================================================================
