------------------------------ MODULE Cadence ------------------------------
(***************************************************************************)
(* The cadence of the active collectors in front of their budget: which    *)
(* configurations are accepted (config.py), when a worker begins a round   *)
(* and how long it rests (core/scheduler.py), and the probes that are      *)
(* pulled forward when severity rises (core/agent.py).  A step is one of   *)
(* ProbeBudget in which the collector is also on time.                     *)
(***************************************************************************)
EXTENDS ProbeBudget, Integers

CONSTANTS
  Groups,      \* the sets of collectors that may be switched on
  Default,     \* the interval of each collector that nobody has set
  Files, Environments,  \* the intervals a file, or the environment, may set
  Checked,     \* the collectors whose interval the loader looks at
  Jitter,      \* jitter_fraction, in percent
  Pulled,      \* the collectors a suspicion wakes
  Fallible,    \* the collectors whose rounds may fail
  Cooldown,    \* SUSPICION_COOLDOWN_S
  BackoffAfter,   \* BACKOFF_AFTER
  MaxBackoff,     \* MAX_BACKOFF_MULTIPLIER
  FailCap,        \* bound: failures in a row are counted up to here
  Battery      \* battery_interval_multiplier while the charge is low, else 1

\* Powers of two; of the operator ^ the provers know nothing.
Doubled[n \in 0 .. FailCap] == IF n = 0 THEN 1 ELSE 2 * Doubled[n - 1]

ASSUME CadenceAssumption ==
  /\ Groups \subseteq SUBSET Collectors
  /\ Default \in [Collectors -> Nat \ {0}]
  /\ \A source \in Files \cup Environments :
       DOMAIN source \subseteq Collectors /\ source \in [DOMAIN source -> Nat \ {0}]
  /\ Checked \subseteq Collectors /\ Pulled \subseteq Collectors \ Checked
  /\ \A c \in Checked : Cost[c] = 1
  /\ Fallible \subseteq Collectors
  /\ Jitter \in 0 .. 50 /\ Cooldown \in Nat \ {0}
  /\ BackoffAfter \in Nat \ {0} /\ MaxBackoff \in Nat \ {0}
  /\ FailCap \in Nat /\ FailCap >= BackoffAfter /\ Doubled[FailCap - BackoffAfter + 1] >= MaxBackoff
  /\ Battery \subseteq Nat \ {0}

VARIABLES
  enabled,   \* the collectors that are switched on
  interval,  \* Collector.interval_s
  due,       \* when the rest of each worker is over
  woken,     \* the workers whose wake event is set
  fails,     \* CollectorWorker._consecutive_failures, as far as it matters
  severity,  \* Agent._last_severity, by rank
  suspected, \* Agent._last_suspicion, Never if there was none
  rose,      \* history: when severity last rose to watch or more
  began,     \* history: when each worker last began a round
  granted,   \* history: a probe of the round under way was granted
  barren     \* history: rounds in a row that were refused every probe

configVars == <<enabled, interval>>
restVars == <<due, woken, fails>>
suspicionVars == <<severity, suspected, rose>>
roundVars == <<began, granted, barren>>
cadenceVars == <<vars, configVars, restVars, suspicionVars, roundVars>>

Never == -1

\* load_config: the defaults, under the file, under the environment.
Merged(file, env) ==
  [c \in Collectors |-> IF c \in DOMAIN env THEN env[c]
                        ELSE IF c \in DOMAIN file THEN file[c] ELSE Default[c]]

AcceptsAll(i) == TRUE
\* NetPulseConfig._check_budget_consistency, of what is merged: the nominal cadence of a checked
\* collector fits its bucket.
Accepts(i) ==
  \A c \in Checked : Period[Kind[c]] * Targets[c] <= Capacity[Kind[c]] * i[c]

\* CollectorWorker.interval: what a rest may last, jitter included, in whole ticks.
Backoff(n) ==
  IF n < BackoffAfter THEN 1
  ELSE LET doubled == Doubled[n - BackoffAfter + 1]
       IN  IF doubled < MaxBackoff THEN doubled ELSE MaxBackoff

Rests(c, n) ==
  {r \in 1 .. MaxTime + 1 : \E b \in Battery :
     LET base == interval[c] * b * Backoff(n)
     IN  \/ 100 * r >= base * (100 - Jitter) /\ 100 * r <= base * (100 + Jitter)
         \/ r = MaxTime + 1 /\ 100 * r <= base * (100 + Jitter)}

-----------------------------------------------------------------------------
CadenceInit ==
  /\ Init
  /\ enabled \in Groups
  /\ \E file \in Files, env \in Environments :
       interval = Merged(file, env) /\ Accepts(interval)
  /\ due = [c \in Collectors |-> 0]
  /\ woken = {}
  /\ fails = [c \in Collectors |-> 0]
  /\ severity = 0 /\ suspected = Never /\ rose = Never
  /\ began = [c \in Collectors |-> Never]
  /\ granted = [c \in Collectors |-> FALSE]
  /\ barren = [c \in Collectors |-> 0]

\* The rest of a worker is over, or something asked for its probe now.
OnTime(c) == c \in enabled /\ at[c] = "idle" /\ (now >= due[c] \/ c \in woken)

Begin(c) ==
  /\ OnTime(c)
  /\ Collect(c)
  /\ woken' = woken \ {c}
  /\ began' = [began EXCEPT ![c] = now]
  /\ UNCHANGED <<configVars, due, fails, suspicionVars, granted, barren>>

\* The worker rests, by how its round went.
Rest(c, ok) ==
  /\ fails' = [fails EXCEPT ![c] = IF ok THEN 0 ELSE IF @ < FailCap THEN @ + 1 ELSE @]
  /\ \E r \in Rests(c, fails'[c]) : due' = [due EXCEPT ![c] = now + r]

\* Collector.collect in a pause: a round without a probe.
SkipRound(c) ==
  /\ OnTime(c) /\ paused
  /\ woken' = woken \ {c}
  /\ began' = [began EXCEPT ![c] = now]
  /\ Rest(c, TRUE)
  /\ UNCHANGED <<vars, configVars, suspicionVars, granted, barren>>

\* The round goes on, or ends and the worker rests; a round that was refused every
\* probe is a round that failed at nothing.
Finish(c, ok) ==
  /\ IF left[c] > 1
       THEN UNCHANGED <<due, fails, granted, barren>>
       ELSE /\ Rest(c, ok)
            /\ granted' = [granted EXCEPT ![c] = FALSE]
            /\ barren' = [barren EXCEPT ![c] =
                 IF granted[c] \/ paused THEN 0 ELSE IF @ < 2 THEN @ + 1 ELSE @]
  /\ UNCHANGED <<configVars, woken, suspicionVars, began>>

Probe(c, ok) ==
  \/ AskPaused(c) /\ Finish(c, TRUE)
  \/ Deny(c) /\ Finish(c, TRUE)
  \/ Send(c) /\ (c \notin Fallible => ok) /\ Finish(c, ok)
  \/ /\ Ask(c) /\ UNCHANGED <<configVars, restVars, suspicionVars, roundVars>>
  \/ /\ Grant(c) /\ granted' = [granted EXCEPT ![c] = TRUE]
     /\ UNCHANGED <<configVars, restVars, suspicionVars, began, barren>>

-----------------------------------------------------------------------------
Watch == 1
Critical == 3

\* A suspicion that comes too soon after the one before.
CoolingDown == suspected # Never /\ now - suspected < Cooldown

SuspectAlways(s) ==
  IF s > severity /\ s >= Watch
    THEN /\ suspected' = now
         /\ woken' = IF CoolingDown THEN woken ELSE woken \cup Pulled
         /\ rose' = now
    ELSE UNCHANGED <<suspected, woken, rose>>

\* Agent._probe_on_suspicion and WorkerSupervisor.trigger.
Suspect(s) ==
  IF s > severity /\ s >= Watch
    THEN /\ rose' = now
         /\ IF CoolingDown THEN UNCHANGED <<suspected, woken>>
            ELSE suspected' = now /\ woken' = woken \cup Pulled
    ELSE UNCHANGED <<suspected, woken, rose>>

\* Severity is of no consequence here where no one is woken by it.
Score(s) ==
  /\ enabled \cap Pulled # {}
  /\ Suspect(s)
  /\ severity' = s
  /\ UNCHANGED <<vars, configVars, due, fails, roundVars>>

Unrelated == UNCHANGED <<configVars, restVars, suspicionVars, roundVars>>

\* A worker whose rest is over begins before the next tick.
Elapse == Advance /\ (\A c \in enabled : ~OnTime(c)) /\ Unrelated

CadenceNext ==
  \/ \E c \in Collectors : \/ Begin(c) \/ SkipRound(c)
                           \/ \E ok \in BOOLEAN : Probe(c, ok)
  \/ \E s \in {0, Watch, Critical} : Score(s)
  \/ Elapse
  \/ Unrelated /\ (Pause \/ Resume \/ Mark)
  \/ Unrelated /\ \E c \in enabled : Available(Kind[c])

CadenceSpec == CadenceInit /\ [][CadenceNext]_cadenceVars

-----------------------------------------------------------------------------
\* No one else draws on the bucket of c.
Alone(c) == \A d \in enabled \ {c} : Kind[d] # Kind[c]

\* test_config.py:78, "an aggressive cadence must fail at load time, not at
\* runtime": jitter may cost a collector whose interval was checked a round now and
\* then, never two in a row, as long as its bucket is its own.
AcceptedIsNotStarved ==
  \A c \in enabled \cap Checked : Alone(c) => barren[c] < 2

\* architecture.md, traceroute and the captive check "run on suspicion": for every
\* rise of severity there is a round of each that began within the cooldown before
\* it or later, unless one is about to begin.
SuspicionIsAnswered ==
  \A c \in enabled \cap Pulled :
    rose # Never /\ c \notin woken => began[c] > rose - Cooldown
=============================================================================
