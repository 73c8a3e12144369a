---------------------------- MODULE ProbeBudget ----------------------------
(***************************************************************************)
(* core/ratelimit.py and its callers: active collectors ask a token bucket *)
(* before each probe, and pause makes every acquisition fail.  The check   *)
(* of the pause switch and the taking of tokens are two critical sections. *)
(* Tokens are counted in fractions of 1/Period, so a bucket refills by     *)
(* Capacity units in each tick of the clock.                               *)
(***************************************************************************)
EXTENDS Naturals

CONSTANTS
  Kinds,       \* the buckets
  Capacity,    \* probes per period, by kind: also the burst allowance
  Period,      \* the period in ticks of the clock, by kind
  Collectors,  \* the active collectors
  Kind,        \* the bucket a collector asks
  Cost,        \* tokens per probe: PING_COUNT for the gateway, else one
  Targets,     \* how many targets the collector probes in a round
  MaxTime      \* bound: ticks of the clock

ASSUME BudgetAssumption ==
  /\ Capacity \in [Kinds -> Nat \ {0}]
  /\ Period \in [Kinds -> Nat \ {0}]
  /\ Kind \in [Collectors -> Kinds]
  /\ Cost \in [Collectors -> Nat \ {0}]
  /\ Targets \in [Collectors -> Nat \ {0}]
  /\ MaxTime \in Nat

VARIABLES
  now,     \* the monotonic clock
  tokens,  \* TokenBucket.tokens, in units of 1/Period
  last,    \* TokenBucket._last
  paused,  \* ProbeBudget._paused
  at,      \* where the collect of each collector is
  left,    \* targets it has still to probe, the current one included
  mark,    \* history: some moment in the past ...
  spent,   \* ... and the tokens granted by each bucket since
  late     \* history: probes sent during this pause

bucketVars == <<tokens, last, spent>>
vars == <<now, bucketVars, paused, at, left, mark, late>>

Full(k) == Capacity[k] * Period[k]

\* TokenBucket._refill: what the bucket holds now.
Refilled(k) ==
  LET grown == tokens[k] + (now - last[k]) * Capacity[k]
  IN  IF grown < Full(k) THEN grown ELSE Full(k)

Init ==
  /\ now = 0
  /\ tokens = [k \in Kinds |-> Full(k)]
  /\ last = [k \in Kinds |-> 0]
  /\ paused = FALSE
  /\ at = [c \in Collectors |-> "idle"]
  /\ left = [c \in Collectors |-> 0]
  /\ mark = 0
  /\ spent = [k \in Kinds |-> 0]
  /\ late = [c \in Collectors |-> 0]

-----------------------------------------------------------------------------
\* Collector.collect runs only while probing is not paused.
Collect(c) ==
  /\ at[c] = "idle" /\ ~paused
  /\ at' = [at EXCEPT ![c] = "probe"]
  /\ left' = [left EXCEPT ![c] = Targets[c]]
  /\ UNCHANGED <<now, bucketVars, paused, mark, late>>

\* The collector goes on to its next target, or its round is over.
NextTarget(c) ==
  /\ left' = [left EXCEPT ![c] = @ - 1]
  /\ at' = [at EXCEPT ![c] = IF left[c] > 1 THEN "probe" ELSE "idle"]

\* ProbeBudget.acquire: the pause switch, read under the lock of the budget.
AskPaused(c) ==
  /\ at[c] = "probe" /\ paused
  /\ NextTarget(c)
  /\ UNCHANGED <<now, bucketVars, paused, mark, late>>

AskUnchecked(c) ==
  /\ at[c] = "probe"
  /\ at' = [at EXCEPT ![c] = "ask"]
  /\ UNCHANGED <<now, bucketVars, paused, left, mark, late>>

Ask(c) ==
  /\ at[c] = "probe" /\ ~paused
  /\ at' = [at EXCEPT ![c] = "ask"]
  /\ UNCHANGED <<now, bucketVars, paused, left, mark, late>>

\* TokenBucket.try_acquire, under the lock of the bucket.
Grant(c) ==
  LET k == Kind[c] need == Cost[c] * Period[k]
  IN  /\ at[c] = "ask"
      /\ Refilled(k) >= need
      /\ tokens' = [tokens EXCEPT ![k] = Refilled(k) - need]
      /\ last' = [last EXCEPT ![k] = now]
      /\ spent' = [spent EXCEPT ![k] = @ + Cost[c]]
      /\ at' = [at EXCEPT ![c] = "send"]
      /\ UNCHANGED <<now, paused, left, mark, late>>

Deny(c) ==
  LET k == Kind[c]
  IN  /\ at[c] = "ask"
      /\ Refilled(k) < Cost[c] * Period[k]
      /\ tokens' = [tokens EXCEPT ![k] = Refilled(k)]
      /\ last' = [last EXCEPT ![k] = now]
      /\ NextTarget(c)
      /\ UNCHANGED <<now, spent, paused, mark, late>>

\* The probe is put on the wire.
Send(c) ==
  /\ at[c] = "send"
  /\ late' = [late EXCEPT ![c] = IF paused THEN @ + 1 ELSE @]
  /\ NextTarget(c)
  /\ UNCHANGED <<now, bucketVars, paused, mark>>

AvailableForgets(k) ==
  /\ tokens' = [tokens EXCEPT ![k] = Refilled(k)]
  /\ UNCHANGED <<now, last, spent, paused, at, left, mark, late>>

\* TokenBucket.available, for the status page.
Available(k) ==
  /\ tokens' = [tokens EXCEPT ![k] = Refilled(k)]
  /\ last' = [last EXCEPT ![k] = now]
  /\ UNCHANGED <<now, spent, paused, at, left, mark, late>>

Pause ==
  /\ paused' = TRUE
  /\ UNCHANGED <<now, bucketVars, at, left, mark, late>>

Resume ==
  /\ paused' = FALSE
  /\ late' = [c \in Collectors |-> 0]
  /\ UNCHANGED <<now, bucketVars, at, left, mark>>

Advance ==
  /\ now < MaxTime
  /\ now' = now + 1
  /\ UNCHANGED <<bucketVars, paused, at, left, mark, late>>

\* Not a step of the program: the observer starts counting at any moment.
Mark ==
  /\ mark' = now
  /\ spent' = [k \in Kinds |-> 0]
  /\ UNCHANGED <<now, tokens, last, paused, at, left, late>>

Collector(c) ==
  Collect(c) \/ AskPaused(c) \/ Ask(c) \/ Grant(c) \/ Deny(c) \/ Send(c)

Next ==
  \/ \E c \in Collectors : Collector(c)
  \/ \E k \in Kinds : Available(k)
  \/ Pause \/ Resume \/ Advance \/ Mark

Spec == Init /\ [][Next]_vars

-----------------------------------------------------------------------------
\* Every variable has its type; a bucket never holds more than its capacity.
TypeOK ==
  /\ now \in Nat /\ mark \in 0 .. now
  /\ tokens \in [Kinds -> Nat] /\ \A k \in Kinds : tokens[k] <= Full(k)
  /\ last \in [Kinds -> Nat] /\ \A k \in Kinds : last[k] <= now
  /\ paused \in BOOLEAN
  /\ at \in [Collectors -> {"idle", "probe", "ask", "send"}]
  /\ left \in [Collectors -> Nat] /\ \A c \in Collectors : at[c] # "idle" => left[c] > 0
  /\ spent \in [Kinds -> Nat] /\ late \in [Collectors -> Nat]

\* N5, probe rates are enforced in code: from any moment on, however long, a
\* bucket grants at most one burst and then its rate, whoever asks and however
\* often; in particular never more than twice the configured number per period.
RateEnforced ==
  \A k \in Kinds : spent[k] * Period[k] <= Capacity[k] * (Period[k] + (now - mark))

\* A pause takes hold within the probe that is being asked for: after it every
\* collector sends at most one more.
AtMostOneLateProbe == \A c \in Collectors : late[c] <= 1
=============================================================================
