----------------------------- MODULE Retention -----------------------------
(***************************************************************************)
(* Retention in store/db.py: every scoring tick adds a raw sample, and     *)
(* every maintenance interval the old ones are rolled up into buckets and  *)
(* what is past its window is deleted.  A sample is named by its time; a   *)
(* row of the roll-up is the set of samples its n, averages and maxima are *)
(* taken over, and an empty set is no row.                                 *)
(***************************************************************************)
EXTENDS Naturals

CONSTANTS
  Half,         \* half the width of a bucket, ROLLUP_BUCKET_S
  Interval,     \* MAINTENANCE_INTERVAL_S
  Settings,     \* the retention settings to be looked at
  MaxTime,      \* bound: the clock
  MaxFailures,  \* bound: passes that fail
  MaxRestarts   \* bound: restarts of the agent

ASSUME RetentionAssumption ==
  /\ Half \in Nat \ {0} /\ Interval \in Nat \ {0}
  /\ Settings \subseteq [down : Nat \ {0}, raw : Nat \ {0}, rollup : Nat \ {0}]
  /\ MaxTime \in Nat /\ Interval <= MaxTime
  /\ MaxFailures \in Nat /\ MaxRestarts \in Nat

VARIABLES
  now,     \* the clock
  keep,    \* downsample_after_hours, raw_days and rollup_days
  raw,     \* the samples table
  rolled,  \* the samples_rollup table
  last,    \* Agent._last_maintenance
  taken,   \* history: every sample since the last wipe
  used     \* failed passes and restarts so far

vars == <<now, keep, raw, rolled, last, taken, used>>

Width == 2 * Half
\* ROUND(ts / 300) * 300: the nearest multiple, half a bucket rounds up.
Bucket(t) == ((t + Half) \div Width) * Width
Buckets == {Bucket(t) : t \in 0 .. MaxTime}

Spend(kind, bound) == used[kind] < bound /\ used' = [used EXCEPT ![kind] = @ + 1]

-----------------------------------------------------------------------------
\* An agent that has never maintained anything does so on its first tick.
Init ==
  /\ now = Interval
  /\ keep \in Settings
  /\ raw = {} /\ taken = {}
  /\ rolled = [b \in Buckets |-> {}]
  /\ last = 0
  /\ used = [k \in {"failure", "restart"} |-> 0]

OldInclusive(all) == {t \in all : t + keep.down <= now}
\* The raw samples that are old enough to be rolled up.
Old(all) == {t \in all : t + keep.down < now}

KeptRawForever(all) == all \ Old(all)
\* What stays raw: downsampling first, then the hard ceiling of raw_days.
KeptRaw(all) == {t \in all \ Old(all) : now <= t + keep.raw}

RolledByRawWindow(all, b) ==
  LET fresh == {t \in Old(all) : Bucket(t) = b}
  IN  IF b + keep.down < now THEN {} ELSE IF fresh # {} THEN fresh ELSE rolled[b]
\* INSERT OR REPLACE: a bucket that gets samples in this pass loses those it had.
RolledRow(all, b) ==
  LET fresh == {t \in Old(all) : Bucket(t) = b}
  IN  IF b + keep.rollup < now THEN {} ELSE IF fresh # {} THEN fresh ELSE rolled[b]

RollupLeavesRaw(all) ==
  /\ rolled' = [b \in Buckets |-> RolledRow(all, b)]
  /\ raw' = {t \in all : now <= t + keep.raw}
\* rollup_and_prune, one transaction.
RollupAndPrune(all) ==
  /\ rolled' = [b \in Buckets |-> RolledRow(all, b)]
  /\ raw' = KeptRaw(all)

\* A scoring tick: the sample is stored, then _maybe_maintain runs if it is due.
\* A pass that raises is rolled back and waits for the next interval.
Tick ==
  LET all == raw \cup {now}
  IN  /\ now \notin taken
      /\ taken' = taken \cup {now}
      /\ IF now >= last + Interval
           THEN /\ last' = now
                /\ \/ RollupAndPrune(all) /\ UNCHANGED used
                   \/ Spend("failure", MaxFailures) /\ raw' = all /\ UNCHANGED rolled
           ELSE raw' = all /\ UNCHANGED <<rolled, last, used>>
      /\ UNCHANGED <<now, keep>>

\* Time passes, whether the agent runs and measures something or not.
Advance ==
  /\ now < MaxTime
  /\ now' = now + 1
  /\ UNCHANGED <<keep, raw, rolled, last, taken, used>>

\* A new agent does not know when the last maintenance was.
Restart ==
  /\ Spend("restart", MaxRestarts)
  /\ last' = 0
  /\ UNCHANGED <<now, keep, raw, rolled, taken>>

\* Database.wipe, for these two tables.
Wipe ==
  /\ raw' = {} /\ taken' = {}
  /\ rolled' = [b \in Buckets |-> {}]
  /\ UNCHANGED <<now, keep, last, used>>

Next == Tick \/ Advance \/ Restart \/ Wipe

Spec == Init /\ [][Next]_vars

-----------------------------------------------------------------------------
\* Every variable has its type.
TypeOK ==
  /\ now \in 0 .. MaxTime /\ last \in 0 .. now
  /\ keep \in Settings
  /\ raw \subseteq taken /\ taken \subseteq 0 .. now
  /\ rolled \in [Buckets -> SUBSET taken]
  /\ used \in [{"failure", "restart"} -> Nat]

\* No sample counts twice: one that is part of a roll-up row is no longer raw,
\* and it is part of the row of its own bucket only.
CountedOnce ==
  \A b \in Buckets : /\ rolled[b] \cap raw = {}
                     /\ \A t \in rolled[b] : Bucket(t) = b

Window == IF keep.down < keep.raw THEN keep.down ELSE keep.raw

\* Nothing is thrown away early: a sample inside both windows is still raw.
YoungStaysRaw ==
  \A t \in taken : now <= t + Window => t \in raw

\* The windows hold without anybody asking: right after a tick, and if no pass
\* failed, nothing is older than its window and one maintenance interval.
WindowsEnforced ==
  now \in taken /\ used["failure"] = 0
    => /\ \A t \in raw : now < t + Window + Interval
       /\ \A b \in Buckets : rolled[b] # {} => now < b + keep.rollup + Interval

\* With a raw window that covers the downsampling age, a sample that is in
\* neither table although its bucket is not past the roll-up window was replaced
\* by later samples of that same bucket: no bucket is ever lost as a whole.
LossIsLocal ==
  \A t \in taken :
    keep.down <= keep.raw /\ now <= Bucket(t) + keep.rollup
      => t \in raw \/ \E u \in rolled[Bucket(t)] : u >= t
=============================================================================
