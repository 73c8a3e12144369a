-------------------------- MODULE RetentionProofs --------------------------
(***************************************************************************)
(* Retention for every bucket width, interval, setting and length of time. *)
(* The inductive invariant is TypeOK with four facts about the tables; the *)
(* one that is not a property itself is RolledFirst: within a bucket the   *)
(* samples that were rolled up are earlier than the ones still raw.  It    *)
(* holds because the cutoff rolls up the earlier part, and it is why the   *)
(* row that replaces another holds later samples.                          *)
(***************************************************************************)
EXTENDS Retention, TLAPS

USE RetentionAssumption

RolledFirst ==
  \A b \in Buckets : \A u \in rolled[b], t \in raw : Bucket(t) = b => u < t

\* Nothing is older than it was allowed to be at the last maintenance.
Fresh ==
  used["failure"] = 0
    => /\ \A t \in raw : last <= t + Window
       /\ \A b \in Buckets : rolled[b] # {} => last <= b + keep.rollup

-----------------------------------------------------------------------------
\* A bucket of a sample within the clock's range is one of the buckets.
LEMMA BucketIn == \A t \in 0 .. MaxTime : Bucket(t) \in Buckets
BY DEF Buckets

\* What a setting is made of.
LEMMA KeepType ==
  ASSUME keep \in Settings
  PROVE  /\ keep.down \in Nat /\ keep.raw \in Nat /\ keep.rollup \in Nat
         /\ Window \in Nat /\ Window <= keep.down /\ Window <= keep.raw
         /\ Window = keep.down \/ Window = keep.raw
<1>1. keep \in [down : Nat \ {0}, raw : Nat \ {0}, rollup : Nat \ {0}]
  OBVIOUS
<1>. QED BY <1>1 DEF Window

\* What one tick does, in terms of the samples it starts with.
LEMMA TickCases ==
  ASSUME TypeOK, Tick, NEW all, all = raw \cup {now}
  PROVE  /\ now \notin taken /\ taken' = taken \cup {now}
         /\ now' = now /\ keep' = keep
         /\ \/ /\ RollupAndPrune(all) /\ last' = now /\ used' = used
            \/ /\ raw' = all /\ rolled' = rolled /\ last' = now
               /\ used' = [used EXCEPT !["failure"] = @ + 1]
            \/ /\ raw' = all /\ rolled' = rolled /\ last' = last /\ used' = used
               /\ now < last + Interval
<1>1. CASE now >= last + Interval
  BY <1>1 DEF Tick, Spend
<1>2. CASE ~(now >= last + Interval)
  <2>1. now \in Nat /\ last \in Nat
    BY DEF TypeOK
  <2>. QED BY <1>2, <2>1 DEF Tick
<1>. QED BY <1>1, <1>2

-----------------------------------------------------------------------------
\* The variables keep their types.
LEMMA StepType == TypeOK /\ [Next]_vars => TypeOK'
<1> SUFFICES ASSUME TypeOK, [Next]_vars PROVE TypeOK'
  OBVIOUS
<1>1. CASE Tick
  <2> DEFINE all == raw \cup {now}
  <2>1. /\ taken' = taken \cup {now} /\ now' = now /\ keep' = keep
        /\ last' \in {now, last}
    BY <1>1, TickCases
  <2>2. raw' \subseteq all
    BY <1>1, TickCases DEF RollupAndPrune, KeptRaw, Old
  <2>4. used' \in [{"failure", "restart"} -> Nat]
    <3>1. used' = used \/ used' = [used EXCEPT !["failure"] = @ + 1]
      BY <1>1, TickCases
    <3>. QED BY <3>1 DEF TypeOK
  <2>3. rolled' \in [Buckets -> SUBSET taken']
    <3>1. CASE rolled' = rolled
      BY <2>1, <3>1 DEF TypeOK
    <3>2. CASE rolled' = [b \in Buckets |-> RolledRow(all, b)]
      <4>1. \A b \in Buckets : RolledRow(all, b) \in SUBSET taken'
        BY <2>1 DEF RolledRow, Old, TypeOK
      <4>. QED BY <3>2, <4>1
    <3>. QED BY <1>1, <3>1, <3>2, TickCases DEF RollupAndPrune
  <2>. QED BY <2>1, <2>2, <2>3, <2>4 DEF TypeOK
<1>2. CASE Advance
  BY <1>2 DEF Advance, TypeOK
<1>3. CASE Restart
  BY <1>3 DEF Restart, Spend, TypeOK
<1>4. CASE Wipe
  BY <1>4 DEF Wipe, TypeOK
<1>5. CASE UNCHANGED vars
  BY <1>5 DEF vars, TypeOK
<1>. QED BY <1>1, <1>2, <1>3, <1>4, <1>5 DEF Next

\* Every variable has its type in every reachable state.
THEOREM TypeCorrect == Spec => []TypeOK
<1>1. Init => TypeOK
  BY DEF Init, TypeOK
<1>. QED BY <1>1, StepType, PTL DEF Spec

-----------------------------------------------------------------------------
\* A pass takes from the raw samples exactly what it puts into rows.
LEMMA StepCounted == TypeOK /\ CountedOnce /\ [Next]_vars => CountedOnce'
<1> SUFFICES ASSUME TypeOK, CountedOnce, [Next]_vars, NEW b \in Buckets
             PROVE  rolled'[b] \cap raw' = {} /\ \A t \in rolled'[b] : Bucket(t) = b
  BY DEF CountedOnce
<1>a. rolled[b] \cap raw = {} /\ \A t \in rolled[b] : Bucket(t) = b
  BY DEF CountedOnce
<1>1. CASE Tick
  <2> DEFINE all == raw \cup {now}
  <2>1. now \notin rolled[b]
    BY <1>1 DEF Tick, TypeOK
  <2>2. CASE rolled' = rolled /\ raw' = all
    BY <1>a, <2>1, <2>2
  <2>3. CASE RollupAndPrune(all)
    <3>1. rolled'[b] = RolledRow(all, b) /\ raw' \subseteq all \ Old(all)
      BY <2>3 DEF RollupAndPrune, KeptRaw
    <3>2. \/ rolled'[b] = {} \/ rolled'[b] = rolled[b]
          \/ rolled'[b] = {t \in Old(all) : Bucket(t) = b}
      BY <3>1 DEF RolledRow
    <3>. QED BY <1>a, <2>1, <3>1, <3>2
  <2>. QED BY <1>1, <2>2, <2>3, TickCases
<1>2. CASE Advance \/ Restart \/ UNCHANGED vars
  BY <1>a, <1>2 DEF Advance, Restart, vars
<1>3. CASE Wipe
  BY <1>3 DEF Wipe
<1>. QED BY <1>1, <1>2, <1>3 DEF Next

\* No sample is counted twice, in two rows or in a row and among the raw ones.
THEOREM CountCorrect == Spec => []CountedOnce
<1>1. Init => CountedOnce
  BY DEF Init, CountedOnce
<1>. QED BY <1>1, StepCounted, TypeCorrect, PTL DEF Spec

-----------------------------------------------------------------------------
\* A step keeps the samples that are inside both windows.
LEMMA StepYoung == TypeOK /\ YoungStaysRaw /\ [Next]_vars => YoungStaysRaw'
<1> SUFFICES ASSUME TypeOK, YoungStaysRaw, [Next]_vars,
                    NEW t \in taken', now' <= t + Window'
             PROVE  t \in raw'
  BY DEF YoungStaysRaw
<1>a. keep \in Settings /\ keep' = keep
  BY DEF TypeOK, Next, Tick, Advance, Restart, Wipe, vars
<1>b. Window' = Window /\ Window \in Nat /\ Window <= keep.down /\ Window <= keep.raw
      /\ keep.down \in Nat /\ keep.raw \in Nat
  BY <1>a, KeepType DEF Window
<1>c. now \in Nat /\ taken \subseteq Nat
  BY DEF TypeOK
<1>1. CASE Tick
  <2> DEFINE all == raw \cup {now}
  <2>1. now' = now /\ t \in taken \cup {now}
    BY <1>1, TickCases
  <2>2. t \in all
    BY <1>b, <2>1 DEF YoungStaysRaw
  <2>3. t \in Nat /\ now <= t + keep.down /\ now <= t + keep.raw
    BY <1>b, <1>c, <2>1
  <2>4. t \in KeptRaw(all)
    BY <1>b, <1>c, <2>2, <2>3 DEF KeptRaw, Old
  <2>. QED BY <1>1, <2>2, <2>4, TickCases DEF RollupAndPrune
<1>2. CASE Advance
  <2>1. now' = now + 1 /\ raw' = raw /\ taken' = taken
    BY <1>2 DEF Advance
  <2>2. t \in Nat /\ now <= t + Window
    BY <1>b, <1>c, <2>1
  <2>. QED BY <2>1, <2>2 DEF YoungStaysRaw
<1>3. CASE Wipe
  BY <1>3 DEF Wipe
<1>4. CASE Restart \/ UNCHANGED vars
  BY <1>4, <1>b DEF Restart, vars, YoungStaysRaw
<1>. QED BY <1>1, <1>2, <1>3, <1>4 DEF Next

\* No sample is thrown away or rolled up before its time.
THEOREM YoungCorrect == Spec => []YoungStaysRaw
<1>1. Init => YoungStaysRaw
  BY DEF Init, YoungStaysRaw
<1>. QED BY <1>1, StepYoung, TypeCorrect, PTL DEF Spec

-----------------------------------------------------------------------------
\* What a pass leaves in the samples table.
LEMMA PassRaw ==
  ASSUME TypeOK, NEW all, all \subseteq 0 .. now, RollupAndPrune(all), NEW t \in raw'
  PROVE  t \in all /\ now <= t + Window /\ now <= t + keep.down
<1>1. now \in Nat /\ keep \in Settings
  BY DEF TypeOK
<1>2. keep.down \in Nat /\ keep.raw \in Nat /\ (Window = keep.down \/ Window = keep.raw)
  BY <1>1, KeepType
<1>3. t \in all /\ t \notin Old(all) /\ now <= t + keep.raw
  BY DEF RollupAndPrune, KeptRaw
<1>4. t \in Nat
  BY <1>1, <1>3
<1>5. now <= t + keep.down
  BY <1>1, <1>2, <1>3, <1>4 DEF Old
<1>. QED BY <1>2, <1>3, <1>5

\* What it leaves in a row of the roll-up.
LEMMA PassRolled ==
  ASSUME TypeOK, NEW all, RollupAndPrune(all), NEW b \in Buckets
  PROVE  /\ rolled'[b] # {} => now <= b + keep.rollup
         /\ now <= b + keep.rollup
              => \/ rolled'[b] = {t \in Old(all) : Bucket(t) = b} /\ rolled'[b] # {}
                 \/ rolled'[b] = rolled[b] /\ {t \in Old(all) : Bucket(t) = b} = {}
<1>1. now \in Nat /\ keep.rollup \in Nat /\ b \in Nat
  BY KeepType DEF TypeOK, Buckets, Bucket, Width
<1>2. rolled'[b] = RolledRow(all, b)
  BY DEF RollupAndPrune
<1>3. CASE b + keep.rollup < now
  <2>1. rolled'[b] = {}
    BY <1>2, <1>3 DEF RolledRow
  <2>2. ~(now <= b + keep.rollup)
    BY <1>1, <1>3
  <2>. QED BY <2>1, <2>2
<1>4. CASE ~(b + keep.rollup < now)
  <2>1. now <= b + keep.rollup
    BY <1>1, <1>4
  <2>. QED BY <1>2, <1>4, <2>1 DEF RolledRow
<1>. QED BY <1>3, <1>4

\* Between two passes nothing gets older than it was allowed to be at the first.
LEMMA StepFresh == TypeOK /\ Fresh /\ [Next]_vars => Fresh'
<1> SUFFICES ASSUME TypeOK, Fresh, [Next]_vars, used'["failure"] = 0
             PROVE  /\ \A t \in raw' : last' <= t + Window'
                    /\ \A b \in Buckets : rolled'[b] # {} => last' <= b + keep'.rollup
  BY DEF Fresh
<1>a. keep \in Settings /\ keep' = keep /\ Window' = Window /\ used["failure"] \in Nat
  BY DEF TypeOK, Next, Tick, Advance, Restart, Wipe, vars, Window
<1>b. Window \in Nat /\ keep.rollup \in Nat /\ now \in Nat /\ last \in 0 .. now
      /\ raw \subseteq 0 .. now
  BY <1>a, KeepType DEF TypeOK
<1>c. \A b \in Buckets : b \in Nat
  BY DEF Buckets, Bucket, Width
<1>1. CASE Tick
  <2> DEFINE all == raw \cup {now}
  <2>1. CASE RollupAndPrune(all) /\ last' = now
    <3>1. all \subseteq 0 .. now
      BY <1>b
    <3>2. \A t \in raw' : now <= t + Window
      BY <2>1, <3>1, PassRaw
    <3>3. \A b \in Buckets : rolled'[b] # {} => now <= b + keep.rollup
      BY <2>1, PassRolled
    <3>. QED BY <1>a, <2>1, <3>2, <3>3
  <2>2. CASE raw' = all /\ rolled' = rolled /\ last' = last /\ used' = used
    <3>1. \A t \in raw : last <= t + Window
      BY <2>2 DEF Fresh
    <3>2. \A b \in Buckets : rolled[b] # {} => last <= b + keep.rollup
      BY <2>2 DEF Fresh
    <3>3. last <= now + Window
      BY <1>b
    <3>. QED BY <1>a, <2>2, <3>1, <3>2, <3>3
  <2>3. used' # [used EXCEPT !["failure"] = @ + 1]
    BY <1>a DEF TypeOK
  <2>. QED BY <1>1, <2>1, <2>2, <2>3, TickCases
<1>2. CASE Advance
  BY <1>a, <1>2 DEF Advance, Fresh
<1>3. CASE Restart
  <2>1. last' = 0 /\ raw' = raw /\ rolled' = rolled
    BY <1>3 DEF Restart
  <2>. QED BY <1>a, <1>b, <1>c, <2>1
<1>4. CASE Wipe
  BY <1>4 DEF Wipe
<1>5. CASE UNCHANGED vars
  BY <1>a, <1>5 DEF vars, Fresh
<1>. QED BY <1>1, <1>2, <1>3, <1>4, <1>5 DEF Next

\* A tick leaves nothing that is past its window by more than an interval.
LEMMA StepWindows == TypeOK /\ Fresh /\ WindowsEnforced /\ [Next]_vars => WindowsEnforced'
<1> SUFFICES ASSUME TypeOK, Fresh, WindowsEnforced, [Next]_vars,
                    now' \in taken', used'["failure"] = 0
             PROVE  /\ \A t \in raw' : now' < t + Window' + Interval
                    /\ \A b \in Buckets :
                         rolled'[b] # {} => now' < b + keep'.rollup + Interval
  BY DEF WindowsEnforced
<1>a. keep \in Settings /\ keep' = keep /\ Window' = Window /\ used["failure"] \in Nat
  BY DEF TypeOK, Next, Tick, Advance, Restart, Wipe, vars, Window
<1>b. Window \in Nat /\ keep.rollup \in Nat /\ now \in Nat /\ last \in Nat
      /\ raw \subseteq Nat /\ taken \subseteq 0 .. now
  BY <1>a, KeepType DEF TypeOK
<1>c. \A b \in Buckets : b \in Nat
  BY DEF Buckets, Bucket, Width
<1>1. CASE Tick
  <2> DEFINE all == raw \cup {now}
  <2>0. now' = now
    BY <1>1, TickCases
  <2>1. CASE RollupAndPrune(all)
    <3>1. all \subseteq 0 .. now
      BY <1>b DEF TypeOK
    <3>2. \A t \in raw' : t \in Nat /\ now <= t + Window
      BY <1>b, <2>1, <3>1, PassRaw
    <3>3. \A b \in Buckets : rolled'[b] # {} => now <= b + keep.rollup
      BY <2>1, PassRolled
    <3>. QED BY <1>a, <1>b, <1>c, <2>0, <3>2, <3>3
  <2>2. CASE /\ raw' = all /\ rolled' = rolled /\ used' = used /\ now < last + Interval
    <3>1. \A t \in raw : last <= t + Window
      BY <2>2 DEF Fresh
    <3>2. \A b \in Buckets : rolled[b] # {} => last <= b + keep.rollup
      BY <2>2 DEF Fresh
    <3>. QED BY <1>a, <1>b, <1>c, <2>0, <2>2, <3>1, <3>2
  <2>3. used' # [used EXCEPT !["failure"] = @ + 1]
    BY <1>a DEF TypeOK
  <2>. QED BY <1>1, <2>1, <2>2, <2>3, TickCases
<1>2. CASE Advance
  <2>1. now' = now + 1 /\ taken' = taken
    BY <1>2 DEF Advance
  <2>. QED BY <1>b, <2>1
<1>3. CASE Restart
  <2>1. now' = now /\ taken' = taken /\ raw' = raw /\ rolled' = rolled
        /\ used' = [used EXCEPT !["restart"] = @ + 1]
    BY <1>3 DEF Restart, Spend
  <2>2. used["failure"] = 0
    BY <2>1 DEF TypeOK
  <2>. QED BY <1>a, <2>1, <2>2 DEF WindowsEnforced
<1>4. CASE Wipe
  BY <1>4 DEF Wipe
<1>5. CASE UNCHANGED vars
  BY <1>a, <1>5 DEF vars, WindowsEnforced
<1>. QED BY <1>1, <1>2, <1>3, <1>4, <1>5 DEF Next

\* Retention is enforced to within one maintenance interval.
THEOREM WindowsCorrect == Spec => []WindowsEnforced
<1>1. Init => Fresh /\ WindowsEnforced
  BY DEF Init, Fresh, WindowsEnforced
<1>. QED BY <1>1, StepFresh, StepWindows, TypeCorrect, PTL DEF Spec

-----------------------------------------------------------------------------
\* A pass rolls up the earlier part of a bucket and a tick adds the latest one.
LEMMA StepFirst == TypeOK /\ RolledFirst /\ [Next]_vars => RolledFirst'
<1> SUFFICES ASSUME TypeOK, RolledFirst, [Next]_vars,
                    NEW b \in Buckets, NEW u \in rolled'[b], NEW t \in raw', Bucket(t) = b
             PROVE  u < t
  BY DEF RolledFirst
<1>a. \A v \in rolled[b], w \in raw : Bucket(w) = b => v < w
  BY DEF RolledFirst
<1>b. now \in Nat /\ keep.down \in Nat /\ raw \subseteq 0 .. now /\ taken \subseteq 0 .. now
      /\ rolled[b] \subseteq taken
  BY KeepType DEF TypeOK
<1>1. CASE Tick
  <2> DEFINE all == raw \cup {now}
  <2>1. \A v \in rolled[b], w \in all : Bucket(w) = b => v < w
    <3> SUFFICES ASSUME NEW v \in rolled[b], NEW w \in all, Bucket(w) = b
                 PROVE  v < w
      OBVIOUS
    <3>1. v \in 0 .. now /\ v # now
      BY <1>1, <1>b DEF Tick
    <3>2. CASE w = now
      BY <1>b, <3>1, <3>2
    <3>3. CASE w \in raw
      BY <1>a, <3>3
    <3>. QED BY <3>2, <3>3
  <2>2. CASE raw' = all /\ rolled' = rolled
    BY <2>1, <2>2
  <2>3. CASE RollupAndPrune(all)
    <3>1. all \subseteq 0 .. now
      BY <1>b
    <3>2. t \in all /\ now <= t + keep.down
      BY <2>3, <3>1, PassRaw
    <3>3. rolled'[b] = {v \in Old(all) : Bucket(v) = b} \/ rolled'[b] = rolled[b]
      <4>1. keep.rollup \in Nat /\ b \in Nat
        BY KeepType DEF TypeOK, Buckets, Bucket, Width
      <4>2. now <= b + keep.rollup
        BY <2>3, PassRolled
      <4>. QED BY <2>3, <4>2, PassRolled
    <3>4. CASE rolled'[b] = rolled[b]
      BY <2>1, <3>2, <3>4
    <3>5. CASE rolled'[b] = {v \in Old(all) : Bucket(v) = b}
      <4>1. u \in all /\ u + keep.down < now
        BY <3>5 DEF Old
      <4>2. u \in Nat /\ t \in Nat
        BY <3>1, <3>2, <4>1
      <4>. QED BY <1>b, <3>2, <4>1, <4>2
    <3>. QED BY <3>3, <3>4, <3>5
  <2>. QED BY <1>1, <2>2, <2>3, TickCases
<1>2. CASE Advance \/ Restart \/ UNCHANGED vars
  BY <1>a, <1>2 DEF Advance, Restart, vars
<1>3. CASE Wipe
  BY <1>3 DEF Wipe
<1>. QED BY <1>1, <1>2, <1>3 DEF Next

\* A row is only ever replaced by a row of later samples.
LEMMA StepLocal == TypeOK /\ RolledFirst /\ LossIsLocal /\ [Next]_vars => LossIsLocal'
<1> SUFFICES ASSUME TypeOK, RolledFirst, LossIsLocal, [Next]_vars, NEW t \in taken',
                    keep'.down <= keep'.raw, now' <= Bucket(t) + keep'.rollup
             PROVE  t \in raw' \/ \E u \in rolled'[Bucket(t)] : u >= t
  BY DEF LossIsLocal
<1>a. keep \in Settings /\ keep' = keep
  BY DEF TypeOK, Next, Tick, Advance, Restart, Wipe, vars
<1>b. /\ now \in 0 .. MaxTime /\ raw \subseteq taken /\ taken \subseteq 0 .. now
      /\ keep.down \in Nat /\ keep.raw \in Nat /\ keep.rollup \in Nat
  BY <1>a, KeepType DEF TypeOK
<1>c. \A s \in taken : now <= Bucket(s) + keep.rollup
        => s \in raw \/ \E u \in rolled[Bucket(s)] : u >= s
  BY <1>a DEF LossIsLocal
<1>d. \A s \in Nat : Bucket(s) \in Nat
  BY DEF Bucket, Width
<1>1. CASE Tick
  <2> DEFINE all == raw \cup {now}
             b == Bucket(t)
  <2>1. now' = now /\ t \in taken \cup {now} /\ now <= Bucket(t) + keep.rollup
    BY <1>1, <1>a, TickCases
  <2>2. t \in all \/ \E u \in rolled[b] : u >= t
    BY <1>c, <2>1
  <2>3. CASE raw' = all /\ rolled' = rolled
    BY <2>2, <2>3
  <2>4. CASE RollupAndPrune(all)
    <3>1. b \in Buckets /\ t \in Nat
      BY <1>b, <2>1, BucketIn
    <3> DEFINE new == {v \in Old(all) : Bucket(v) = b}
    <3>2. (rolled'[b] = new /\ new # {}) \/ (rolled'[b] = rolled[b] /\ new = {})
      BY <2>1, <2>4, <3>1, PassRolled
    <3>3. CASE t \in new
      BY <3>1, <3>2, <3>3
    <3>4. CASE t \in all /\ t \notin new
      <4>1. t \in all \ Old(all)
        BY <3>4
      <4>2. now <= t + keep.raw
        BY <1>a, <1>b, <3>1, <4>1 DEF Old
      <4>. QED BY <2>4, <4>1, <4>2 DEF RollupAndPrune, KeptRaw
    <3>5. CASE \E u \in rolled[b] : u >= t
      <4>1. PICK u \in rolled[b] : u >= t
        BY <3>5
      <4>2. u \in Nat /\ u # now
        BY <1>1, <1>b, <3>1 DEF TypeOK, Tick
      <4>3. CASE rolled'[b] = rolled[b]
        BY <4>1, <4>3
      <4>4. CASE rolled'[b] = new /\ new # {}
        <5>1. PICK v \in new : TRUE
          BY <4>4
        <5>2. v \in all /\ Bucket(v) = b /\ v \in Nat
          BY <1>b, <5>1 DEF Old
        <5>3. u < v
          <6>1. CASE v = now
            BY <1>b, <3>1, <4>1, <4>2, <6>1 DEF TypeOK
          <6>2. CASE v \in raw
            BY <3>1, <4>1, <5>2, <6>2 DEF RolledFirst
          <6>. QED BY <5>2, <6>1, <6>2
        <5>. QED BY <3>1, <4>1, <4>2, <4>4, <5>1, <5>2, <5>3
      <4>. QED BY <3>2, <4>1, <4>3, <4>4
    <3>. QED BY <2>2, <3>3, <3>4, <3>5
  <2>. QED BY <1>1, <2>3, <2>4, TickCases
<1>2. CASE Advance
  <2>1. now' = now + 1 /\ taken' = taken /\ raw' = raw /\ rolled' = rolled
    BY <1>2 DEF Advance
  <2>2. t \in Nat /\ now <= Bucket(t) + keep.rollup
    BY <1>a, <1>b, <1>d, <2>1
  <2>. QED BY <1>c, <2>1, <2>2
<1>3. CASE Restart \/ UNCHANGED vars
  BY <1>a, <1>c, <1>3 DEF Restart, vars
<1>4. CASE Wipe
  BY <1>4 DEF Wipe
<1>. QED BY <1>1, <1>2, <1>3, <1>4 DEF Next

\* What a roll-up loses it loses to later samples of the same bucket.
THEOREM LossCorrect == Spec => []LossIsLocal
<1>1. Init => RolledFirst /\ LossIsLocal
  BY DEF Init, RolledFirst, LossIsLocal
<1>. QED BY <1>1, StepFirst, StepLocal, TypeCorrect, PTL DEF Spec
=============================================================================
