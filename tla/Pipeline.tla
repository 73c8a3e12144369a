------------------------------ MODULE Pipeline ------------------------------
(***************************************************************************)
(* From what the collectors deliver to the values and statistics a frame   *)
(* is scored on: the assembler of core/agent.py, which workers fill and    *)
(* the scoring loop empties, and features/pipeline.py, with its rolling    *)
(* windows (pruned lazily, compacted now and then, summarised in a single  *)
(* pass) and its carry-forward.                                            *)
(*                                                                         *)
(* Time is counted in ticks.  Features are the modelled ones; what has no  *)
(* window is only carried forward.  Of the statistics of a window, count,  *)
(* sum and moment stand for all: mean, spread, slope and z are computed    *)
(* from these sums (and those of the squares, which are added alike).      *)
(***************************************************************************)
EXTENDS Integers, Sequences, FiniteSetsExt, Functions

CONSTANTS
  Features,
  Values,        \* the values a feature may be measured to have
  Staleness,     \* STALENESS_S of the layer of a feature
  Windows,       \* WINDOWS, ascending
  Legs,          \* pairs of features of which a frame has the difference
  CompactAfter,  \* COMPACT_AFTER
  NoSample, NoFrame,
  MaxClock,      \* bound on the clock
  MaxFailures,   \* bound on failing ticks
  MaxWipes       \* bound on wipes

\* The values of a sample: some of the features have one.
SampleValues == UNION {[measured -> Int] : measured \in SUBSET Features}

ASSUME PipelineAssumption ==
  /\ NoSample \notin [ts : Nat, values : SampleValues]
  /\ Values \in [Features -> SUBSET Int]
  /\ Staleness \in [Features -> Nat]
  /\ Legs \subseteq Features \X Features
  /\ Windows \in Seq(Nat) /\ Len(Windows) > 0
  /\ \A j, k \in DOMAIN Windows : j < k => Windows[j] < Windows[k]
  /\ CompactAfter \in Nat \ {0}
  /\ MaxClock \in Nat /\ MaxFailures \in Nat /\ MaxWipes \in Nat

VARIABLES
  clock,
  pending,    \* SampleAssembler._values
  sample,     \* what the tick under way has taken, or NoSample
  window,     \* _windows: the entries and how many at the front are dead
  last,       \* _last_value
  frame,      \* the FeatureFrame pushed last, or NoFrame
  failedTicks, wipes,
  lastTake,   \* when the assembler was emptied last: one tick of the agent per time
  \* Observers, which the code does not have:
  delivered,  \* the last delivery of each feature, unless a fault destroyed it
  scored      \* the samples this pipeline has been pushed

pipelineVars ==
  <<clock, pending, sample, window, last, frame, failedTicks, wipes, lastTake,
    delivered, scored>>

MaxWindow == Windows[Len(Windows)]

Empty == [f \in {} |-> 0]

Point(ts, value) == [ts |-> ts, value |-> value]
EmptyWindow == [entries |-> <<>>, dead |-> 0]

PipelineInit ==
  /\ clock = 1 /\ lastTake = 0
  /\ pending = Empty /\ sample = NoSample
  /\ window = [f \in Features |-> EmptyWindow]
  /\ last = Empty /\ frame = NoFrame
  /\ failedTicks = 0 /\ wipes = 0
  /\ delivered = Empty /\ scored = <<>>

-----------------------------------------------------------------------------
(* The assembler.                                                          *)

KeepFirst(values, more) ==
  [f \in DOMAIN values \cup DOMAIN more |-> IF f \in DOMAIN values THEN values[f] ELSE more[f]]
\* A later value of the same feature replaces the earlier one.
Updated(values, more) ==
  [f \in DOMAIN values \cup DOMAIN more |-> IF f \in DOMAIN more THEN more[f] ELSE values[f]]

\* _on_result, on the thread of a worker: update of the assembler.
Deliver(f, value) ==
  /\ pending' = Updated(pending, [x \in {f} |-> value])
  /\ delivered' = [x \in DOMAIN delivered \cup {f} |->
                     IF x = f THEN Point(clock, value) ELSE delivered[x]]
  /\ UNCHANGED <<clock, sample, window, last, frame, failedTicks, wipes, lastTake, scored>>

\* A tick begins: take swaps the values for none under the lock.  When nothing
\* was measured the tick ends here.
Take ==
  /\ sample = NoSample /\ clock > lastTake
  /\ sample' = IF pending = Empty THEN NoSample ELSE [ts |-> clock, values |-> pending]
  /\ pending' = Empty
  /\ lastTake' = clock
  /\ UNCHANGED <<clock, window, last, frame, failedTicks, wipes, delivered, scored>>

\* add_sample raises: the loop logs it, and what was taken is gone.
TickFails ==
  /\ sample # NoSample
  /\ failedTicks < MaxFailures /\ failedTicks' = failedTicks + 1
  /\ sample' = NoSample
  /\ delivered' = Restrict(delivered,
                           DOMAIN delivered \ (DOMAIN sample.values \ DOMAIN pending))
  /\ UNCHANGED <<clock, pending, window, last, frame, wipes, lastTake, scored>>

-----------------------------------------------------------------------------
(* Rolling windows.                                                        *)

\* Dead entries are dropped only when enough of them have piled up.
Cut(entries, dead) ==
  IF dead >= CompactAfter
    THEN [entries |-> SubSeq(entries, dead + 1, Len(entries)), dead |-> 0]
    ELSE [entries |-> entries, dead |-> dead]

\* prune: the head moves up to the first entry that is young enough, if any.
Prune(w, ts) ==
  LET young == {i \in w.dead + 1 .. Len(w.entries) : w.entries[i].ts >= ts - MaxWindow}
  IN  Cut(w.entries, IF young = {} THEN Len(w.entries) ELSE Min(young) - 1)

NoStats == [count |-> 0, sum |-> 0, moment |-> 0]

ScanFromZero(w, cutoff, pass) ==
  LET stop == Max({w.dead} \cup {i \in w.dead + 1 .. pass.index : w.entries[i].ts < cutoff})
  IN  [index |-> stop, stats |-> NoStats]
\* Go on, newest first, to the first entry that is too old for this window.
Scan(w, cutoff, pass) ==
  LET ts(i) == w.entries[i].ts
      value == [i \in DOMAIN w.entries |-> w.entries[i].value]
      moment == [i \in DOMAIN w.entries |-> (ts(i) - ts(Len(w.entries))) * value[i]]
      stop == Max({w.dead} \cup {i \in w.dead + 1 .. pass.index : ts(i) < cutoff})
      seen == stop + 1 .. pass.index
  IN  [index |-> stop,
       stats |-> [count  |-> pass.stats.count + Cardinality(seen),
                  sum    |-> pass.stats.sum + SumFunctionOnSet(value, seen),
                  moment |-> pass.stats.moment + SumFunctionOnSet(moment, seen)]]

\* summarise: one reverse pass, the windows in ascending order.
Summarise(w, ts) ==
  LET passes[k \in 0 .. Len(Windows)] ==
        IF k = 0 THEN [index |-> Len(w.entries), stats |-> NoStats]
                 ELSE Scan(w, ts - Windows[k], passes[k - 1])
  IN  [k \in DOMAIN Windows |-> passes[k].stats]

-----------------------------------------------------------------------------
(* The pipeline.                                                           *)

Appended(w, ts, value) == [w EXCEPT !.entries = Append(@, Point(ts, value))]

FreshUntilPast(point, limit, ts) == ts - point.ts <= limit + 1
\* A value is carried forward until it is older than the limit of its layer.
StillFresh(point, limit, ts) == ts - point.ts <= limit

\* derive_cross_layer: how much one leg of the way adds to the one before it, where
\* both have a value.
Derived(values) ==
  [leg \in {l \in Legs : {l[1], l[2]} \subseteq DOMAIN values} |->
     Max({0, values[leg[1]] - values[leg[2]]})]

\* _coverage: the features that have a value, as a number of the modelled ones.
Coverage(values) == Cardinality(DOMAIN values)

\* Push: the values of the sample go into the windows and become the last ones,
\* the stale ones are forgotten, and the windows of the others are summarised.
Push ==
  /\ sample # NoSample
  /\ LET ts == sample.ts
         measured == DOMAIN sample.values
         latest == Updated(last, [f \in measured |-> Point(ts, sample.values[f])])
         carried == {f \in DOMAIN latest : StillFresh(latest[f], Staleness[f], ts)}
         filled == [f \in Features |-> IF f \in measured
                                         THEN Appended(window[f], ts, sample.values[f])
                                         ELSE window[f]]
         values == [f \in carried |-> latest[f].value]
     IN  /\ last' = Restrict(latest, carried)
         /\ window' = [f \in Features |->
                         IF f \in carried THEN Prune(filled[f], ts) ELSE filled[f]]
         /\ frame' = [ts         |-> ts,
                      values     |-> values,
                      derived    |-> Derived(values),
                      coverage   |-> Coverage(values),
                      aggregates |-> [f \in carried |-> Summarise(window'[f], ts)]]
         /\ scored' = Append(scored, [ts |-> ts, values |-> sample.values])
  /\ sample' = NoSample
  /\ UNCHANGED <<clock, pending, failedTicks, wipes, lastTake, delivered>>

\* wipe puts a new scorer, and with it a new pipeline, in place of the old one.
\* What the assembler holds, and the tick has taken, stays.
Wipe ==
  /\ wipes < MaxWipes /\ wipes' = wipes + 1
  /\ window' = [f \in Features |-> EmptyWindow]
  /\ last' = Empty /\ frame' = NoFrame /\ scored' = <<>>
  /\ delivered' =
       Restrict(delivered, DOMAIN pending \cup
                           (IF sample = NoSample THEN {} ELSE DOMAIN sample.values))
  /\ UNCHANGED <<clock, pending, sample, failedTicks, lastTake>>

Pass ==
  /\ clock < MaxClock /\ clock' = clock + 1
  /\ UNCHANGED <<pending, sample, window, last, frame, failedTicks, wipes,
                 lastTake, delivered, scored>>

PipelineNext ==
  \/ \E f \in Features : \E value \in Values[f] : Deliver(f, value)
  \/ Take \/ TickFails \/ Push \/ Wipe \/ Pass

PipelineSpec == PipelineInit /\ [][PipelineNext]_pipelineVars

-----------------------------------------------------------------------------

\* Nothing delivered is lost: between ticks, what a worker delivered last is
\* waiting in the assembler, or it is the value carried forward, or it has
\* gone stale since (deliveries destroyed by a failing tick or a wipe aside).
NoneIsLost ==
  sample = NoSample =>
    \A f \in DOMAIN delivered :
      IF f \in DOMAIN pending
        THEN pending[f] = delivered[f].value
        ELSE \/ f \in DOMAIN last /\ last[f].value = delivered[f].value
             \/ f \notin DOMAIN last /\ frame.ts - delivered[f].ts > Staleness[f]

Measured(f) == {i \in DOMAIN scored : f \in DOMAIN scored[i].values}

\* A frame shows of each feature the value measured last, if that was no longer
\* ago than its limit, and nothing of the others, however the samples fell: so it
\* compares two legs exactly when both have been measured lately, and covers what
\* has been.
FrameIsRecentHistory ==
  frame # NoFrame =>
    LET lately(f) == {i \in Measured(f) : frame.ts - scored[i].ts <= Staleness[f]}
        known == {f \in Features : lately(f) # {}}
        latest(f) == scored[Max(lately(f))].values[f]
    IN  /\ frame.values = [f \in known |-> latest(f)]
        /\ frame.coverage = Cardinality(known)
        /\ \A leg \in Legs :
             IF {leg[1], leg[2]} \subseteq known
               THEN /\ frame.derived[leg] >= latest(leg[1]) - latest(leg[2])
                    /\ frame.derived[leg] > 0 => latest(leg[1]) > latest(leg[2])
               ELSE leg \notin DOMAIN frame.derived

\* The statistics of a window, taken in one pass over a buffer that is pruned
\* lazily, are those of all that was scored in that window, counted afresh.
OnePassIsRescan ==
  frame # NoFrame =>
    \A f \in DOMAIN frame.values, k \in DOMAIN Windows :
      LET inside == {i \in Measured(f) : scored[i].ts >= frame.ts - Windows[k]}
          newest == scored[Max(Measured(f))].ts
          value == [i \in Measured(f) |-> scored[i].values[f]]
          moment == [i \in Measured(f) |-> (scored[i].ts - newest) * value[i]]
      IN  frame.aggregates[f][k] =
            [count  |-> Cardinality(inside),
             sum    |-> SumFunctionOnSet(value, inside),
             moment |-> SumFunctionOnSet(moment, inside)]
=============================================================================
