------------------------------ MODULE Learning ------------------------------
(***************************************************************************)
(* The learned stages of the scorer: one L1 baseline (ml/l1_stats.py) and  *)
(* one L2 autoencoder (ml/l2_online.py) per layer, the output autoencoder  *)
(* over their errors, the drift monitor (ml/drift.py) that makes a layer   *)
(* relearn, and the switch, the file and the restart around them           *)
(* (ml/scorer.py).  The statistics are abstracted to how far a model has   *)
(* moved from the usual regime of its layer to a worse one: each sample it *)
(* learns moves it one step, and Inertia steps make the new regime normal. *)
(***************************************************************************)
EXTENDS Naturals, Sequences, SequencesExt, FiniteSets, FiniteSetsExt

CONSTANTS
  Layers,         \* the bundles
  Measured,       \* what a layer may show: absent, usual or worse
  Inertia,        \* learned samples that turn a regime into the normal one
  ScoreMin,       \* samples before a baseline scores
  FreezeMin,      \* FREEZE_MIN_COUNT: samples before a baseline may freeze
  MaxFrozen,      \* MAX_FROZEN_STEPS of both stages
  Converge,       \* CONVERGENCE_SAMPLES
  Calibrate,      \* CALIBRATION_SAMPLES
  ReferenceSize, RecentSize,  \* the buffers of the drift monitor
  MinSamples,     \* MIN_SAMPLES in each of them
  CheckEvery,     \* frames between two looks at the buffers
  Cooldown,       \* COOLDOWN_S in frames
  MaxToggles,     \* bound: switches of learning
  MaxRestarts     \* bound: restarts of the agent

ASSUME LearningAssumption ==
  /\ Measured \in [Layers -> SUBSET {"absent", "usual", "worse"}]
  /\ Inertia \in Nat \ {0} /\ Inertia <= Calibrate
  /\ ScoreMin \in Nat \ {0} /\ FreezeMin \in Nat /\ ScoreMin <= FreezeMin
  /\ MaxFrozen \in Nat /\ Converge \in Nat \ {0} /\ Calibrate \in Nat
  /\ RecentSize \in Nat \ {0} /\ ReferenceSize \in Nat /\ ReferenceSize >= RecentSize
  /\ MinSamples \in 1 .. RecentSize /\ CheckEvery \in Nat \ {0} /\ Cooldown \in Nat
  /\ MaxToggles \in Nat /\ MaxRestarts \in Nat

VARIABLES
  learn,    \* Scorer.learn
  frame,    \* what each layer showed in the last frame
  l1,       \* FeatureBaseline of each layer
  l2,       \* OnlineAutoencoder of each layer
  output,   \* L2Ensemble.output
  drift,    \* FeatureDrift of each layer
  round,    \* DriftMonitor.samples_seen % check_every
  alarm,    \* what the last frame was scored as
  since,    \* history: worse frames learned from since the layer was last usual,
            \* and how far its models were shifted then (all the way if they had
            \* not settled or have been replaced since)
  relearned, \* history: relearnings since the layer or the switch last changed, and
             \* whether the layer was absent meanwhile
  toggles, restarts

stages == <<l1, l2, output>>
history == <<since, relearned>>
learningVars == <<learn, frame, stages, drift, round, alarm, history, toggles, restarts>>

Upto(n, cap) == Min({n, cap})

-----------------------------------------------------------------------------
(* What one model makes of one value. *)

\* A sample pulls a model towards its regime; the first one decides alone.
Pulled(model, value) ==
  CASE model.seen = 0                     -> IF value = "worse" THEN Inertia ELSE 0
    [] model.seen > 0 /\ value = "worse" -> Upto(model.shift + 1, Inertia)
    [] OTHER                              -> IF model.shift = 0 THEN 0 ELSE model.shift - 1

Fresh == [seen |-> 0, shift |-> 0, frozen |-> 0]

FoldForgettingToThaw(model, value, cap) ==
  [seen |-> Upto(model.seen + 1, cap), shift |-> Pulled(model, value), frozen |-> model.frozen]

Fold(model, value, cap) ==
  [seen |-> Upto(model.seen + 1, cap), shift |-> Pulled(model, value), frozen |-> 0]

\* FeatureBaseline.contribution: only the bad direction counts.
Abnormal(baseline, value) ==
  value = "worse" /\ baseline.seen >= ScoreMin /\ baseline.shift < Inertia

\* FeatureBaseline.update with _should_freeze.
Update(baseline, value) ==
  CASE value = "absent" -> baseline
    [] /\ Abnormal(baseline, value)
       /\ baseline.seen >= FreezeMin /\ baseline.frozen < MaxFrozen ->
         [baseline EXCEPT !.frozen = @ + 1]
    [] OTHER -> Fold(baseline, value, FreezeMin)

Settled == Converge + Calibrate

Warm(model) == model.seen >= Settled

\* OnlineAutoencoder.score: a large reconstruction error, in either direction.
Misfit(model, value) ==
  IF value = "worse" THEN model.shift < Inertia ELSE model.shift = Inertia

WaitsForever(model, value) == Warm(model) /\ Misfit(model, value)

\* OnlineAutoencoder._should_freeze.
Waits(model, value) == Warm(model) /\ Misfit(model, value) /\ model.frozen < MaxFrozen

\* OnlineAutoencoder.observe.
Train(model, value) ==
  CASE value = "absent" -> model
    [] value # "absent" /\ Waits(model, value) -> [model EXCEPT !.frozen = Upto(@ + 1, MaxFrozen)]
    [] OTHER            -> Fold(model, value, Settled)

\* normalised_error: the error is that of the model before the frame, its scale
\* that of the model after it.
Strange(before, after, value) ==
  value # "absent" /\ Warm(after) /\ Misfit(before, value)

\* The error relative to error_scale, which is next to nothing as long as the
\* model converges; an absent layer counts as one that fits.
Unsettled(before, after, value) ==
  value # "absent" /\ (after.seen <= Converge \/ Misfit(before, value))

-----------------------------------------------------------------------------
(* The drift monitor. *)

NoDrift == [reference |-> <<>>, recent |-> <<>>, rest |-> 0]

\* FeatureDrift.push; time passes for the cooldown.
Push(d, value) ==
  LET rest == IF d.rest = 0 THEN 0 ELSE d.rest - 1
      full == Len(d.recent) = RecentSize
      aged == IF full THEN Append(d.reference, Head(d.recent)) ELSE d.reference
  IN  IF value = "absent" THEN [d EXCEPT !.rest = rest]
      ELSE [reference |-> IF Len(aged) > ReferenceSize THEN Tail(aged) ELSE aged,
            recent    |-> Append(IF full THEN Tail(d.recent) ELSE d.recent, value),
            rest      |-> rest]

Ready(d) == Len(d.reference) >= MinSamples /\ Len(d.recent) >= MinSamples

Bad(buffer) == Cardinality({i \in DOMAIN buffer : buffer[i] = "worse"})

\* population_stability_index over the threshold: the share of worse samples in
\* the two buffers differs by a quarter or more.
Different(d) ==
  LET a == Bad(d.reference) * Len(d.recent) b == Bad(d.recent) * Len(d.reference)
      gap == IF a > b THEN a - b ELSE b - a
  IN  4 * gap >= Len(d.reference) * Len(d.recent)

Decides(d) == Ready(d) /\ d.rest = 0 /\ Different(d)

AcceptWithoutRest(d) == [d EXCEPT !.reference = d.recent]

Accept(d) == [d EXCEPT !.reference = d.recent, !.rest = Cooldown]

-----------------------------------------------------------------------------
Quiet == [l1 |-> {}, l2 |-> {}, output |-> FALSE]
Unknown == [n |-> 0, l1 |-> Inertia, l2 |-> Inertia]
NoneYet == [n |-> 0, gap |-> FALSE]
Frames == {f \in [Layers -> {"absent", "usual", "worse"}] : \A l \in Layers : f[l] \in Measured[l]}

LearningInit ==
  /\ learn = TRUE
  /\ frame = [l \in Layers |-> "absent"]
  /\ l1 = [l \in Layers |-> Fresh]
  /\ l2 = [l \in Layers |-> Fresh]
  /\ output = Fresh
  /\ drift = [l \in Layers |-> NoDrift]
  /\ round = 0
  /\ alarm = Quiet
  /\ since = [l \in Layers |-> Unknown]
  /\ relearned = [l \in Layers |-> NoneYet]
  /\ toggles = 0 /\ restarts = 0

\* The history of one layer: b and m are its models after the value.
Since(l, value, b, m) ==
  CASE value = "usual" -> [n  |-> 0,
                           l1 |-> IF b.seen = FreezeMin THEN b.shift ELSE Inertia,
                           l2 |-> IF Warm(m) THEN m.shift ELSE Inertia]
    [] value = "worse" -> [since[l] EXCEPT !.n = Upto(@ + 1, Inertia * (MaxFrozen + 1))]
    [] OTHER           -> since[l]

\* Scorer.observe with learning on: every stage scores the frame before it
\* learns it; a layer that drifted then starts afresh, the output does not.
Observe(f) ==
  LET b == [l \in Layers |-> Update(l1[l], f[l])]
      m == [l \in Layers |-> Train(l2[l], f[l])]
      joint == IF \E l \in Layers : Unsettled(l2[l], m[l], f[l]) THEN "worse" ELSE "usual"
      out == Train(output, joint)
      d == [l \in Layers |-> Push(drift[l], f[l])]
      drifted == {l \in Layers : (round + 1) % CheckEvery = 0 /\ Decides(d[l])}
      steady(l) == f[l] = "absent" \/ (drift[l].recent # <<>> /\ Last(drift[l].recent) = f[l])
  IN  /\ learn
      /\ frame' = f
      /\ l1' = [l \in Layers |-> IF l \in drifted THEN Fresh ELSE b[l]]
      /\ l2' = [l \in Layers |-> IF l \in drifted THEN Fresh ELSE m[l]]
      /\ output' = out
      /\ drift' = [l \in Layers |-> IF l \in drifted THEN Accept(d[l]) ELSE d[l]]
      /\ round' = (round + 1) % CheckEvery
      /\ alarm' = [l1 |-> {l \in Layers : Abnormal(l1[l], f[l])},
                   l2 |-> {l \in Layers : Strange(l2[l], m[l], f[l])},
                   output |-> Strange(output, out, joint)]
      /\ since' = [l \in Layers |->
           LET h == Since(l, f[l], b[l], m[l])
           IN  IF l \in drifted THEN [h EXCEPT !.l1 = Inertia, !.l2 = Inertia] ELSE h]
      /\ relearned' = [l \in Layers |->
           LET h == IF steady(l) THEN relearned[l] ELSE NoneYet
           IN  [n |-> h.n + (IF l \in drifted THEN 1 ELSE 0), gap |-> h.gap \/ f[l] = "absent"]]
      /\ UNCHANGED <<learn, toggles, restarts>>

\* With learning off the frame is scored and nothing else (_frozen_l1,
\* score_only, OnlineAutoencoder.score).
Score(f) ==
  LET joint == IF \E l \in Layers : Unsettled(l2[l], l2[l], f[l]) THEN "worse" ELSE "usual"
  IN  /\ ~learn
      /\ frame' = f
      /\ alarm' = [l1 |-> {l \in Layers : Abnormal(l1[l], f[l])},
                   l2 |-> {l \in Layers : Strange(l2[l], l2[l], f[l])},
                   output |-> Strange(output, output, joint)]
      /\ drift' = [l \in Layers |-> Push(drift[l], "absent")]
      /\ UNCHANGED <<learn, stages, round, history, toggles, restarts>>

SetLearning(on) ==
  /\ on # learn
  /\ toggles < MaxToggles /\ toggles' = toggles + 1
  /\ learn' = on
  /\ relearned' = [l \in Layers |-> NoneYet]
  /\ UNCHANGED <<frame, stages, drift, round, alarm, since, restarts>>

\* A new agent: save_state and load_state carry the models over, unless the file
\* is gone or half written; the drift monitor starts empty in either case.
Restart(restored) ==
  /\ restarts < MaxRestarts /\ restarts' = restarts + 1
  /\ frame' = [l \in Layers |-> "absent"]
  /\ alarm' = Quiet
  /\ drift' = [l \in Layers |-> NoDrift]
  /\ round' = 0
  /\ relearned' = [l \in Layers |-> NoneYet]
  /\ IF restored THEN UNCHANGED <<stages, since>>
     ELSE /\ l1' = [l \in Layers |-> Fresh] /\ l2' = [l \in Layers |-> Fresh]
          /\ output' = Fresh
          /\ since' = [l \in Layers |-> Unknown]
  /\ UNCHANGED <<learn, toggles>>

Frame == \E f \in Frames : Observe(f) \/ Score(f)

LearningNext ==
  \/ Frame
  \/ \E on \in BOOLEAN : SetLearning(on)
  \/ \E restored \in BOOLEAN : Restart(restored)

LearningSpec == LearningInit /\ [][LearningNext]_learningVars

\* The scoring loop scores a frame every interval.
FairLearningSpec == LearningSpec /\ WF_learningVars(Frame)

-----------------------------------------------------------------------------
\* l1_stats.py and l2_online.py, FREEZE_*: of a fault that a settled model meets
\* it learns one sample in MaxFrozen + 1 and no more, whatever is measured in
\* between, so it takes Inertia times as long until the fault is normal.  Only
\* the drift monitor may replace the model earlier.
FaultIsNotAbsorbed ==
  \A l \in Layers :
    LET most == since[l].n \div (MaxFrozen + 1)
    IN  l1[l].shift <= since[l].l1 + most /\ l2[l].shift <= since[l].l2 + most

\* One change of a layer is relearned a limited number of times: the samples from
\* before it leave both buffers, and two decisions lie a cooldown apart.  While the
\* layer is absent time passes and no sample comes: then every decision has seen
\* one more of them leave the recent buffer.
OneMoveFewRelearns ==
  \A l \in Layers :
    /\ relearned[l].n <= RecentSize
    /\ ~relearned[l].gap =>
         relearned[l].n <= 1 + (ReferenceSize + RecentSize) \div Max({Cooldown, CheckEvery, 1})

\* A network that has changed for good and is measured with learning on is
\* eventually reported as normal, by the drift monitor or by the limit on frozen
\* steps (l2_online.py:52).
SteadyIsAccepted ==
  \A f \in Frames : <>[](learn /\ frame = f) => <>[](alarm = Quiet)
=============================================================================
