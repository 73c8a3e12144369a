------------------------- MODULE LearnedStateProofs -------------------------
(***************************************************************************)
(* What the agent keeps.  The first part is about the switches and the     *)
(* state file, the second about what is learned.                           *)
(***************************************************************************)
EXTENDS Control, Learning, FiniteSetTheorems, TLAPS

(***************************************************************************)
(* The switches and the state file for any number of requests, crashes,    *)
(* unanswered calls and wipes.  Four invariants, each inductive with       *)
(* TypeOK: a request that has a switch to itself agrees with the agent     *)
(* (Undisputed); a stop waits alone (StopAlone); an undisturbed wipe goes  *)
(* forward (Clean); and what is in the file was learned no later than      *)
(* what is in the scorer (Ordered, Survives).                              *)
(***************************************************************************)
USE ControlAssumption

\* A stop begins when nothing else is under way, and nothing begins after it.
StopAlone ==
  stopping => /\ wiping = "no" /\ saving # NoSave
              /\ \A r \in Requesters : request[r] = Idle

\* Of a switch nobody disputes there is at most one request, which the agent
\* follows already; without one the table agrees with the agent.
Agrees(s) ==
  /\ (\A r \in Requesters : request[r].switch # s) => live[s] = stored[s]
  /\ \A r \in Requesters : request[r].switch = s =>
       /\ request[r].on = live[s]
       /\ \A q \in Requesters : request[q].switch = s => q = r

\* A switch that no two requests contend for agrees with what its last request
\* said.
Undisputed == up => \A s \in Switches \ disputed : Agrees(s)

\* What a wipe that nothing met has done so far.
Clean ==
  ~tainted =>
    /\ wiping = "no" =>
         /\ file.state = "whole" => file.content.era = era
         /\ saving # NoSave => saving.content.era = era
         /\ up => models.era = era
    /\ wiping # "no" => saving = NoSave
    /\ wiping = "scorer" => file.state = "none"

\* a was learned no later than b.
Before(a, b) == b.era > a.era \/ (b.era = a.era /\ b.n >= a.n)

\* Nothing was learned after the present, nor saved after it was learned.
Ordered ==
  /\ models.era <= era /\ file.content.era <= era
  /\ wiping # "no" => models.era < era
  /\ saving # NoSave => Before(saving.content, models)

\* The file holds what was kept, unless it is being written.
Survives ==
  ~torn => /\ up => Before(kept, models)
           /\ \/ saving.step = "open"
              \/ file.state = "whole" /\ file.content = kept
              \/ file.state = "none" /\ kept = Nothing

-----------------------------------------------------------------------------
\* What a scorer has learned, or a file holds.
Lessons == [era : Nat, n : Nat]

\* The variables keep their types, and a stop stays alone.
LEMMA InitType == Init => TypeOK /\ StopAlone
<1> SUFFICES ASSUME Init PROVE TypeOK /\ StopAlone
  OBVIOUS
<1>1. live \in [Switches -> BOOLEAN] /\ stored \in [Switches -> BOOLEAN]
  BY DEF Init, Default
<1>2. request \in [Requesters -> [switch : Switches \cup {NoSwitch}, on : BOOLEAN]]
  BY DEF Init, Idle
<1>3. used \in [DOMAIN Bound -> Nat]
  BY DEF Init
<1>. QED BY <1>1, <1>2, <1>3 DEF Init, TypeOK, StopAlone, NoSave, NoFile, Nothing

\* What is bounded is counted.
LEMMA SpendType ==
  ASSUME TypeOK, NEW kinds, Spend(kinds)
  PROVE  used' \in [DOMAIN Bound -> Nat]
BY DEF TypeOK, Spend, Bound

\* Every step keeps the types, and a stop waits alone.
LEMMA StepType == TypeOK /\ StopAlone /\ [Next]_vars => TypeOK' /\ StopAlone'
<1> SUFFICES ASSUME TypeOK, StopAlone, [Next]_vars PROVE TypeOK' /\ StopAlone'
  OBVIOUS
<1>1. ASSUME NEW r \in Requesters, NEW s \in Switches, NEW on \in BOOLEAN, SetLive(r, s, on)
      PROVE  TypeOK' /\ StopAlone'
  BY <1>1 DEF SetLive, TypeOK, StopAlone, fileVars
<1>2. ASSUME NEW r \in Requesters, Store(r)
      PROVE  TypeOK' /\ StopAlone'
  BY <1>2 DEF Store, TypeOK, StopAlone, fileVars, Idle, Switches
<1>3. ASSUME NEW s \in Switches, NEW on \in BOOLEAN, CliStore(s, on)
      PROVE  TypeOK' /\ StopAlone'
  <2>1. used' \in [DOMAIN Bound -> Nat]
    BY <1>3, SpendType DEF CliStore
  <2>. QED BY <1>3, <2>1 DEF CliStore, TypeOK, StopAlone, fileVars, Bound
<1>4. CASE CliWipe
  <2>1. used' \in [DOMAIN Bound -> Nat]
    BY <1>4, SpendType DEF CliWipe
  <2>. QED BY <1>4, <2>1 DEF CliWipe, TypeOK, StopAlone, fileVars, switchVars, Bound
<1>5. CASE WipeStore
  <2>1. used' \in [DOMAIN Bound -> Nat]
    BY <1>5, SpendType DEF WipeStore
  <2>. QED BY <1>5, <2>1 DEF WipeStore, TypeOK, StopAlone, fileVars, switchVars, Bound
<1>6. ASSUME NEW unlinked \in BOOLEAN, WipeFile(unlinked)
      PROVE  TypeOK' /\ StopAlone'
  BY <1>6 DEF WipeFile, TypeOK, StopAlone, switchVars, NoFile, Nothing, NoSave
<1>7. CASE WipeScorer
  BY <1>7 DEF WipeScorer, TypeOK, StopAlone, Switches
<1>8. CASE Learn
  BY <1>8 DEF Learn, TypeOK, StopAlone, switchVars
<1>9. ASSUME NEW stop \in BOOLEAN, MakeText(stop)
      PROVE  TypeOK' /\ StopAlone'
  BY <1>9 DEF MakeText, TypeOK, StopAlone, switchVars, NoSave, Nothing
<1>10. CASE OpenFile
  BY <1>10 DEF OpenFile, TypeOK, StopAlone, switchVars, Half, NoFile, Nothing, NoSave
<1>11. CASE WriteFile
  <2>1. stopping => request = [r \in Requesters |-> Idle]
    BY DEF TypeOK, StopAlone
  <2>2. /\ file' \in [state : {"none", "half", "whole"}, content : Lessons]
        /\ kept' \in Lessons /\ models' \in Lessons
    <3>1. saving.content \in Lessons /\ Nothing \in Lessons
      BY DEF TypeOK, Lessons, Nothing
    <3>2. Whole(saving.content) \in [state : {"none", "half", "whole"}, content : Lessons]
      BY <3>1 DEF Whole
    <3>3. file \in [state : {"none", "half", "whole"}, content : Lessons]
      BY DEF TypeOK, Lessons
    <3>4. kept \in Lessons /\ models \in Lessons
      BY DEF TypeOK, Lessons
    <3>. QED BY <1>11, <3>1, <3>2, <3>3, <3>4 DEF WriteFile
  <2>3. live' \in [Switches -> BOOLEAN] /\ disputed' \subseteq Switches
    BY <1>11 DEF WriteFile, TypeOK, Default
  <2>4. saving' = NoSave /\ ~stopping' /\ (~up' => stopping)
    BY <1>11 DEF WriteFile, TypeOK
  <2>5. /\ used' = used /\ era' = era /\ request' = request /\ stored' = stored
        /\ wiping' = wiping /\ up' \in BOOLEAN /\ tainted' \in BOOLEAN /\ torn' \in BOOLEAN
        /\ stopping' \in BOOLEAN
    BY <1>11 DEF WriteFile, TypeOK
  <2>6. saving' \in [step : {"idle", "made", "open", "unlinked"}, content : Lessons]
    BY <2>4 DEF NoSave, Nothing, Lessons
  <2>7. StopAlone'
    BY <2>4 DEF StopAlone
  <2>8. ~up' => request' = [r \in Requesters |-> Idle] /\ wiping' = "no"
    BY <2>1, <2>4, <2>5 DEF StopAlone
  <2>. QED BY <2>2, <2>3, <2>4, <2>5, <2>6, <2>7, <2>8 DEF TypeOK, Lessons, Bound
<1>12. CASE Crash
  <2>1. used' \in [DOMAIN Bound -> Nat]
    BY <1>12, SpendType DEF Crash
  <2>. QED BY <1>12, <2>1 DEF Crash, TypeOK, StopAlone, NoSave, Nothing, Default, Switches, Idle, Bound
<1>13. CASE Restore
  BY <1>13 DEF Restore, TypeOK, StopAlone, Restored, Loaded, Default, Switches
<1>14. CASE UNCHANGED vars
  BY <1>14 DEF vars, switchVars, fileVars, TypeOK, StopAlone
<1>15. CASE Next
  <2>1. CASE \E r \in Requesters : \/ \E s \in Switches, on \in BOOLEAN : SetLive(r, s, on)
                                   \/ Store(r)
    BY <1>1, <1>2, <2>1
  <2>2. CASE \E s \in Switches, on \in BOOLEAN : CliStore(s, on)
    BY <1>3, <2>2
  <2>3. CASE \E unlinked \in BOOLEAN : WipeFile(unlinked)
    BY <1>6, <2>3
  <2>4. CASE \E stop \in BOOLEAN : MakeText(stop)
    BY <1>9, <2>4
  <2>. QED BY <1>4, <1>5, <1>7, <1>8, <1>10, <1>11, <1>12, <1>13, <1>15, <2>1, <2>2, <2>3, <2>4 DEF Next
<1>. QED BY <1>14, <1>15

\* Every variable has its type in every reachable state, and nothing an agent was
\* doing outlives it.
THEOREM TypeCorrect == Spec => [](TypeOK /\ StopAlone)
BY InitType, StepType, PTL DEF Spec

-----------------------------------------------------------------------------
\* What a step may do to the switches ...
LEMMA SwitchSteps ==
  ASSUME [Next]_vars
  PROVE  \/ UNCHANGED switchVars
         \/ \E r \in Requesters, s \in Switches, on \in BOOLEAN : SetLive(r, s, on)
         \/ \E r \in Requesters : Store(r)
         \/ \E s \in Switches, on \in BOOLEAN : CliStore(s, on)
         \/ WipeScorer \/ WriteFile \/ Crash \/ Restore
<1>1. CASE \E unlinked \in BOOLEAN : WipeFile(unlinked)
  BY <1>1 DEF WipeFile
<1>2. CASE \E stop \in BOOLEAN : MakeText(stop)
  BY <1>2 DEF MakeText
<1>3. CASE CliWipe \/ WipeStore \/ Learn \/ OpenFile
  BY <1>3 DEF CliWipe, WipeStore, Learn, OpenFile
<1>4. CASE UNCHANGED vars
  BY <1>4 DEF vars
<1>. QED BY <1>1, <1>2, <1>3, <1>4 DEF Next

\* ... and to the state file.
LEMMA FileSteps ==
  ASSUME [Next]_vars
  PROVE  \/ UNCHANGED <<up, wiping, era, tainted, fileVars>>
         \/ CliWipe \/ WipeStore \/ WipeScorer \/ Learn \/ OpenFile \/ WriteFile
         \/ \E unlinked \in BOOLEAN : WipeFile(unlinked)
         \/ \E stop \in BOOLEAN : MakeText(stop)
         \/ Crash \/ Restore
<1>1. CASE \E r \in Requesters, s \in Switches, on \in BOOLEAN : SetLive(r, s, on)
  BY <1>1 DEF SetLive
<1>2. CASE \E r \in Requesters : Store(r)
  BY <1>2 DEF Store
<1>3. CASE \E s \in Switches, on \in BOOLEAN : CliStore(s, on)
  BY <1>3 DEF CliStore
<1>4. CASE UNCHANGED vars
  BY <1>4 DEF vars, switchVars
<1>. QED BY <1>1, <1>2, <1>3, <1>4 DEF Next

-----------------------------------------------------------------------------
\* A request that has a switch to itself agrees with the agent.
LEMMA StepUndisputed == TypeOK /\ Undisputed /\ [Next]_vars => Undisputed'
<1> SUFFICES ASSUME TypeOK, Undisputed, [Next]_vars, up', NEW t \in Switches, t \notin disputed'
             PROVE  Agrees(t)'
  BY DEF Undisputed
<1>1. CASE UNCHANGED switchVars
  BY <1>1 DEF switchVars, Undisputed, Agrees
<1>2. ASSUME NEW r \in Requesters, NEW s \in Switches, NEW on \in BOOLEAN, SetLive(r, s, on)
      PROVE  Agrees(t)'
  <2>1. /\ up /\ request[r].switch # t
        /\ request' = [request EXCEPT ![r] = [switch |-> s, on |-> on]]
        /\ live' = [live EXCEPT ![s] = on] /\ stored' = stored
    BY <1>2 DEF SetLive, Idle, Switches
  <2>2. CASE t = s
    <3>1. \A q \in Requesters : request[q].switch # t
      BY <1>2, <2>2 DEF SetLive
    <3>. QED BY <2>1, <2>2, <3>1 DEF TypeOK, Agrees
  <2>3. CASE t # s
    <3>1. Agrees(t)
      BY <1>2, <2>1, <2>3 DEF SetLive, Undisputed
    <3>2. /\ live'[t] = live[t] /\ request'[r].switch # t
          /\ \A q \in Requesters : q # r => request'[q] = request[q]
      BY <2>1, <2>3 DEF TypeOK
    <3>. QED BY <2>1, <3>1, <3>2 DEF Agrees
  <2>. QED BY <2>2, <2>3
<1>3. ASSUME NEW r \in Requesters, Store(r)
      PROVE  Agrees(t)'
  <2>1. /\ up /\ Agrees(t) /\ live' = live
        /\ request'[r].switch = NoSwitch
        /\ \A q \in Requesters : q # r => request'[q] = request[q]
        /\ stored' = [stored EXCEPT ![request[r].switch] = request[r].on]
    BY <1>3 DEF Store, Undisputed, Idle, TypeOK
  <2>2. CASE request[r].switch = t
    BY <2>1, <2>2 DEF Agrees, TypeOK, Switches
  <2>3. CASE request[r].switch # t
    <3>1. stored'[t] = stored[t]
      BY <2>1, <2>3 DEF TypeOK
    <3>. QED BY <2>1, <2>3, <3>1 DEF Agrees, Switches
  <2>. QED BY <2>2, <2>3
<1>4. ASSUME NEW s \in Switches, NEW on \in BOOLEAN, CliStore(s, on)
      PROVE  Agrees(t)'
  BY <1>4 DEF CliStore, Undisputed, Agrees, TypeOK
<1>5. CASE WipeScorer
  <2>1. t # "learning" /\ Agrees(t) /\ request' = request /\ stored' = stored
    BY <1>5 DEF WipeScorer, Undisputed
  <2>2. live'[t] = live[t]
    BY <1>5, <2>1 DEF WipeScorer, TypeOK
  <2>. QED BY <2>1, <2>2 DEF Agrees
<1>6. CASE WriteFile
  BY <1>6 DEF WriteFile, Undisputed, Agrees, TypeOK
<1>7. CASE Crash
  BY <1>7 DEF Crash
<1>8. CASE Restore
  BY <1>8 DEF Restore, Restored, Agrees, TypeOK, Idle, Switches
<1>. QED BY <1>1, <1>2, <1>3, <1>4, <1>5, <1>6, <1>7, <1>8, SwitchSteps

\* Between requests, a switch that nobody disputes is what the next agent restores.
THEOREM SwitchesCorrect == Spec => []SwitchesHold
<1>1. Init => Undisputed
  BY DEF Init, Undisputed, Agrees, Idle, Switches
<1>2. Undisputed => SwitchesHold
  BY DEF Undisputed, Agrees, SwitchesHold, AtRest, Idle, Switches
<1>. QED BY <1>1, <1>2, StepUndisputed, TypeCorrect, PTL DEF Spec

-----------------------------------------------------------------------------
\* A wipe that nothing meets goes forward.
LEMMA StepClean == TypeOK /\ Clean /\ [Next]_vars => Clean'
<1> SUFFICES ASSUME TypeOK, Clean, [Next]_vars, ~tainted' PROVE Clean'
  BY DEF Clean
<1>1. CASE UNCHANGED <<up, wiping, era, tainted, fileVars>>
  BY <1>1 DEF Clean, fileVars
<1>2. CASE CliWipe
  BY <1>2 DEF CliWipe
<1>3. CASE WipeStore
  BY <1>3 DEF WipeStore, Clean, fileVars
<1>4. CASE WipeScorer
  BY <1>4 DEF WipeScorer, Clean
<1>5. CASE Learn
  BY <1>5 DEF Learn, Clean, switchVars, TypeOK
<1>6. CASE OpenFile
  BY <1>6 DEF OpenFile, Clean, switchVars, TypeOK, Half, NoFile, NoSave, Nothing
<1>7. CASE WriteFile
  <2>1. CASE saving.step = "open"
    <3>1. /\ file'.content = saving.content /\ saving' = NoSave /\ era' = era /\ wiping' = wiping
          /\ up' => models' = models
      BY <1>7, <2>1 DEF WriteFile, Whole
    <3>2. wiping = "no" /\ saving.content.era = era /\ models.era = era
      <4>1. CASE tainted
        BY <1>7, <2>1, <4>1 DEF WriteFile
      <4>2. CASE ~tainted
        BY <1>7, <2>1, <4>2 DEF WriteFile, Clean, NoSave
      <4>. QED BY <4>1, <4>2
    <3>. QED BY <3>1, <3>2 DEF Clean
  <2>2. CASE saving.step # "open"
    <3>1. /\ file' = file /\ saving' = NoSave /\ era' = era /\ wiping' = wiping /\ ~tainted /\ up
          /\ up' => models' = models
      BY <1>7, <2>2 DEF WriteFile, TypeOK
    <3>. QED BY <3>1 DEF Clean
  <2>. QED BY <2>1, <2>2
<1>8. ASSUME NEW unlinked \in BOOLEAN, WipeFile(unlinked) PROVE Clean'
  BY <1>8 DEF WipeFile, Clean, switchVars, NoFile, NoSave
<1>9. ASSUME NEW stop \in BOOLEAN, MakeText(stop) PROVE Clean'
  BY <1>9 DEF MakeText, Clean, switchVars
<1>10. CASE Crash
  BY <1>10 DEF Crash, Clean
<1>11. CASE Restore
  BY <1>11 DEF Restore, Clean, Loaded, TypeOK
<1>. QED BY <1>1, <1>2, <1>3, <1>4, <1>5, <1>6, <1>7, <1>8, <1>9, <1>10, <1>11, FileSteps

\* What was learned before a wipe is gone for good, unless something met the wipe.
THEOREM WipedCorrect == Spec => []WipedStaysWiped
<1>1. Init => Clean
  BY DEF Init, Clean, NoFile, NoSave, Nothing
<1>2. Clean => WipedStaysWiped
  BY DEF Clean, WipedStaysWiped
<1>. QED BY <1>1, <1>2, StepClean, TypeCorrect, PTL DEF Spec

-----------------------------------------------------------------------------
\* Nothing was learned after the present, nor saved after it was learned.
LEMMA StepOrdered == TypeOK /\ Ordered /\ [Next]_vars => Ordered'
<1> SUFFICES ASSUME TypeOK, Ordered, [Next]_vars PROVE Ordered'
  OBVIOUS
<1> USE DEF Ordered, TypeOK, Before
<1>1. CASE UNCHANGED <<up, wiping, era, tainted, fileVars>>
  BY <1>1 DEF fileVars
<1>2. CASE CliWipe
  BY <1>2 DEF CliWipe, fileVars
<1>3. CASE WipeStore
  BY <1>3 DEF WipeStore, fileVars
<1>4. CASE WipeScorer
  BY <1>4 DEF WipeScorer
<1>5. CASE Learn
  BY <1>5 DEF Learn
<1>6. CASE OpenFile
  BY <1>6 DEF OpenFile, Half, NoFile, NoSave, Nothing
<1>7. CASE WriteFile
  <2>1. models' \in {models, Nothing} /\ saving' = NoSave /\ era' = era /\ wiping' = wiping
    BY <1>7 DEF WriteFile
  <2>3. file' = file \/ (file'.content = saving.content /\ saving # NoSave)
    BY <1>7 DEF WriteFile, Whole, NoSave
  <2>2. wiping # "no" => models.era < era
    OBVIOUS
  <2>. QED BY <2>1, <2>2, <2>3 DEF Nothing
<1>8. ASSUME NEW unlinked \in BOOLEAN, WipeFile(unlinked) PROVE Ordered'
  BY <1>8 DEF WipeFile, NoFile, NoSave, Nothing
<1>9. ASSUME NEW stop \in BOOLEAN, MakeText(stop) PROVE Ordered'
  BY <1>9 DEF MakeText
<1>10. CASE Crash
  BY <1>10 DEF Crash, Nothing, NoSave
<1>11. CASE Restore
  BY <1>11 DEF Restore, Loaded
<1>. QED BY <1>1, <1>2, <1>3, <1>4, <1>5, <1>6, <1>7, <1>8, <1>9, <1>10, <1>11, FileSteps

\* The file follows what was kept.
LEMMA StepSurvives == TypeOK /\ Ordered /\ Survives /\ [Next]_vars => Survives'
<1> SUFFICES ASSUME TypeOK, Ordered, Survives, [Next]_vars, ~torn' PROVE Survives'
  BY DEF Survives
<1> USE DEF Survives, TypeOK, Before
<1>1. CASE UNCHANGED <<up, wiping, era, tainted, fileVars>>
  BY <1>1 DEF fileVars
<1>2. CASE CliWipe
  BY <1>2 DEF CliWipe, fileVars, switchVars
<1>3. CASE WipeStore
  BY <1>3 DEF WipeStore, fileVars, switchVars
<1>4. CASE WipeScorer
  BY <1>4 DEF WipeScorer, Ordered
<1>5. CASE Learn
  BY <1>5 DEF Learn, switchVars
<1>6. CASE OpenFile
  BY <1>6 DEF OpenFile, switchVars
<1>7. CASE WriteFile
  <2>1. up' => models' = models
    BY <1>7 DEF WriteFile
  <2>2. CASE saving.step = "open"
    <3>1. file' = Whole(saving.content) /\ kept' = saving.content
      BY <1>7, <2>2 DEF WriteFile
    <3>2. Before(saving.content, models)
      BY <2>2 DEF Ordered, NoSave
    <3>. QED BY <2>1, <3>1, <3>2 DEF Whole
  <2>3. CASE saving.step # "open"
    <3>1. file' = file /\ kept' = kept /\ ~torn /\ up
      BY <1>7, <2>3 DEF WriteFile
    <3>. QED BY <2>1, <2>3, <3>1
  <2>. QED BY <2>2, <2>3
<1>8. ASSUME NEW unlinked \in BOOLEAN, WipeFile(unlinked) PROVE Survives'
  BY <1>8 DEF WipeFile, switchVars, NoFile, NoSave, Nothing
<1>9. ASSUME NEW stop \in BOOLEAN, MakeText(stop) PROVE Survives'
  BY <1>9 DEF MakeText, switchVars, NoSave
<1>10. CASE Crash
  BY <1>10 DEF Crash
<1>11. CASE Restore
  BY <1>11 DEF Restore, Loaded, NoSave, Nothing
<1>. QED BY <1>1, <1>2, <1>3, <1>4, <1>5, <1>6, <1>7, <1>8, <1>9, <1>10, <1>11, FileSteps

\* A new agent knows what was saved last, unless the old one died while it wrote.
THEOREM SavesCorrect == Spec => []SavesSurvive
<1>1. Init => Ordered /\ Survives
  BY DEF Init, Ordered, Survives, Before, NoFile, NoSave, Nothing
<1>2. TypeOK /\ Survives => SavesSurvive
  BY DEF Survives, SavesSurvive, Before
<1>. QED BY <1>1, <1>2, StepOrdered, StepSurvives, TypeCorrect, PTL DEF Spec

-----------------------------------------------------------------------------
(***************************************************************************)
(* For any layers, thresholds and frames, a fault is learned slowly.  The  *)
(* invariant counts, for each model that was settled when its layer was    *)
(* last usual, the worse samples since (SlowlyLearned).                    *)
(***************************************************************************)
USE LearningAssumption

\* Worse samples are counted up to here: by then a model has adapted.
Limit == Inertia * (MaxFrozen + 1)

\* A model that counts its samples up to full.
Model(full) == [seen : 0 .. full, shift : 0 .. Inertia, frozen : 0 .. MaxFrozen]

\* Types: two models of each layer, and where they were when it was last usual.
LearningTypeOK ==
  /\ l1 \in [Layers -> Model(FreezeMin)]
  /\ l2 \in [Layers -> Model(Settled)]
  /\ since \in [Layers -> [n : 0 .. Limit, l1 : 0 .. Inertia, l2 : 0 .. Inertia]]

\* The model was settled, and moved as far as base, when its layer was last usual.
\* Since then every step has taken MaxFrozen + 1 of the n worse samples, and it has
\* used up as many as it has been frozen for of the next.
Slowly(model, full, base, n) ==
  base < Inertia =>
    /\ model.seen = full
    /\ \/ n = Limit
       \/ model.shift * (MaxFrozen + 1) + model.frozen <= base * (MaxFrozen + 1) + n

\* Both models of every layer are slow.
SlowlyLearned ==
  \A l \in Layers : /\ Slowly(l1[l], FreezeMin, since[l].l1, since[l].n)
                    /\ Slowly(l2[l], Settled, since[l].l2, since[l].n)

\* Counting up to a cap.
LEMMA UptoIs ==
  ASSUME NEW n \in Nat, NEW cap \in Nat
  PROVE  Upto(n, cap) = IF n <= cap THEN n ELSE cap
BY DEF Upto, Min

\* Multiples of MaxFrozen + 1, step by step.
LEMMA Products ==
  /\ Limit \in Nat
  /\ \A s \in Nat : /\ s * (MaxFrozen + 1) \in Nat
                    /\ (s + 1) * (MaxFrozen + 1) = s * (MaxFrozen + 1) + MaxFrozen + 1
BY DEF Limit

\* Whole steps in so many samples.
LEMMA Quotients ==
  /\ \A n \in Nat : n \div (MaxFrozen + 1) \in Nat
  /\ Limit \div (MaxFrozen + 1) = Inertia
BY DEF Limit

\* A model that took MaxFrozen + 1 samples a step took so many steps.
LEMMA QuotientBound ==
  ASSUME NEW s \in Nat, NEW b \in Nat, NEW n \in Nat,
         s * (MaxFrozen + 1) <= b * (MaxFrozen + 1) + n
  PROVE  s <= b + n \div (MaxFrozen + 1)
OBVIOUS

\* One sample moves a settled model by one step, and unfreezes it.
LEMMA FoldFacts ==
  ASSUME NEW full \in Nat, NEW model \in Model(full), NEW value
  PROVE  /\ Fold(model, value, full) \in Model(full)
         /\ model.seen = full => Fold(model, value, full).seen = full
         /\ Fold(model, value, full).frozen = 0
         /\ full > 0 /\ model.seen = full =>
              Fold(model, value, full).shift =
                IF value # "worse" THEN (IF model.shift = 0 THEN 0 ELSE model.shift - 1)
                ELSE IF model.shift < Inertia THEN model.shift + 1 ELSE Inertia
BY UptoIs DEF Fold, Pulled, Model

\* A model that freezes for one more sample, or steps when it has frozen long
\* enough, stays slow over a worse sample.
LEMMA StaysSlow ==
  ASSUME NEW full \in Nat, NEW model \in Model(full), NEW next \in Model(full),
         NEW base \in 0 .. Inertia, NEW n \in 0 .. Limit,
         Slowly(model, full, base, n),
         model.seen = full => next.seen = full,
         model.seen = full =>
           \/ next.shift = model.shift /\ next.frozen <= model.frozen + 1
           \/ next.frozen = 0 /\ next.shift <= model.shift
           \/ next.frozen = 0 /\ next.shift = model.shift + 1 /\ model.frozen = MaxFrozen
  PROVE  Slowly(next, full, base, Upto(n + 1, Limit))
<1> DEFINE K == MaxFrozen + 1
<1>1. /\ model.shift \in Nat /\ next.shift \in Nat /\ base \in Nat /\ n \in Nat
      /\ model.frozen \in Nat /\ next.frozen \in Nat /\ Limit \in Nat
  BY Products DEF Model
<1>2. CASE n = Limit
  BY <1>1, <1>2, UptoIs DEF Slowly
<1>3. CASE n # Limit /\ base < Inertia
  <2>1. Upto(n + 1, Limit) = n + 1
    BY <1>1, <1>3, UptoIs
  <2>2. model.shift * K + model.frozen <= base * K + n
    BY <1>3 DEF Slowly
  <2>3. /\ model.shift * K \in Nat /\ next.shift * K \in Nat /\ base * K \in Nat
        /\ (model.shift + 1) * K = model.shift * K + K
    BY <1>1, Products
  <2>4. next.shift <= model.shift => next.shift * K <= model.shift * K
    BY <1>1
  <2>5. next.shift * K + next.frozen <= model.shift * K + model.frozen + 1
    BY <1>1, <1>3, <2>3, <2>4 DEF Slowly
  <2>. HIDE DEF K
  <2>6. next.shift * K + next.frozen <= base * K + n + 1
    BY <1>1, <2>2, <2>3, <2>5
  <2>. QED BY <1>3, <2>1, <2>6 DEF Slowly, K
<1>4. CASE ~(base < Inertia)
  BY <1>4 DEF Slowly
<1>. QED BY <1>2, <1>3, <1>4

\* One baseline, one value: what it becomes, and that it is as slow as before.
LEMMA UpdateFacts ==
  ASSUME NEW b \in Model(FreezeMin), NEW base \in 0 .. Inertia, NEW n \in 0 .. Limit,
         NEW value \in {"absent", "usual", "worse"}, Slowly(b, FreezeMin, base, n)
  PROVE  LET next == Update(b, value)
         IN  /\ next \in Model(FreezeMin)
             /\ value = "absent" => next = b
             /\ value = "usual" =>
                  Slowly(next, FreezeMin, IF next.seen = FreezeMin THEN next.shift ELSE Inertia, 0)
             /\ value = "worse" => Slowly(next, FreezeMin, base, Upto(n + 1, Limit))
<1> DEFINE frost == [b EXCEPT !.frozen = @ + 1]
           fold == Fold(b, value, FreezeMin)
<1>0. /\ FreezeMin \in Nat /\ FreezeMin > 0
      /\ b.seen \in 0 .. FreezeMin /\ b.shift \in 0 .. Inertia /\ b.frozen \in 0 .. MaxFrozen
  BY DEF Model
<1>1. CASE value = "absent"
  <2>1. Update(b, value) = b
    BY <1>1 DEF Update, Abnormal
  <2>. QED BY <1>1, <2>1
<1>2. CASE value = "usual"
  <2>1. Update(b, value) = fold
    BY <1>2 DEF Update, Abnormal
  <2>2. fold \in Model(FreezeMin) /\ fold.frozen = 0
    BY <1>0, FoldFacts
  <2>3. Slowly(fold, FreezeMin, IF fold.seen = FreezeMin THEN fold.shift ELSE Inertia, 0)
    BY <2>2, Products DEF Slowly, Model
  <2>. QED BY <1>2, <2>1, <2>2, <2>3
<1>3. CASE value = "worse" /\ Abnormal(b, value) /\ b.seen >= FreezeMin /\ b.frozen < MaxFrozen
  <2>1. Update(b, value) = frost
    BY <1>3 DEF Update
  <2>2. /\ frost \in Model(FreezeMin) /\ frost.seen = b.seen
        /\ frost.shift = b.shift /\ frost.frozen = b.frozen + 1
    BY <1>0, <1>3 DEF Model
  <2>. HIDE DEF frost
  <2>3. Slowly(frost, FreezeMin, base, Upto(n + 1, Limit))
    BY <1>0, <2>2, StaysSlow
  <2>. QED BY <1>3, <2>1, <2>2, <2>3
<1>4. CASE value = "worse" /\ ~(Abnormal(b, value) /\ b.seen >= FreezeMin /\ b.frozen < MaxFrozen)
  <2>1. Update(b, value) = fold
    BY <1>4 DEF Update
  <2>2. /\ fold \in Model(FreezeMin) /\ fold.frozen = 0
        /\ b.seen = FreezeMin =>
             /\ fold.seen = FreezeMin
             /\ fold.shift = IF b.shift < Inertia THEN b.shift + 1 ELSE Inertia
    BY <1>0, <1>4, FoldFacts
  <2>3. b.seen = FreezeMin /\ b.shift < Inertia => b.frozen = MaxFrozen
    BY <1>0, <1>4 DEF Abnormal
  <2>4. Slowly(fold, FreezeMin, base, Upto(n + 1, Limit))
    BY <1>0, <2>2, <2>3, StaysSlow
  <2>. QED BY <1>4, <2>1, <2>2, <2>4
<1>. QED BY <1>1, <1>2, <1>3, <1>4

\* The same of one autoencoder.
LEMMA TrainFacts ==
  ASSUME NEW m \in Model(Settled), NEW base \in 0 .. Inertia, NEW n \in 0 .. Limit,
         NEW value \in {"absent", "usual", "worse"}, Slowly(m, Settled, base, n)
  PROVE  LET next == Train(m, value)
         IN  /\ next \in Model(Settled)
             /\ value = "absent" => next = m
             /\ value = "usual" =>
                  Slowly(next, Settled, IF Warm(next) THEN next.shift ELSE Inertia, 0)
             /\ value = "worse" => Slowly(next, Settled, base, Upto(n + 1, Limit))
<1> DEFINE frost == [m EXCEPT !.frozen = Upto(@ + 1, MaxFrozen)]
           fold == Fold(m, value, Settled)
<1>0. /\ Settled \in Nat /\ Settled > 0
      /\ m.seen \in 0 .. Settled /\ m.shift \in 0 .. Inertia /\ m.frozen \in 0 .. MaxFrozen
  BY DEF Model, Settled
<1>1. CASE value = "absent"
  <2>1. Train(m, value) = m
    BY <1>1 DEF Train
  <2>. QED BY <1>1, <2>1
<1>2. CASE value # "absent" /\ Waits(m, value)
  <2>1. Train(m, value) = frost
    BY <1>2 DEF Train
  <2>2. /\ frost \in Model(Settled) /\ frost.seen = m.seen
        /\ frost.shift = m.shift /\ frost.frozen = m.frozen + 1
    <3>1. m.frozen + 1 \in 0 .. MaxFrozen
      BY <1>0, <1>2 DEF Waits
    <3>2. m \in Model(Settled)
      OBVIOUS
    <3>. QED BY <1>0, <3>1, <3>2, UptoIs DEF Model
  <2>. HIDE DEF frost
  <2>3. value = "worse" => Slowly(frost, Settled, base, Upto(n + 1, Limit))
    BY <1>0, <2>2, StaysSlow
  <2>4. value = "usual" => Slowly(frost, Settled, IF Warm(frost) THEN frost.shift ELSE Inertia, 0)
    BY <1>2, <2>2 DEF Waits, Misfit, Slowly
  <2>. QED BY <1>2, <2>1, <2>2, <2>3, <2>4
<1>3. CASE value # "absent" /\ ~Waits(m, value)
  <2>1. Train(m, value) = fold
    BY <1>3 DEF Train
  <2>2. /\ fold \in Model(Settled) /\ fold.frozen = 0
        /\ m.seen = Settled => fold.seen = Settled
        /\ m.seen = Settled /\ value = "worse" =>
             fold.shift = IF m.shift < Inertia THEN m.shift + 1 ELSE Inertia
    BY <1>0, <1>3, FoldFacts
  <2>3. m.seen = Settled /\ m.shift < Inertia /\ value = "worse" => m.frozen = MaxFrozen
    BY <1>0, <1>3 DEF Waits, Warm, Misfit
  <2>. HIDE DEF fold
  <2>4. value = "worse" => Slowly(fold, Settled, base, Upto(n + 1, Limit))
    BY <1>0, <2>2, <2>3, StaysSlow
  <2>5. value = "usual" => Slowly(fold, Settled, IF Warm(fold) THEN fold.shift ELSE Inertia, 0)
    BY <1>0, <2>2, Products DEF Slowly, Model, Warm
  <2>. QED BY <1>3, <2>1, <2>2, <2>4, <2>5
<1>. QED BY <1>1, <1>2, <1>3

-----------------------------------------------------------------------------
\* Nothing has been learned at the start.
LEMMA LearningInitially == LearningInit => LearningTypeOK /\ SlowlyLearned
BY Products DEF LearningInit, LearningTypeOK, SlowlyLearned, Slowly, Fresh, Unknown, Model, Settled

\* A model that is dropped starts over.
LEMMA FreshIsModel ==
  ASSUME NEW full \in Nat
  PROVE  Fresh \in Model(full)
BY DEF Fresh, Model

\* What is counted of a layer: nothing since it was usual, or one more worse sample.
LEMMA SinceFacts ==
  ASSUME NEW l \in Layers, NEW value \in {"absent", "usual", "worse"}, NEW b, NEW m
  PROVE  /\ value = "absent" => Since(l, value, b, m) = since[l]
         /\ value = "usual" =>
              Since(l, value, b, m) = [n  |-> 0,
                                       l1 |-> IF b.seen = FreezeMin THEN b.shift ELSE Inertia,
                                       l2 |-> IF Warm(m) THEN m.shift ELSE Inertia]
         /\ value = "worse" =>
              Since(l, value, b, m) = [since[l] EXCEPT !.n = Upto(@ + 1, Limit)]
BY DEF Since, Limit

\* One layer of one frame, before the drift monitor decides.
LEMMA LayerLearns ==
  ASSUME LearningTypeOK, SlowlyLearned, NEW l \in Layers,
         NEW value \in {"absent", "usual", "worse"}
  PROVE  LET b == Update(l1[l], value)
             m == Train(l2[l], value)
             h == Since(l, value, b, m)
         IN  /\ b \in Model(FreezeMin) /\ m \in Model(Settled)
             /\ h \in [n : 0 .. Limit, l1 : 0 .. Inertia, l2 : 0 .. Inertia]
             /\ Slowly(b, FreezeMin, h.l1, h.n) /\ Slowly(m, Settled, h.l2, h.n)
<1> DEFINE b == Update(l1[l], value)
           m == Train(l2[l], value)
           h == Since(l, value, b, m)
           s == since[l]
<1>1. /\ l1[l] \in Model(FreezeMin) /\ l2[l] \in Model(Settled)
      /\ s \in [n : 0 .. Limit, l1 : 0 .. Inertia, l2 : 0 .. Inertia]
      /\ Slowly(l1[l], FreezeMin, s.l1, s.n) /\ Slowly(l2[l], Settled, s.l2, s.n)
  BY DEF LearningTypeOK, SlowlyLearned
<1>2. /\ s.n \in 0 .. Limit /\ s.l1 \in 0 .. Inertia /\ s.l2 \in 0 .. Inertia
  BY <1>1
<1>3. /\ b \in Model(FreezeMin)
      /\ value = "absent" => b = l1[l]
      /\ value = "usual" =>
           Slowly(b, FreezeMin, IF b.seen = FreezeMin THEN b.shift ELSE Inertia, 0)
      /\ value = "worse" => Slowly(b, FreezeMin, s.l1, Upto(s.n + 1, Limit))
  BY <1>1, <1>2, UpdateFacts
<1>4. /\ m \in Model(Settled)
      /\ value = "absent" => m = l2[l]
      /\ value = "usual" => Slowly(m, Settled, IF Warm(m) THEN m.shift ELSE Inertia, 0)
      /\ value = "worse" => Slowly(m, Settled, s.l2, Upto(s.n + 1, Limit))
  BY <1>1, <1>2, TrainFacts
<1>5. b.shift \in 0 .. Inertia /\ m.shift \in 0 .. Inertia
  BY <1>3, <1>4 DEF Model
<1>. HIDE DEF b, m
<1>6. CASE value = "absent"
  <2>1. h = s
    BY <1>6, SinceFacts
  <2>. QED BY <1>1, <1>3, <1>4, <1>6, <2>1 DEF b, m
<1>7. CASE value = "usual"
  <2>1. h = [n  |-> 0, l1 |-> IF b.seen = FreezeMin THEN b.shift ELSE Inertia,
                       l2 |-> IF Warm(m) THEN m.shift ELSE Inertia]
    BY <1>7, SinceFacts
  <2>2. /\ h.n = 0 /\ h.l1 = (IF b.seen = FreezeMin THEN b.shift ELSE Inertia)
        /\ h.l2 = (IF Warm(m) THEN m.shift ELSE Inertia)
        /\ h \in [n : 0 .. Limit, l1 : 0 .. Inertia, l2 : 0 .. Inertia]
    BY <1>5, <2>1, Products
  <2>. HIDE DEF h
  <2>3. Slowly(b, FreezeMin, h.l1, h.n) /\ Slowly(m, Settled, h.l2, h.n)
    BY <1>3, <1>4, <1>7, <2>2
  <2>. QED BY <1>3, <1>4, <2>2, <2>3 DEF b, m, h
<1>8. CASE value = "worse"
  <2>1. h = [s EXCEPT !.n = Upto(s.n + 1, Limit)]
    BY <1>8, SinceFacts
  <2>2. Upto(s.n + 1, Limit) \in 0 .. Limit
    BY <1>2, Products, UptoIs
  <2>3. /\ h.n = Upto(s.n + 1, Limit) /\ h.l1 = s.l1 /\ h.l2 = s.l2
        /\ h \in [n : 0 .. Limit, l1 : 0 .. Inertia, l2 : 0 .. Inertia]
    <3>. HIDE DEF s, h
    <3>. QED BY <1>1, <2>1, <2>2
  <2>. HIDE DEF h
  <2>4. Slowly(b, FreezeMin, h.l1, h.n) /\ Slowly(m, Settled, h.l2, h.n)
    BY <1>3, <1>4, <1>8, <2>3
  <2>. QED BY <1>3, <1>4, <2>3, <2>4 DEF b, m, h
<1>. QED BY <1>6, <1>7, <1>8

\* A frame, drift and the dropping of autoencoders included, keeps every model
\* slow.
LEMMA ObserveLearns ==
  ASSUME LearningTypeOK, SlowlyLearned, NEW f \in Frames, Observe(f)
  PROVE  LearningTypeOK' /\ SlowlyLearned'
<1> DEFINE b(l) == Update(l1[l], f[l])
           m(l) == Train(l2[l], f[l])
           h(l) == Since(l, f[l], b(l), m(l))
           Since3 == [n : 0 .. Limit, l1 : 0 .. Inertia, l2 : 0 .. Inertia]
<1>1. PICK drifted : 
        /\ l1' = [l \in Layers |-> IF l \in drifted THEN Fresh ELSE b(l)]
        /\ l2' = [l \in Layers |-> IF l \in drifted THEN Fresh ELSE m(l)]
        /\ since' = [l \in Layers |->
             IF l \in drifted THEN [h(l) EXCEPT !.l1 = Inertia, !.l2 = Inertia] ELSE h(l)]
  BY DEF Observe
<1>2. ASSUME NEW l \in Layers
      PROVE  /\ l1'[l] \in Model(FreezeMin) /\ l2'[l] \in Model(Settled)
             /\ since'[l] \in Since3
             /\ Slowly(l1'[l], FreezeMin, since'[l].l1, since'[l].n)
             /\ Slowly(l2'[l], Settled, since'[l].l2, since'[l].n)
  <2>1. f[l] \in {"absent", "usual", "worse"}
    BY DEF Frames
  <2>2. /\ b(l) \in Model(FreezeMin) /\ m(l) \in Model(Settled) /\ h(l) \in Since3
        /\ Slowly(b(l), FreezeMin, h(l).l1, h(l).n) /\ Slowly(m(l), Settled, h(l).l2, h(l).n)
    BY <2>1, LayerLearns
  <2>3. Fresh \in Model(FreezeMin) /\ Fresh \in Model(Settled)
    BY FreshIsModel DEF Settled
  <2>. HIDE DEF b, m, h
  <2>4. CASE l \notin drifted
    BY <1>1, <2>2, <2>4
  <2>5. CASE l \in drifted
    <3>1. /\ l1'[l] = Fresh /\ l2'[l] = Fresh
          /\ since'[l] = [h(l) EXCEPT !.l1 = Inertia, !.l2 = Inertia]
      BY <1>1, <2>5
    <3> DEFINE g == [h(l) EXCEPT !.l1 = Inertia]
    <3>2. g \in Since3 /\ g.l1 = Inertia
      BY <2>2
    <3>3. since'[l] = [g EXCEPT !.l2 = Inertia]
      BY <3>1, Zenon
    <3> HIDE DEF g
    <3>4. since'[l] \in Since3 /\ since'[l].l1 = Inertia /\ since'[l].l2 = Inertia
      BY <3>2, <3>3
    <3>. QED BY <2>3, <3>1, <3>4 DEF Slowly
  <2>. QED BY <2>4, <2>5
<1>3. /\ l1' = [l \in Layers |-> l1'[l]] /\ l2' = [l \in Layers |-> l2'[l]]
      /\ since' = [l \in Layers |-> since'[l]]
  BY <1>1
<1>. QED BY <1>2, <1>3 DEF LearningTypeOK, SlowlyLearned

\* So do the switch, and a restart with what it restores.
LEMMA LearningStep ==
  ASSUME LearningTypeOK, SlowlyLearned, [LearningNext]_learningVars
  PROVE  LearningTypeOK' /\ SlowlyLearned'
<1>1. ASSUME NEW f \in Frames, Observe(f) PROVE LearningTypeOK' /\ SlowlyLearned'
  BY <1>1, ObserveLearns
<1>2. ASSUME UNCHANGED <<l1, l2, since>> PROVE LearningTypeOK' /\ SlowlyLearned'
  BY <1>2 DEF LearningTypeOK, SlowlyLearned
<1>3. ASSUME NEW f \in Frames, Score(f) PROVE LearningTypeOK' /\ SlowlyLearned'
  BY <1>2, <1>3 DEF Score, stages, history
<1>4. ASSUME NEW on \in BOOLEAN, SetLearning(on) PROVE LearningTypeOK' /\ SlowlyLearned'
  BY <1>2, <1>4 DEF SetLearning, stages
<1>5. ASSUME NEW restored \in BOOLEAN, Restart(restored)
      PROVE  LearningTypeOK' /\ SlowlyLearned'
  <2>1. CASE restored
    BY <1>2, <1>5, <2>1 DEF Restart, stages
  <2>2. CASE ~restored
    <3>1. /\ l1' = [l \in Layers |-> Fresh] /\ l2' = [l \in Layers |-> Fresh]
          /\ since' = [l \in Layers |-> Unknown]
      BY <1>5, <2>2 DEF Restart
    <3>2. /\ Fresh \in Model(FreezeMin) /\ Fresh \in Model(Settled)
          /\ Unknown \in [n : 0 .. Limit, l1 : 0 .. Inertia, l2 : 0 .. Inertia]
          /\ Unknown.l1 = Inertia /\ Unknown.l2 = Inertia
      BY FreshIsModel, Products DEF Settled, Unknown
    <3>. QED BY <3>1, <3>2 DEF LearningTypeOK, SlowlyLearned, Slowly
  <2>. QED BY <2>1, <2>2
<1>6. CASE UNCHANGED learningVars
  BY <1>2, <1>6 DEF learningVars, stages, history
<1>. QED BY <1>1, <1>3, <1>4, <1>5, <1>6 DEF LearningNext, Frame

\* A slow model has moved no further than the worse samples since the last
\* usual one allow.
LEMMA SlowImpliesNotAbsorbed ==
  LearningTypeOK /\ SlowlyLearned => FaultIsNotAbsorbed
<1> SUFFICES ASSUME LearningTypeOK, SlowlyLearned, NEW l \in Layers
             PROVE  LET most == since[l].n \div (MaxFrozen + 1)
                    IN  /\ l1[l].shift <= since[l].l1 + most
                        /\ l2[l].shift <= since[l].l2 + most
  BY DEF FaultIsNotAbsorbed
<1>1. ASSUME NEW full, NEW model \in Model(full), NEW base \in 0 .. Inertia, NEW n \in 0 .. Limit,
             Slowly(model, full, base, n)
      PROVE  model.shift <= base + n \div (MaxFrozen + 1)
  <2>1. /\ model.shift \in 0 .. Inertia /\ model.frozen \in Nat
        /\ n \in Nat /\ base \in Nat /\ n \div (MaxFrozen + 1) \in Nat
    BY Products, Quotients DEF Model
  <2>2. CASE base = Inertia
    BY <2>1, <2>2
  <2>3. CASE n = Limit
    <3>1. n \div (MaxFrozen + 1) = Inertia
      BY <2>3, Quotients
    <3>. QED BY <2>1, <3>1
  <2>4. CASE model.shift * (MaxFrozen + 1) + model.frozen <= base * (MaxFrozen + 1) + n
    <3>1. /\ model.shift * (MaxFrozen + 1) \in Nat /\ base * (MaxFrozen + 1) \in Nat
      BY <2>1, Products
    <3>2. model.shift * (MaxFrozen + 1) <= base * (MaxFrozen + 1) + n
      BY <2>1, <2>4, <3>1
    <3>3. model.shift \in Nat
      BY <2>1
    <3>. QED BY <2>1, <3>2, <3>3, QuotientBound, Zenon
  <2>. QED BY <1>1, <2>2, <2>3, <2>4 DEF Slowly
<1>2. /\ l1[l] \in Model(FreezeMin) /\ l2[l] \in Model(Settled)
      /\ since[l].n \in 0 .. Limit /\ since[l].l1 \in 0 .. Inertia /\ since[l].l2 \in 0 .. Inertia
      /\ Slowly(l1[l], FreezeMin, since[l].l1, since[l].n)
      /\ Slowly(l2[l], Settled, since[l].l2, since[l].n)
  BY DEF LearningTypeOK, SlowlyLearned
<1>. QED BY <1>1, <1>2

\* A fault is not taken for the usual: a baseline or an autoencoder that was
\* settled when its layer was last usual goes at most one step the way of the
\* fault in MaxFrozen + 1 worse samples, until drift drops it, whatever the
\* other layers, the switch and restarts do.
THEOREM NotAbsorbedCorrect == LearningSpec => []FaultIsNotAbsorbed
<1>1. LearningTypeOK /\ SlowlyLearned /\ [LearningNext]_learningVars
        => LearningTypeOK' /\ SlowlyLearned'
  BY LearningStep
<1>. QED BY <1>1, LearningInitially, SlowImpliesNotAbsorbed, PTL DEF LearningSpec

-----------------------------------------------------------------------------
(***************************************************************************)
(* The drift monitor relearns a change a few times, for buffers of any     *)
(* size.  The samples from before the change leave the recent buffer, then *)
(* the reference (Settles); a decision makes the two the same, so the next *)
(* one takes another sample (Few).                                         *)
(***************************************************************************)
\* What is measured of a layer, when it is.
Sample == {"usual", "worse"}

\* What the monitor keeps of a layer.
Buffers ==
  {d \in [reference : Seq(Sample), recent : Seq(Sample), rest : Nat] :
     Len(d.reference) <= ReferenceSize /\ Len(d.recent) <= RecentSize}

\* The last n samples of the recent buffer, or all of it, are like the very last.
Ends(d, n) ==
  \A i \in 1 .. Len(d.recent) : i > Len(d.recent) - n => d.recent[i] = d.recent[Len(d.recent)]

\* The bad samples are some of them, all if all are worse and none if none is.
LEMMA BadFacts ==
  ASSUME NEW s \in Seq(Sample)
  PROVE  /\ Bad(s) \in Nat
         /\ (\A i \in 1 .. Len(s) : s[i] = "worse") => Bad(s) = Len(s)
         /\ (\A i \in 1 .. Len(s) : s[i] # "worse") => Bad(s) = 0
<1> DEFINE worse == {i \in DOMAIN s : s[i] = "worse"}
<1>1. /\ DOMAIN s = 1 .. Len(s) /\ Len(s) \in Nat
      /\ IsFiniteSet(1 .. Len(s)) /\ Cardinality(1 .. Len(s)) = Len(s)
  <2>1. DOMAIN s = 1 .. Len(s) /\ Len(s) \in Nat
    OBVIOUS
  <2>2. ASSUME NEW n \in Nat PROVE IsFiniteSet(1 .. n) /\ Cardinality(1 .. n) = n
    <3>1. n \in Int /\ 1 \in Int /\ (1 > n => n = 0) /\ n - 1 + 1 = n
      OBVIOUS
    <3>. QED BY <3>1, FS_Interval
  <2>. QED BY <2>1, <2>2
<1>2. Cardinality(worse) \in Nat
  BY <1>1, FS_Subset, FS_CardinalityType
<1>3. ASSUME \A i \in 1 .. Len(s) : s[i] = "worse" PROVE Cardinality(worse) = Len(s)
  <2>1. worse = 1 .. Len(s)
    BY <1>1, <1>3
  <2>. QED BY <1>1, <2>1
<1>4. ASSUME \A i \in 1 .. Len(s) : s[i] # "worse" PROVE Cardinality(worse) = 0
  <2>1. worse = {}
    BY <1>1, <1>4
  <2>. QED BY <2>1, FS_EmptySet
<1>. QED BY <1>2, <1>3, <1>4 DEF Bad

\* A positive product of lengths.
LEMMA Area ==
  ASSUME NEW a \in Nat \ {0}, NEW b \in Nat \ {0}
  PROVE  a * b \in Nat /\ a * b = b * a /\ a * b > 0
OBVIOUS

\* The monitor does not decide between buffers that are the same, nor between two
\* that hold one and the same value.
LEMMA NoDecision ==
  ASSUME NEW d \in Buffers, Decides(d)
  PROVE  /\ d.reference # d.recent
         /\ Len(d.recent) >= 1 /\ Len(d.reference) >= 1
         /\ d.rest = 0
         /\ Ends(d, RecentSize) =>
              \E i \in 1 .. Len(d.reference) : d.reference[i] # d.recent[Len(d.recent)]
<1> DEFINE p == Len(d.reference)
           q == Len(d.recent)
           a == Bad(d.reference) * q
           b == Bad(d.recent) * p
           gap == IF a > b THEN a - b ELSE b - a
<1>1. /\ p \in Nat \ {0} /\ q \in Nat \ {0} /\ q <= RecentSize
      /\ d.reference \in Seq(Sample) /\ d.recent \in Seq(Sample)
  BY DEF Decides, Ready, Buffers
<1>2. 4 * gap >= p * q
  BY DEF Decides, Different
<1>3. Bad(d.reference) \in Nat /\ Bad(d.recent) \in Nat
  BY <1>1, BadFacts
<1>4. a # b
  <2>1. a \in Nat /\ b \in Nat /\ p * q > 0 /\ p * q \in Nat
    <3>1. \A x, y \in Nat : x * y \in Nat
      OBVIOUS
    <3>2. \A x, y \in Nat \ {0} : x * y > 0
      BY Area
    <3>. HIDE DEF p, q
    <3>. QED BY <1>1, <1>3, <3>1, <3>2
  <2> HIDE DEF a, b, p, q
  <2>. QED BY <1>2, <2>1
<1>5. d.reference # d.recent
  BY <1>4
<1>6. ASSUME Ends(d, RecentSize), \A i \in 1 .. p : d.reference[i] = d.recent[q]
      PROVE  FALSE
  <2>1. \A i \in 1 .. q : d.recent[i] = d.recent[q]
    BY <1>1, <1>6 DEF Ends
  <2>2. CASE d.recent[q] = "worse"
    <3>1. Bad(d.reference) = p /\ Bad(d.recent) = q
      BY <1>1, <1>6, <2>1, <2>2, BadFacts
    <3>. QED BY <1>1, <1>4, <3>1, Area
  <2>3. CASE d.recent[q] # "worse"
    <3>1. Bad(d.reference) = 0 /\ Bad(d.recent) = 0
      BY <1>1, <1>6, <2>1, <2>3, BadFacts
    <3>. QED BY <1>1, <1>4, <3>1
  <2>. QED BY <2>2, <2>3
<1>. QED BY <1>1, <1>5, <1>6 DEF Decides

\* One more sample.
LEMMA PushFacts ==
  ASSUME NEW d \in Buffers, NEW v \in Sample
  PROVE  LET e == Push(d, v)
             full == Len(d.recent) = RecentSize
         IN  /\ e \in Buffers
             /\ e.rest = IF d.rest = 0 THEN 0 ELSE d.rest - 1
             /\ Len(e.recent) = IF full THEN RecentSize ELSE Len(d.recent) + 1
             /\ e.recent[Len(e.recent)] = v
             /\ \A i \in 1 .. Len(e.recent) - 1 : e.recent[i] = d.recent[IF full THEN i + 1 ELSE i]
             /\ ~full => e.reference = d.reference
             /\ full => LET gone == Len(d.reference) + 1 - Len(e.reference)
                        IN  /\ gone \in Nat
                            /\ \A i \in 1 .. Len(e.reference) :
                                 e.reference[i] = IF i + gone = Len(d.reference) + 1 THEN d.recent[1]
                                                  ELSE d.reference[i + gone]
<1> DEFINE rest == IF d.rest = 0 THEN 0 ELSE d.rest - 1
           full == Len(d.recent) = RecentSize
           aged == IF full THEN Append(d.reference, Head(d.recent)) ELSE d.reference
           reference == IF Len(aged) > ReferenceSize THEN Tail(aged) ELSE aged
           rec == IF full THEN Tail(d.recent) ELSE d.recent
<1>1. /\ d.reference \in Seq(Sample) /\ d.recent \in Seq(Sample) /\ d.rest \in Nat
      /\ Len(d.reference) <= ReferenceSize /\ Len(d.recent) <= RecentSize
      /\ Len(d.reference) \in Nat /\ Len(d.recent) \in Nat
  BY DEF Buffers
<1>2. Push(d, v) = [reference |-> reference, recent |-> Append(rec, v), rest |-> rest]
  BY Zenon DEF Push, Sample
<1>3. rest \in Nat
  BY <1>1
<1>4. /\ rec \in Seq(Sample) /\ Len(rec) = IF full THEN RecentSize - 1 ELSE Len(d.recent)
      /\ \A i \in 1 .. Len(rec) : rec[i] = d.recent[IF full THEN i + 1 ELSE i]
  BY <1>1
<1>5. /\ Append(rec, v) \in Seq(Sample) /\ Len(Append(rec, v)) = Len(rec) + 1
      /\ Append(rec, v)[Len(rec) + 1] = v
      /\ \A i \in 1 .. Len(rec) : Append(rec, v)[i] = rec[i]
  BY <1>4
<1>6. ~full => reference = d.reference
  BY <1>1
<1>7. ASSUME full
      PROVE  LET gone == Len(d.reference) + 1 - Len(reference)
             IN  /\ gone \in Nat /\ reference \in Seq(Sample) /\ Len(reference) <= ReferenceSize
                 /\ \A i \in 1 .. Len(reference) :
                      reference[i] = IF i + gone = Len(d.reference) + 1 THEN d.recent[1]
                                     ELSE d.reference[i + gone]
  <2>1. Head(d.recent) = d.recent[1] /\ d.recent[1] \in Sample
    BY <1>1, <1>7
  <2>2. aged = Append(d.reference, d.recent[1])
    BY <1>7, <2>1
  <2>3. /\ aged \in Seq(Sample) /\ Len(aged) = Len(d.reference) + 1
        /\ \A i \in 1 .. Len(aged) : aged[i] = IF i = Len(d.reference) + 1 THEN d.recent[1]
                                               ELSE d.reference[i]
    BY <1>1, <2>1, <2>2
  <2> HIDE DEF aged
  <2>4. CASE Len(aged) > ReferenceSize
    <3>1. reference = Tail(aged)
      BY <2>4
    <3>2. /\ reference \in Seq(Sample) /\ Len(reference) = Len(aged) - 1
          /\ \A i \in 1 .. Len(reference) : reference[i] = aged[i + 1]
      BY <1>1, <2>3, <2>4, <3>1
    <3> HIDE DEF reference
    <3>. QED BY <1>1, <2>3, <2>4, <3>2
  <2>5. CASE ~(Len(aged) > ReferenceSize)
    <3>1. reference = aged
      BY <2>5
    <3> HIDE DEF reference
    <3> DEFINE gone == Len(d.reference) + 1 - Len(reference)
    <3>0. Len(reference) = Len(d.reference) + 1 /\ Len(d.reference) \in Nat
      BY <1>1, <2>3, <3>1
    <3>2. gone = 0 /\ \A i \in 1 .. Len(reference) : i + gone = i
      <4>1. gone = 0
        BY <3>0
      <4>2. Len(reference) \in Nat
        BY <3>0
      <4> HIDE DEF gone
      <4>. QED BY <4>1, <4>2
    <3> HIDE DEF gone
    <3>3. /\ gone \in Nat /\ reference \in Seq(Sample) /\ Len(reference) <= ReferenceSize
          /\ \A i \in 1 .. Len(reference) :
               reference[i] = IF i + gone = Len(d.reference) + 1 THEN d.recent[1]
                              ELSE d.reference[i + gone]
      BY <1>1, <2>3, <2>5, <3>1, <3>2
    <3>. QED BY <3>3 DEF gone
  <2>. QED BY <2>4, <2>5
<1> HIDE DEF reference, rec, rest
<1>8. /\ Push(d, v).reference = reference /\ Push(d, v).recent = Append(rec, v)
      /\ Push(d, v).rest = rest
  BY <1>2
<1>9. Len(Append(rec, v)) = IF full THEN RecentSize ELSE Len(d.recent) + 1
  BY <1>1, <1>4, <1>5
<1>10. reference \in Seq(Sample) /\ Len(reference) <= ReferenceSize
  BY <1>1, <1>6, <1>7
<1>11. Push(d, v) \in Buffers
  BY <1>1, <1>2, <1>3, <1>5, <1>8, <1>9, <1>10 DEF Buffers
<1>12. \A i \in 1 .. Len(Append(rec, v)) - 1 :
         Append(rec, v)[i] = d.recent[IF full THEN i + 1 ELSE i]
  BY <1>4, <1>5
<1>. QED BY <1>4, <1>5, <1>6, <1>7, <1>8, <1>9, <1>11, <1>12 DEF rest

\* Time passes.
LEMMA AbsentFacts ==
  ASSUME NEW d \in Buffers
  PROVE  LET e == Push(d, "absent")
         IN  /\ e \in Buffers
             /\ e.reference = d.reference /\ e.recent = d.recent
             /\ e.rest = IF d.rest = 0 THEN 0 ELSE d.rest - 1
<1> DEFINE rest == IF d.rest = 0 THEN 0 ELSE d.rest - 1
           e == [d EXCEPT !.rest = rest]
<1>1. Push(d, "absent") = e
  BY DEF Push
<1>2. d \in [reference : Seq(Sample), recent : Seq(Sample), rest : Nat] /\ rest \in Nat
  BY DEF Buffers
<1> HIDE DEF rest
<1>3. /\ e \in [reference : Seq(Sample), recent : Seq(Sample), rest : Nat]
      /\ e.reference = d.reference /\ e.recent = d.recent /\ e.rest = rest
  BY <1>2
<1> HIDE DEF e
<1>4. e \in Buffers
  BY <1>3 DEF Buffers
<1>. QED BY <1>1, <1>3, <1>4 DEF rest

\* The recent buffer becomes the reference.
LEMMA AcceptFacts ==
  ASSUME NEW d \in Buffers
  PROVE  /\ Accept(d) \in Buffers
         /\ Accept(d).reference = d.recent /\ Accept(d).recent = d.recent
         /\ Accept(d).rest = Cooldown
<1> DEFINE e == [d EXCEPT !.reference = d.recent]
           a == [e EXCEPT !.rest = Cooldown]
<1>1. Accept(d) = a
  BY DEF Accept
<1>2. d \in [reference : Seq(Sample), recent : Seq(Sample), rest : Nat]
  BY DEF Buffers
<1>3. /\ e \in [reference : Seq(Sample), recent : Seq(Sample), rest : Nat]
      /\ e.reference = d.recent /\ e.recent = d.recent
  BY <1>2
<1> HIDE DEF e
<1>4. /\ a \in [reference : Seq(Sample), recent : Seq(Sample), rest : Nat]
      /\ a.reference = d.recent /\ a.recent = d.recent /\ a.rest = Cooldown
  BY <1>3
<1> HIDE DEF a
<1>5. Len(d.recent) <= RecentSize /\ Len(d.recent) \in Nat
  BY <1>2 DEF Buffers
<1>6. a \in Buffers
  BY <1>4, <1>5 DEF Buffers
<1>. QED BY <1>1, <1>4, <1>6

\* One more sample of the same value.
LEMMA EndsGrow ==
  ASSUME NEW d \in Buffers, NEW n \in Nat, Ends(d, n), NEW v \in Sample,
         Len(d.recent) > 0 => d.recent[Len(d.recent)] = v
  PROVE  Ends(Push(d, v), n + 1)
<1> DEFINE e == Push(d, v)
           p == Len(d.recent)
           q == Len(e.recent)
<1>1. /\ p \in Nat /\ q \in Nat /\ p <= RecentSize
      /\ q = IF p = RecentSize THEN RecentSize ELSE p + 1
      /\ e.recent[q] = v
      /\ \A i \in 1 .. q - 1 : e.recent[i] = d.recent[IF p = RecentSize THEN i + 1 ELSE i]
  <2>1. /\ e \in Buffers
        /\ q = IF p = RecentSize THEN RecentSize ELSE p + 1
        /\ e.recent[q] = v
        /\ \A i \in 1 .. q - 1 : e.recent[i] = d.recent[IF p = RecentSize THEN i + 1 ELSE i]
    BY PushFacts
  <2> HIDE DEF e
  <2>. QED BY <2>1 DEF Buffers
<1>2. \A j \in 1 .. p : j > p - n => d.recent[j] = v
  BY <1>1 DEF Ends
<1> SUFFICES ASSUME NEW i \in 1 .. q - 1, i > q - (n + 1) PROVE e.recent[i] = v
  BY <1>1 DEF Ends
<1> HIDE DEF e, p, q
<1>3. CASE p = RecentSize
  BY <1>1, <1>2, <1>3
<1>4. CASE p # RecentSize
  BY <1>1, <1>2, <1>4
<1>. QED BY <1>3, <1>4

\* Of n decisions since the layer changed, each had a sample of its own, the last
\* one, if nothing came since, included; and none comes once both buffers hold
\* nothing but the new value.
Few(d, n) ==
  \E k \in 0 .. RecentSize :
    /\ k <= Len(d.recent) /\ Ends(d, k) /\ (Len(d.recent) > 0 => k >= 1)
    /\ \/ n = 0 \/ n < k
       \/ n <= k /\ d.reference = d.recent
       \/ n <= k /\ k = RecentSize
          /\ \A i \in 1 .. Len(d.reference) : d.reference[i] = d.recent[Len(d.recent)]

\* None so far.
LEMMA FewAtFirst == ASSUME NEW d \in Buffers PROVE Few(d, 0)
<1>1. Len(d.recent) \in Nat /\ Len(d.recent) <= RecentSize
  BY DEF Buffers
<1>2. CASE Len(d.recent) = 0
  BY <1>1, <1>2 DEF Few, Ends
<1>3. CASE Len(d.recent) > 0
  <2>1. Ends(d, 1)
    BY <1>1 DEF Ends
  <2>. QED BY <1>1, <1>3, <2>1 DEF Few
<1>. QED BY <1>1, <1>2, <1>3

\* A sample of the same value.
LEMMA FewPushed ==
  ASSUME NEW d \in Buffers, NEW n \in Nat, Few(d, n), NEW v \in Sample,
         Len(d.recent) > 0 => d.recent[Len(d.recent)] = v
  PROVE  Few(Push(d, v), n)
<1> DEFINE e == Push(d, v)
           p == Len(d.recent)
           q == Len(e.recent)
<1>1. PICK k \in 0 .. RecentSize :
        /\ k <= p /\ Ends(d, k) /\ (p > 0 => k >= 1)
        /\ \/ n = 0 \/ n < k
           \/ n <= k /\ d.reference = d.recent
           \/ n <= k /\ k = RecentSize /\ \A i \in 1 .. Len(d.reference) : d.reference[i] = d.recent[p]
  BY DEF Few
<1>2. /\ p \in Nat /\ p <= RecentSize /\ q \in Nat
      /\ q = IF p = RecentSize THEN RecentSize ELSE p + 1
      /\ e.recent[q] = v
  <2>1. /\ e \in Buffers
        /\ q = IF p = RecentSize THEN RecentSize ELSE p + 1
        /\ e.recent[q] = v
    BY PushFacts
  <2> HIDE DEF e
  <2>. QED BY <2>1 DEF Buffers
<1>3. Ends(e, k + 1)
  BY <1>1, EndsGrow
<1>4. CASE k < RecentSize
  <2>1. k + 1 \in 0 .. RecentSize /\ k + 1 <= q /\ (n = 0 \/ n < k + 1)
    BY <1>1, <1>2, <1>4
  <2>. QED BY <1>3, <2>1 DEF Few
<1>5. CASE k = RecentSize
  <2>1. p = RecentSize /\ q = RecentSize /\ d.recent[p] = v
    BY <1>1, <1>2, <1>5
  <2>2. Ends(e, k)
    BY <1>2, <1>3, <1>5, <2>1 DEF Ends
  <2>3. ASSUME n <= k, d.reference = d.recent
                         \/ \A i \in 1 .. Len(d.reference) : d.reference[i] = d.recent[p]
        PROVE  \A i \in 1 .. Len(e.reference) : e.reference[i] = v
    <3>1. \A i \in 1 .. p : d.recent[i] = v
      BY <1>1, <1>2, <1>5, <2>1 DEF Ends
    <3>2. \A i \in 1 .. Len(d.reference) : d.reference[i] = v
      BY <2>1, <2>3, <3>1
    <3> DEFINE gone == Len(d.reference) + 1 - Len(e.reference)
    <3>3. /\ gone \in Nat /\ Len(d.reference) \in Nat /\ Len(e.reference) \in Nat
          /\ \A i \in 1 .. Len(e.reference) :
               e.reference[i] = IF i + gone = Len(d.reference) + 1 THEN d.recent[1]
                                ELSE d.reference[i + gone]
      <4>1. /\ gone \in Nat
            /\ \A i \in 1 .. Len(e.reference) :
                 e.reference[i] = IF i + gone = Len(d.reference) + 1 THEN d.recent[1]
                                  ELSE d.reference[i + gone]
        BY <2>1, PushFacts
      <4>2. e \in Buffers
        BY PushFacts
      <4> HIDE DEF e
      <4>3. Len(d.reference) \in Nat /\ Len(e.reference) \in Nat
        BY <4>2 DEF Buffers
      <4>. QED BY <4>1, <4>3
    <3>4. \A i \in 1 .. Len(e.reference) : i + gone \in 1 .. Len(d.reference) + 1
      <4>1. ASSUME NEW a \in Nat, NEW b \in Nat, a + 1 - b \in Nat, NEW i \in 1 .. b
            PROVE  i + (a + 1 - b) \in 1 .. a + 1
        BY <4>1
      <4> HIDE DEF e
      <4>. QED BY <3>3, <4>1
    <3>5. d.recent[1] = v
      BY <2>1, <3>1
    <3> HIDE DEF gone, e, p, q
    <3> SUFFICES ASSUME NEW i \in 1 .. Len(e.reference) PROVE e.reference[i] = v
      OBVIOUS
    <3>6. CASE i + gone = Len(d.reference) + 1
      BY <3>3, <3>5, <3>6
    <3>7. CASE i + gone # Len(d.reference) + 1
      <4>1. i + gone \in 1 .. Len(d.reference)
        BY <3>3, <3>4, <3>7
      <4>. QED BY <3>2, <3>3, <3>7, <4>1
    <3>. QED BY <3>6, <3>7
  <2> HIDE DEF p
  <2>4. \/ n = 0 \/ n < k
        \/ n <= k /\ k = RecentSize /\ \A i \in 1 .. Len(e.reference) : e.reference[i] = e.recent[q]
    BY <1>1, <1>2, <1>5, <2>3
  <2>. QED BY <1>1, <1>2, <1>5, <2>1, <2>2, <2>4 DEF Few
<1>. QED BY <1>4, <1>5

\* A decision.
LEMMA FewAccepted ==
  ASSUME NEW d \in Buffers, NEW n \in Nat, Few(d, n), Decides(d)
  PROVE  Few(Accept(d), n + 1)
<1> DEFINE p == Len(d.recent)
<1>1. PICK k \in 0 .. RecentSize :
        /\ k <= p /\ Ends(d, k) /\ (p > 0 => k >= 1)
        /\ \/ n = 0 \/ n < k
           \/ n <= k /\ d.reference = d.recent
           \/ n <= k /\ k = RecentSize /\ \A i \in 1 .. Len(d.reference) : d.reference[i] = d.recent[p]
  BY DEF Few
<1>2. /\ p >= 1 /\ d.reference # d.recent
      /\ Ends(d, RecentSize) => \E i \in 1 .. Len(d.reference) : d.reference[i] # d.recent[p]
  BY NoDecision
<1>3. p \in Nat
  BY DEF Buffers
<1>4. n = 0 \/ n < k
  BY <1>1, <1>2
<1>5. k >= 1 /\ n + 1 <= k
  BY <1>1, <1>2, <1>3, <1>4
<1>6. Ends(Accept(d), k)
  BY <1>1, AcceptFacts DEF Ends
<1>. QED BY <1>1, <1>5, <1>6, AcceptFacts DEF Few

\* So there are no more decisions than the recent buffer has places.
LEMMA FewAreFew ==
  ASSUME NEW d \in Buffers, NEW n \in Nat, Few(d, n)
  PROVE  n <= RecentSize
BY DEF Few

\* Two decisions of a layer are at least so many frames apart.
Apart == Max({Cooldown, CheckEvery, 1})

\* Both rests, and a multiple.
LEMMA ApartFacts ==
  /\ Apart \in Nat /\ Apart >= 1
  /\ \A i \in Nat : i >= Cooldown /\ i >= CheckEvery => i >= Apart
  /\ \A i \in Nat : i * Apart \in Nat /\ (i + 1) * Apart = i * Apart + Apart
<1>1. \E m \in {Cooldown, CheckEvery, 1} : \A i \in {Cooldown, CheckEvery, 1} : m >= i
  <2>1. CASE Cooldown >= CheckEvery
    BY <2>1
  <2>2. CASE CheckEvery >= Cooldown
    BY <2>2
  <2>. QED BY <2>1, <2>2
<1>2. Apart \in {Cooldown, CheckEvery, 1} /\ \A i \in {Cooldown, CheckEvery, 1} : Apart >= i
  BY <1>1, Zenon DEF Apart, Max
<1>3. Apart \in Nat /\ Apart >= 1
  BY <1>2
<1>. QED BY <1>2, <1>3

\* The layer has shown the same in the last age frames, and was measured in all of
\* them: as many samples of the new value are in the two buffers, or they hold
\* nothing else.  The last of n decisions was e frames ago, and those before it each
\* kept their distance.
Settles(d, n, r, age, e) ==
  /\ Ends(d, age)
  /\ age <= Len(d.recent) \/ Len(d.recent) = RecentSize
  /\ Len(d.recent) > 0 => age >= 1
  /\ \A i \in 1 .. Len(d.reference) :
       i + age > Len(d.reference) + RecentSize => d.reference[i] = d.recent[Len(d.recent)]
  /\ n > 0 => /\ (n - 1) * Apart + e < age
              /\ (n - 1) * Apart <= ReferenceSize + RecentSize
              /\ d.rest + e >= Cooldown
              /\ e < CheckEvery => r = e

\* So for some number of frames.
Settling(d, n, r) == \E age \in Nat, e \in Nat : Settles(d, n, r, age, e)

\* None so far.
LEMMA SettlesAtFirst ==
  ASSUME NEW d \in Buffers, NEW r
  PROVE  \E age \in Nat : (Len(d.recent) > 0 => age >= 1) /\ Settles(d, 0, r, age, 1)
<1>1. Len(d.recent) \in Nat /\ Len(d.reference) \in Nat
  BY DEF Buffers
<1>2. CASE Len(d.recent) = 0
  BY <1>1, <1>2 DEF Settles, Ends
<1>3. CASE Len(d.recent) > 0
  <2>1. Ends(d, 1)
    BY <1>1 DEF Ends
  <2>2. Settles(d, 0, r, 1, 1)
    BY <1>1, <1>3, <2>1 DEF Settles
  <2>. QED BY <2>2
<1>. QED BY <1>1, <1>2, <1>3

\* The count of frames up to the next look.
LEMMA NextRound ==
  ASSUME NEW r \in 0 .. CheckEvery - 1
  PROVE  /\ (r + 1) % CheckEvery \in 0 .. CheckEvery - 1
         /\ r + 1 < CheckEvery => (r + 1) % CheckEvery = r + 1
OBVIOUS

\* A frame that shows the same.
LEMMA SettlesPushed ==
  ASSUME NEW d \in Buffers, NEW n \in Nat, NEW r \in 0 .. CheckEvery - 1,
         NEW age \in Nat, NEW e \in Nat, Settles(d, n, r, age, e),
         NEW v \in Sample, Len(d.recent) > 0 => d.recent[Len(d.recent)] = v
  PROVE  Settles(Push(d, v), n, (r + 1) % CheckEvery, age + 1, e + 1)
<1> DEFINE g == Push(d, v)
           p == Len(d.recent)
           q == Len(g.recent)
           s == Len(d.reference)
           t == Len(g.reference)
<1>1. /\ g \in Buffers
      /\ g.rest = IF d.rest = 0 THEN 0 ELSE d.rest - 1
      /\ q = IF p = RecentSize THEN RecentSize ELSE p + 1
      /\ g.recent[q] = v
      /\ p # RecentSize => g.reference = d.reference
      /\ p = RecentSize =>
           /\ s + 1 - t \in Nat
           /\ \A i \in 1 .. t :
                g.reference[i] = IF i + (s + 1 - t) = s + 1 THEN d.recent[1]
                                 ELSE d.reference[i + (s + 1 - t)]
  BY PushFacts
<1>2. Ends(g, age + 1)
  BY EndsGrow DEF Settles
<1> HIDE DEF g
<1>3. /\ p \in Nat /\ p <= RecentSize /\ q \in Nat /\ s \in Nat /\ t \in Nat
      /\ d.rest \in Nat
  BY <1>1 DEF Buffers
<1>4. age + 1 <= q \/ q = RecentSize
  BY <1>1, <1>3 DEF Settles
<1>5. ASSUME NEW i \in 1 .. t, i + (age + 1) > t + RecentSize PROVE g.reference[i] = v
  <2>1. /\ \A j \in 1 .. s : j + age > s + RecentSize => d.reference[j] = d.recent[p]
        /\ \A j \in 1 .. p : j > p - age => d.recent[j] = d.recent[p]
        /\ age <= p \/ p = RecentSize
    BY DEF Settles, Ends
  <2> HIDE DEF p, q, s, t
  <2>2. age >= RecentSize
    BY <1>3, <1>5
  <2>3. p = RecentSize
    BY <1>3, <2>1, <2>2
  <2>4. \A j \in 1 .. p : d.recent[j] = v
    BY <1>3, <2>1, <2>2, <2>3 DEF p
  <2>5. CASE i + (s + 1 - t) = s + 1
    BY <1>1, <1>3, <2>3, <2>4, <2>5
  <2>6. CASE i + (s + 1 - t) # s + 1
    <3>1. s + 1 - t \in Nat
      BY <1>1, <2>3
    <3>2. /\ i + (s + 1 - t) \in 1 .. s
          /\ (i + (s + 1 - t)) + age > s + RecentSize
      BY <1>3, <1>5, <2>6, <3>1
    <3>3. g.reference[i] = d.reference[i + (s + 1 - t)]
      BY <1>1, <2>3, <2>6
    <3>4. d.reference[i + (s + 1 - t)] = d.recent[p]
      BY <2>1, <3>2
    <3>. QED BY <1>3, <2>3, <2>4, <3>3, <3>4
  <2>. QED BY <2>5, <2>6
<1>6. ASSUME n > 0
      PROVE  /\ (n - 1) * Apart + (e + 1) < age + 1
             /\ (n - 1) * Apart <= ReferenceSize + RecentSize
             /\ g.rest + (e + 1) >= Cooldown
             /\ e + 1 < CheckEvery => (r + 1) % CheckEvery = e + 1
  <2>1. /\ (n - 1) * Apart + e < age
        /\ (n - 1) * Apart <= ReferenceSize + RecentSize
        /\ d.rest + e >= Cooldown
        /\ e < CheckEvery => r = e
    BY <1>6 DEF Settles
  <2>2. (n - 1) * Apart \in Nat
    <3>1. n - 1 \in Nat
      BY <1>6
    <3>. QED BY <3>1, ApartFacts
  <2>3. g.rest + (e + 1) >= Cooldown
    BY <1>1, <1>3, <2>1
  <2>4. e + 1 < CheckEvery => (r + 1) % CheckEvery = e + 1
    BY <2>1, NextRound
  <2>. QED BY <2>1, <2>2, <2>3, <2>4
<1>7. Len(g.recent) > 0 => age + 1 >= 1
  OBVIOUS
<1>8. \A i \in 1 .. t : i + (age + 1) > t + RecentSize => g.reference[i] = g.recent[q]
  BY <1>1, <1>5
<1>9. Settles(g, n, (r + 1) % CheckEvery, age + 1, e + 1)
  BY <1>2, <1>4, <1>6, <1>7, <1>8, Zenon DEF Settles
<1>. QED BY <1>9 DEF g

\* A decision at a look, with a sample to decide on.
LEMMA SettlesAccepted ==
  ASSUME NEW d \in Buffers, NEW n \in Nat,
         NEW age \in Nat, NEW e \in Nat \ {0}, Settles(d, n, 0, age, e), Decides(d)
  PROVE  Settles(Accept(d), n + 1, 0, age, 0)
<1> DEFINE p == Len(d.recent)
           s == Len(d.reference)
           a == Accept(d)
<1>1. /\ p \in Nat /\ p <= RecentSize /\ s \in Nat /\ s <= ReferenceSize
  BY DEF Buffers
<1>2. /\ a.reference = d.recent /\ a.recent = d.recent /\ a.rest = Cooldown
  BY AcceptFacts
<1>3. /\ p >= 1 /\ d.rest = 0
      /\ Ends(d, RecentSize) => \E i \in 1 .. s : d.reference[i] # d.recent[p]
  BY NoDecision
<1>4. Ends(a, age) /\ (age <= Len(a.recent) \/ Len(a.recent) = RecentSize)
  BY <1>2 DEF Settles, Ends
<1>5. age >= 1
  BY <1>3 DEF Settles
<1>6. ASSUME NEW i \in 1 .. p, i + age > p + RecentSize PROVE d.recent[i] = d.recent[p]
  BY <1>1, <1>6 DEF Settles, Ends
<1>7. age < ReferenceSize + RecentSize
  <2>1. ASSUME age >= ReferenceSize + RecentSize PROVE FALSE
    <3>1. Ends(d, RecentSize)
      BY <1>1, <2>1 DEF Settles, Ends
    <3>2. \A i \in 1 .. s : i + age > s + RecentSize
      BY <1>1, <2>1
    <3>. QED BY <1>3, <3>1, <3>2 DEF Settles
  <2>. QED BY <2>1
<1>8. n * Apart < age
  <2>1. CASE n = 0
    BY <1>5, <2>1, ApartFacts
  <2>2. CASE n > 0
    <3>1. /\ (n - 1) * Apart + e < age /\ e >= Cooldown /\ (e < CheckEvery => 0 = e)
      BY <1>3, <2>2 DEF Settles
    <3>2. e >= Apart
      <4>1. e >= CheckEvery /\ e >= Cooldown /\ e \in Nat
        BY <3>1
      <4>. QED BY <4>1, ApartFacts
    <3>3. n - 1 \in Nat /\ n = (n - 1) + 1
      BY <2>2
    <3>4. /\ (n - 1) * Apart \in Nat /\ n * Apart = (n - 1) * Apart + Apart
          /\ Apart \in Nat
      BY <3>3, ApartFacts
    <3>. QED BY <3>1, <3>2, <3>4
  <2>. QED BY <2>1, <2>2
<1>9. n * Apart \in Nat /\ (n + 1) - 1 = n
  BY ApartFacts
<1>10. /\ ((n + 1) - 1) * Apart + 0 < age
       /\ ((n + 1) - 1) * Apart <= ReferenceSize + RecentSize
  BY <1>7, <1>8, <1>9
<1> HIDE DEF a
<1>11. /\ Len(a.recent) > 0 => age >= 1
       /\ \A i \in 1 .. Len(a.reference) :
            i + age > Len(a.reference) + RecentSize
              => a.reference[i] = a.recent[Len(a.recent)]
  BY <1>2, <1>5, <1>6
<1>12. a.rest + 0 >= Cooldown /\ (0 < CheckEvery => 0 = 0)
  BY <1>2
<1>13. Settles(a, n + 1, 0, age, 0)
  BY <1>4, <1>10, <1>11, <1>12, Zenon DEF Settles
<1>. QED BY <1>13 DEF a

\* So the decisions are as many as fit, a rest apart, in the life of a sample.
LEMMA SettlingBound ==
  ASSUME NEW d, NEW n \in Nat, NEW r, Settling(d, n, r)
  PROVE  n <= 1 + (ReferenceSize + RecentSize) \div Apart
<1>1. n = 0 \/ (n - 1 \in Nat /\ (n - 1) * Apart <= ReferenceSize + RecentSize)
  BY DEF Settling, Settles
<1>2. ASSUME NEW a \in Nat, NEW i \in Nat, NEW size \in Nat, a >= 1, i * a <= size
      PROVE  i <= size \div a
  BY <1>2
<1>3. (ReferenceSize + RecentSize) \div Apart \in Nat
  BY ApartFacts
<1>4. Apart \in Nat /\ Apart >= 1 /\ ReferenceSize + RecentSize \in Nat
  BY ApartFacts
<1>. QED BY <1>1, <1>2, <1>3, <1>4

\* What is known of a layer, its buffers d and its history h.
Relearns(d, h, r) == Few(d, h.n) /\ (h.gap \/ Settling(d, h.n, r))

\* A frame, with the decision if there is one.
LEMMA LayerRelearns ==
  ASSUME NEW d \in Buffers, NEW h \in [n : Nat, gap : BOOLEAN], NEW r \in 0 .. CheckEvery - 1,
         Relearns(d, h, r), NEW v \in {"absent", "usual", "worse"}, NEW drifted \in BOOLEAN,
         drifted => (r + 1) % CheckEvery = 0 /\ Decides(Push(d, v)),
         NEW g, g = IF v = "absent" \/ (d.recent # <<>> /\ Last(d.recent) = v) THEN h ELSE NoneYet
  PROVE  LET next == IF drifted THEN Accept(Push(d, v)) ELSE Push(d, v)
             told == [n |-> g.n + (IF drifted THEN 1 ELSE 0), gap |-> g.gap \/ v = "absent"]
         IN  /\ next \in Buffers /\ told \in [n : Nat, gap : BOOLEAN]
             /\ Relearns(next, told, (r + 1) % CheckEvery)
<1> DEFINE e == Push(d, v)
           then == (r + 1) % CheckEvery
<1>1. g \in [n : Nat, gap : BOOLEAN]
  BY DEF NoneYet
<1>2. /\ e \in Buffers /\ Few(e, g.n)
      /\ g.gap \/ v = "absent" \/ \E age \in Nat, x \in Nat \ {0} : Settles(e, g.n, then, age, x)
  <2>1. CASE v = "absent"
    <3>1. /\ e \in Buffers /\ e.reference = d.reference /\ e.recent = d.recent
      BY <2>1, AbsentFacts
    <3>2. Few(d, g.n)
      BY <2>1 DEF Relearns
    <3> HIDE DEF e
    <3>3. Few(e, g.n)
      BY <3>1, <3>2 DEF Few, Ends
    <3>. QED BY <2>1, <3>1, <3>3
  <2>2. CASE v # "absent" /\ d.recent # <<>> /\ Last(d.recent) = v
    <3>1. v \in Sample /\ g = h /\ d.recent[Len(d.recent)] = v
      BY <2>2 DEF Last, Sample
    <3>2. e \in Buffers
      BY <3>1, PushFacts
    <3>3. Few(e, g.n)
      BY <1>1, <3>1, FewPushed DEF Relearns
    <3>4. ASSUME ~g.gap
          PROVE  \E age \in Nat, x \in Nat \ {0} : Settles(e, g.n, then, age, x)
      <4>1. PICK age \in Nat, x \in Nat : Settles(d, g.n, r, age, x)
        BY <3>1, <3>4 DEF Relearns, Settling
      <4>2. Settles(e, g.n, then, age + 1, x + 1)
        BY <1>1, <3>1, <4>1, SettlesPushed
      <4>3. age + 1 \in Nat /\ x + 1 \in Nat \ {0}
        OBVIOUS
      <4>. QED BY <4>2, <4>3
    <3>. QED BY <3>2, <3>3, <3>4
  <2>3. CASE v # "absent" /\ ~(d.recent # <<>> /\ Last(d.recent) = v)
    <3>1. v \in Sample /\ g.n = 0
      BY <2>3 DEF Sample, NoneYet
    <3>2. e \in Buffers
      BY <3>1, PushFacts
    <3> HIDE DEF e, then
    <3>3. PICK age \in Nat : Settles(e, 0, then, age, 1)
      BY <3>2, SettlesAtFirst
    <3>. QED BY <3>1, <3>2, <3>3, FewAtFirst
  <2>. QED BY <2>1, <2>2, <2>3
<1>3. CASE ~drifted
  <2>1. Relearns(e, [n |-> g.n, gap |-> g.gap \/ v = "absent"], then)
    <3>1. g.gap \/ v = "absent" \/ Settling(e, g.n, then)
      BY <1>2 DEF Settling
    <3>. QED BY <1>2, <3>1 DEF Relearns
  <2>2. g.n + (IF drifted THEN 1 ELSE 0) = g.n
    BY <1>1, <1>3
  <2> HIDE DEF e, then
  <2>. QED BY <1>1, <1>2, <1>3, <2>1, <2>2 DEF e, then
<1>4. CASE drifted
  <2>1. then = 0 /\ Decides(e)
    BY <1>4
  <2> HIDE DEF e, then
  <2>2. Few(Accept(e), g.n + 1)
    BY <1>1, <1>2, <2>1, FewAccepted
  <2>3. ASSUME NEW age \in Nat, NEW x \in Nat \ {0}, Settles(e, g.n, then, age, x)
        PROVE  Settling(Accept(e), g.n + 1, then)
    <3>1. Settles(Accept(e), g.n + 1, 0, age, 0)
      BY <1>1, <1>2, <2>1, <2>3, SettlesAccepted
    <3>. QED BY <2>1, <3>1 DEF Settling
  <2>4. Relearns(Accept(e), [n |-> g.n + 1, gap |-> g.gap \/ v = "absent"], then)
    BY <1>2, <2>2, <2>3 DEF Relearns
  <2>5. g.n + (IF drifted THEN 1 ELSE 0) = g.n + 1 /\ Accept(e) \in Buffers
    BY <1>2, <1>4, AcceptFacts
  <2>. QED BY <1>1, <1>4, <2>4, <2>5 DEF e, then
<1>. QED BY <1>3, <1>4

\* Types of the monitor and its history.
RelearnTypeOK ==
  /\ learn \in BOOLEAN
  /\ round \in 0 .. CheckEvery - 1
  /\ drift \in [Layers -> Buffers]
  /\ relearned \in [Layers -> [n : Nat, gap : BOOLEAN]]

\* Every layer is known so; while the switch is off nothing is relearned.
SeldomRelearned ==
  \A l \in Layers : /\ Relearns(drift[l], relearned[l], round)
                    /\ ~learn => relearned[l].n = 0

\* A history that begins anew.
LEMMA NoneYetRelearns ==
  ASSUME NEW d \in Buffers, NEW r
  PROVE  NoneYet \in [n : Nat, gap : BOOLEAN] /\ NoneYet.n = 0 /\ Relearns(d, NoneYet, r)
<1>1. NoneYet.n = 0 /\ NoneYet \in [n : Nat, gap : BOOLEAN]
  BY DEF NoneYet
<1>2. Settling(d, 0, r)
  BY SettlesAtFirst DEF Settling
<1>. QED BY <1>1, <1>2, FewAtFirst DEF Relearns

\* Empty buffers are buffers.
LEMMA NoDriftIsBuffers == NoDrift \in Buffers
BY DEF NoDrift, Buffers

\* Nothing is relearned at first.
LEMMA RelearnInitially == LearningInit => RelearnTypeOK /\ SeldomRelearned
<1> SUFFICES ASSUME LearningInit PROVE RelearnTypeOK /\ SeldomRelearned
  OBVIOUS
<1>1. /\ learn = TRUE /\ round = 0 /\ drift = [l \in Layers |-> NoDrift]
      /\ relearned = [l \in Layers |-> NoneYet]
  BY DEF LearningInit
<1>. QED BY <1>1, NoDriftIsBuffers, NoneYetRelearns DEF RelearnTypeOK, SeldomRelearned

\* A frame that is learned.
LEMMA ObserveRelearns ==
  ASSUME RelearnTypeOK, SeldomRelearned, NEW f \in Frames, Observe(f)
  PROVE  RelearnTypeOK' /\ SeldomRelearned'
<1> DEFINE steady(l) == f[l] = "absent" \/ (drift[l].recent # <<>> /\ Last(drift[l].recent) = f[l])
           d(l) == Push(drift[l], f[l])
           then == (round + 1) % CheckEvery
           drifted == {l \in Layers : then = 0 /\ Decides(d(l))}
           h(l) == IF steady(l) THEN relearned[l] ELSE NoneYet
<1>1. /\ learn /\ learn' = learn
      /\ round' = then
      /\ drift' = [l \in Layers |-> IF l \in drifted THEN Accept(d(l)) ELSE d(l)]
      /\ relearned' = [l \in Layers |->
           [n |-> h(l).n + (IF l \in drifted THEN 1 ELSE 0), gap |-> h(l).gap \/ f[l] = "absent"]]
  BY Zenon DEF Observe
<1>2. ASSUME NEW l \in Layers
      PROVE  /\ drift'[l] \in Buffers /\ relearned'[l] \in [n : Nat, gap : BOOLEAN]
             /\ Relearns(drift'[l], relearned'[l], then)
  <2>1. /\ drift[l] \in Buffers /\ relearned[l] \in [n : Nat, gap : BOOLEAN]
        /\ round \in 0 .. CheckEvery - 1
        /\ Relearns(drift[l], relearned[l], round)
        /\ f[l] \in {"absent", "usual", "worse"}
    BY DEF RelearnTypeOK, SeldomRelearned, Frames
  <2> DEFINE moved == l \in drifted
             next == IF moved THEN Accept(d(l)) ELSE d(l)
             told == [n |-> h(l).n + (IF moved THEN 1 ELSE 0), gap |-> h(l).gap \/ f[l] = "absent"]
  <2>2. moved \in BOOLEAN /\ (moved => then = 0 /\ Decides(d(l)))
    OBVIOUS
  <2>3. drift'[l] = next /\ relearned'[l] = told
    BY <1>1
  <2> HIDE DEF moved
  <2>4. /\ next \in Buffers /\ told \in [n : Nat, gap : BOOLEAN]
        /\ Relearns(next, told, then)
    BY <2>1, <2>2, LayerRelearns
  <2>. QED BY <2>3, <2>4
<1>3. /\ drift' = [l \in Layers |-> drift'[l]]
      /\ relearned' = [l \in Layers |-> relearned'[l]]
  BY <1>1
<1>4. then \in 0 .. CheckEvery - 1
  BY NextRound DEF RelearnTypeOK
<1> HIDE DEF then
<1>. QED BY <1>1, <1>2, <1>3, <1>4 DEF RelearnTypeOK, SeldomRelearned

\* Every step.
LEMMA RelearnStep ==
  ASSUME RelearnTypeOK, SeldomRelearned, [LearningNext]_learningVars
  PROVE  RelearnTypeOK' /\ SeldomRelearned'
<1>1. ASSUME NEW f \in Frames, Observe(f) PROVE RelearnTypeOK' /\ SeldomRelearned'
  BY <1>1, ObserveRelearns
<1>2. ASSUME NEW f \in Frames, Score(f) PROVE RelearnTypeOK' /\ SeldomRelearned'
  <2>1. /\ ~learn /\ learn' = learn /\ round' = round /\ relearned' = relearned
        /\ drift' = [l \in Layers |-> Push(drift[l], "absent")]
    BY <1>2 DEF Score, history
  <2>2. ASSUME NEW l \in Layers
        PROVE  /\ Push(drift[l], "absent") \in Buffers
               /\ relearned[l].n = 0
               /\ Relearns(Push(drift[l], "absent"), relearned[l], round)
    <3>1. drift[l] \in Buffers /\ relearned[l].n = 0
      BY <2>1 DEF RelearnTypeOK, SeldomRelearned
    <3>2. Push(drift[l], "absent") \in Buffers
      BY <3>1, AbsentFacts
    <3>3. Settling(Push(drift[l], "absent"), 0, round)
      BY <3>2, SettlesAtFirst DEF Settling
    <3>. QED BY <3>1, <3>2, <3>3, FewAtFirst DEF Relearns
  <2>. QED BY <2>1, <2>2 DEF RelearnTypeOK, SeldomRelearned
<1>3. ASSUME NEW on \in BOOLEAN, SetLearning(on) PROVE RelearnTypeOK' /\ SeldomRelearned'
  <2>1. /\ learn' = on /\ round' = round /\ drift' = drift
        /\ relearned' = [l \in Layers |-> NoneYet]
    BY <1>3 DEF SetLearning
  <2>. QED BY <2>1, NoneYetRelearns DEF RelearnTypeOK, SeldomRelearned
<1>4. ASSUME NEW restored \in BOOLEAN, Restart(restored)
      PROVE  RelearnTypeOK' /\ SeldomRelearned'
  <2>1. /\ learn' = learn /\ round' = 0 /\ drift' = [l \in Layers |-> NoDrift]
        /\ relearned' = [l \in Layers |-> NoneYet]
    BY <1>4 DEF Restart
  <2>. QED BY <2>1, NoDriftIsBuffers, NoneYetRelearns DEF RelearnTypeOK, SeldomRelearned
<1>5. CASE UNCHANGED learningVars
  BY <1>5 DEF learningVars, history, RelearnTypeOK, SeldomRelearned
<1>. QED BY <1>1, <1>2, <1>3, <1>4, <1>5 DEF LearningNext, Frame

\* A change is relearned a few times: once for each place of the recent buffer at
\* most, and, of a layer that is measured all the time, as often as the rest between
\* two decisions fits into the time a sample spends in both buffers.
THEOREM RelearnsCorrect == LearningSpec => []OneMoveFewRelearns
<1>1. RelearnTypeOK /\ SeldomRelearned => OneMoveFewRelearns
  <2> SUFFICES ASSUME RelearnTypeOK, SeldomRelearned, NEW l \in Layers
               PROVE  /\ relearned[l].n <= RecentSize
                      /\ ~relearned[l].gap =>
                           relearned[l].n <= 1 + (ReferenceSize + RecentSize) \div Apart
    BY DEF OneMoveFewRelearns, Apart
  <2>1. /\ drift[l] \in Buffers /\ relearned[l].n \in Nat
        /\ Relearns(drift[l], relearned[l], round)
    BY DEF RelearnTypeOK, SeldomRelearned
  <2>. QED BY <2>1, FewAreFew, SettlingBound DEF Relearns
<1>2. RelearnTypeOK /\ SeldomRelearned /\ [LearningNext]_learningVars
        => RelearnTypeOK' /\ SeldomRelearned'
  BY RelearnStep
<1>. QED BY <1>1, <1>2, RelearnInitially, PTL DEF LearningSpec
=============================================================================
