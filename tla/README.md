# A verification project for NetPulse Local

NetPulse Local (`src/netpulse/`) is an agent that measures a computer's network
with a set of collectors, scores the measurements every fifteen seconds, opens
and closes incidents, notifies the user, and keeps what it saw in SQLite. This
directory holds TLA+ models of the parts whose correctness depends on order,
interleaving, failure or boundaries, the TLC runs that check them, and proofs
checked by TLAPS.

Line numbers below are those of the files in `src/`.

## 1. The system

| part | source | state it keeps | operations | talks to |
|---|---|---|---|---|
| collectors | `collectors/*.py` | cached capability, failure counters, OS counters of the last round | `collect` | probe budget; results go to the worker that called |
| probe budget | `core/ratelimit.py` | tokens and last refill per bucket, `_paused` | `acquire`, `pause`, `resume`, `available` | asked by active collectors, paused by the agent |
| scheduler | `core/scheduler.py` | one thread per collector, its `wake` event, a shared `stop_event` | `start`, `check`, `trigger`, `stop` | calls `Agent._on_result` on the worker's thread |
| sample assembly | `core/agent.py` 49-77 | values measured since the last tick | `update`, `take` | filled by workers, emptied by the scoring loop |
| agent | `core/agent.py` | last maintenance, last save, last severity, last suspicion | `tick`, `pause`, `resume`, `set_learning`, `add_label`, `wipe`, `start`, `stop` | everything |
| feature pipeline | `features/pipeline.py` | rolling windows, last value and time per feature | `push` | called by the scorer |
| scorer | `ml/scorer.py` | `_above`, `_below`, `active_incident`, health, risks | `observe`, `save_state`, `load_state` | rules (L0), baselines (L1), ensemble (L2), forecast (L3), attribution (L4), drift |
| learned stages | `ml/l1_stats.py`, `ml/l2_online.py`, `ml/drift.py` | a baseline per feature, an autoencoder per layer, two buffers per layer | `update`, `observe`, `push`, `accept` | called by the scorer; saved in the model state file |
| templates | `rca/templates.py` | none | `select` | called when an incident opens or escalates |
| store | `store/db.py`, `store/repository.py` | tables `samples`, `samples_rollup`, `scores`, `incidents`, `labels`, `probe_log`, `drift_events`, `kv` | one locked statement each; `rollup_and_prune` and `wipe` are transactions | agent, API threads, and the command line as another process |
| notifier | `notify/notifier.py` | `_last_sent` per layer | `notify` | called by the tick when an incident opens |
| API and UI | `api/server.py` | none | pause, resume, learning, label, export, wipe; read-only pages | calls the agent on a pool of threads |
| command line | `cli.py` | none | the same over the API, or straight on the store when nobody answers | API, store |
| configuration | `config.py` | none | load and validate | read by all |
| evaluation | `eval/` | none that the agent reads back | replays of recordings, metrics, scenarios | scorer |
| export, privacy, logging | `export/`, `privacy.py`, `logging_setup.py` | none that the agent reads back | text, reports | |

What is hard about it:

* **Concurrency.** One thread per collector, the scoring loop, the main thread
  that stops everything, a pool of API threads, and other processes (the
  command line) on the same database. The database lock covers one statement,
  so a tick is a sequence of statements with anything in between.
* **Failure.** The process may die between any two statements; a statement, a
  notification backend, a probe, a thread start may fail; a request may time
  out on the client and still be served.
* **Time.** Token buckets, quiet hours across midnight, cooldowns, retention
  windows and roll-up buckets, each with its boundaries.
* **Order.** Alerting, quiet, unexplained and blind frames in any order.

What makes each part correct, in short: incidents open and close on the frames
the thresholds say (scorer); the table follows the scorer and nothing written is
lost (agent, store); no trigger is lost, dead workers come back, a stop stops
(scheduler); rates are never exceeded and a pause takes hold (budget); the two
copies of a switch agree (control); retention deletes what is old, nothing else,
and counts nothing twice (store); a user is interrupted once and not without
reason (notifier); a fault is not learned as normal before its time, a change
for good is (learned stages); a round says what its own probes saw (collectors);
what was learned survives a restart and does not survive a wipe (model state).

## 2. Modules

| module | models | source |
|---|---|---|
| `Scorer` | `Scorer.observe` after the ladder: counters, opening, escalation, closing | `ml/scorer.py` |
| `Episodes` | abstract specification: when an episode is open, over histories of frames | |
| `ScorerHistory` | `Scorer` with the history of its frames, mapped to `Episodes` | |
| `Ladder` | rules, attribution and band of severity in front of `Scorer`: from a measurement to a frame to an incident | `ml/l0_rules.py`, `ml/l4_rca.py`, `ml/scorer.py` |
| `Cards` | the card the user reads: which template is chosen, and when it is written | `rca/templates.py`, `ml/l4_rca.py`, `ml/scorer.py` |
| `AgentIncidents` | a tick statement by statement on the `incidents` table; labels, wipes by the agent and behind it, crashes, failing statements | `core/agent.py`, `store/repository.py`, `cli.py` |
| `Scheduler` | workers, triggers, watchdog, scoring loop, stop | `core/scheduler.py`, `core/agent.py` |
| `ProbeBudget` | token buckets, the pause switch, collectors that ask | `core/ratelimit.py`, `collectors/base.py` |
| `Cadence` | `ProbeBudget` with collectors that are on time: accepted intervals, jitter, backoff, battery, and the probes a suspicion pulls forward | `config.py`, `core/scheduler.py`, `core/agent.py` |
| `Rounds` | what a round of each collector says, on a host that moves between networks | `collectors/*.py` |
| `Control` | pause and learning, each live and stored; the model state file | `core/agent.py`, `cli.py`, `api/server.py`, `ml/scorer.py` |
| `Learning` | warm-up, freezing, drift and relearning of the learned stages | `ml/l1_stats.py`, `ml/l2_online.py`, `ml/drift.py`, `ml/scorer.py` |
| `Pipeline` | the assembler that workers fill and the tick empties; rolling windows, pruning, compaction, one-pass statistics; carry-forward and what is compared | `core/agent.py`, `features/pipeline.py` |
| `Retention` | `samples`, `samples_rollup` and the maintenance that drives them | `store/db.py`, `core/agent.py` |
| `Notifier` | quiet hours, floor, cooldown, backends, delivery | `notify/notifier.py` |
| `Alerts` | `Scorer` and `Notifier` composed: what interrupts the user | `core/agent.py` |
| `Replay` | the harness that counts alerts, next to the agent it stands for | `eval/replay.py` |

The exact lines of every definition are in `PROJECT.json` ("map").

How they are put together:

    Episodes <== ScorerHistory --> Scorer <-- Ladder <-- Cards
                                     ^  ^
                      AgentIncidents-+  +-- Alerts (INSTANCE Notifier) <-- Replay
    ProbeBudget <-- Cadence        Scheduler  Rounds  Control  Learning  Pipeline  Retention

An arrow is EXTENDS, `<==` a refinement. `Ladder` replaces "any frame may follow
any other" by the frames the rules and the attribution yield, and is shown to
implement `Scorer`, so what is proved of every sequence of frames holds of
those. `Cadence` is `ProbeBudget` in which a collector asks only when it is due;
every step of it is a step of `ProbeBudget` or leaves it alone
(`CadenceImplementsBudget`), so the bounds on rates carry over, and the run
checks them there. `Cards` and `Replay` add a variable to each step of the module
they extend. Each `MC` module gives small values to the constants of its module.
The theorems are in modules of their own: `ScorerProofs`, `AgentProofs`,
`SchedulerProofs`, `RetentionProofs`, `CadenceProofs` (with `ProbeBudget`),
`VerdictProofs` (from the rules to what the user reads and hears: `Ladder`,
`Cards`, `Alerts`, `Replay`), `LearnedStateProofs` (`Control`, `Learning`) and
`MeasurementProofs` (`Rounds`, `Pipeline`).

How state and actions correspond to the code:

* **Scorer.** `above`, `below`, `incident` are `_above`, `_below`,
  `active_incident`; `result` is the `opened` and `closed` of the
  `ScoreResult`. The ladder that scores a sample is abstracted to the frame it
  yields (risk band, severity, layer blamed, blind), and any frame may follow
  any other. `BlindFrame`, `WatchFrame`, `OpenIncident`, `TrackIncident` and
  `CloseIncident` are the five ways through `observe`.
* **AgentIncidents.** `step` is the statement the tick has reached. `held` and
  `incident` are two references to one object, which the code mutates through
  both; `detached` says that a wipe has replaced the scorer, after which they
  are different objects. `CliWipe` is `netpulse wipe` without an answer from the
  API: another process empties the database at any moment, and the agent, which
  may be running, keeps its incident; `cleared` observes which ids had been given
  out by then. A row is overwritten as a whole, label included,
  because `update_incident` writes every column. Rows are found by id; the
  "newest open" query orders by `started_at`, which is the order of ids while
  the clock does not go back.
* **Scheduler.** An action is what a thread does between two points where
  another thread can tell. `at` is where the worker registered under a name is;
  "new" is a thread that is registered and not started (`_spawn`, lines
  201-202), "unstarted" one whose start has failed: a join of either raises, and
  `Agent.stop` then ends without saving (`stopper = "raised"`). `late` counts the
  collects a worker begins after the stop event, and `behind` observes which
  workers were registered after it. The scoring loop is also the watchdog. A tick
  without values returns at once, so it is a stutter. How long a rest lasts is not modelled: a
  rest may end at any time, be cut short by the stop event, or by `wake`.
* **ProbeBudget.** Tokens are counted in units of 1/Period, so a refill is
  exact. `Ask`/`Grant` are the two critical sections of `acquire`. `Mark` is an
  observer that starts counting at any moment, so that a bound over every
  window of time is an invariant.
* **Cadence.** A configuration is the defaults under the file under the
  environment (`Merged`), and the loader looks at it once (`Accepts`). `due` is
  the end of a worker's rest, jitter included, in whole ticks; `woken` is its
  event. `Suspect` is `_probe_on_suspicion` with its cooldown. The clock does not
  pass a worker whose rest is over (`Elapse`): the machine is fast enough.
  `rose`, `began`, `granted` and `barren` are observers for the properties.
* **Rounds.** A round starts, may put several probes on the wire, and ends; the
  budget may refuse each of them, the user may pause, the host may move, and the
  cached route (`netinfo.py`) may be old. `heard` is what the answers to the
  probes that were really sent were; `result` is what the round said. What a
  system tool prints is an outcome: ping answered for some, all or none, a trace
  that is usual, another one or none, a signal with or without its cell.
  Counters of the interface and of TCP are what has happened since the last
  reading of them (`wire`).
* **Control.** `live` and `stored` are the two copies of a switch; a request is
  two steps. `CliStore` is the command line that got no answer. A save is three
  steps, because the file is written in place: the text is made, the file is
  opened (and so emptied), the text is written. What has been learned is a number
  of lessons and the wipe since which they were learned (`era`).
* **Learning.** A model is how many samples it has seen, how long it has been
  frozen, and how far it has moved (`shift`) from the usual regime of its layer
  to a worse one: a learned sample moves it by one, `Inertia` samples all the
  way. That replaces means, variances, weights and errors; what is kept of them
  is which samples look abnormal and what is done with those. The two buffers of
  the drift monitor are kept as they are, and its index is the difference of the
  share of bad samples.
* **Cards.** The templates of a layer are a set of conditions and specificities;
  what they look at and the rules do not is a `Detail`, drawn when a card is
  written. `Tells` says for each rule which templates speak of what it saw.
* **Replay.** The harness sees the same `result` as the agent and collapses
  repeats by its own table.
* **Retention.** A sample is its time; a row of the roll-up is the set of
  samples it stands for. `ROUND(ts / 300) * 300` is rounding to the nearest
  multiple. `RollupAndPrune` is one transaction.
* **Notifier.** The decision and the record of a delivery are one step because
  only the scoring loop calls `notify`. `seen` records what the last call was
  given and did, for the properties; `Recreate` is the notifier of a restarted
  agent, which has forgotten `_last_sent`.
* **Pipeline.** `Take` and `Push` are apart because workers deliver, and an API
  thread may wipe, between them. `frame` is what `push` returned last. Of the
  statistics of a window, count, sum and moment are kept: mean, spread, slope
  and z are functions of them and of the sum of squares, which the same loop
  adds. `lastTake`, `delivered` and `scored` are observers for the properties.
* **Ladder.** A measurement holds, for each value a rule looks at, the level it
  has between the rule's thresholds (`loss = 1` is `gw_loss_rate` at or above a
  half and below one; an absent value fires no rule, so it is level 0). `Hits`
  is `evaluate`, `Raw`, `Dampen`, `Vote` and `Muted` are the four passes of the
  attribution in their order, `Primary` is the sort and its first element.
  Scores are integers: raw ones in hundredths, dampened ones in four-hundredths,
  which makes 0.75 and 0.5 exact. A cross-layer ratio votes with the largest
  weight the code allows or not at all. What L1 and L2 say of a layer
  (`Learned`) and the smoothed forecast (`Forecasts`) are inputs, arbitrary in
  the proofs and a few vectors in the run.

## 3. Runs

TLC looks for deadlock in all runs but four: `scheduler` (a stopped agent has
stopped), `scorer` (the history is bounded), `alerts` and `pipeline` (the clock
is).

| run | bounds | what it shows |
|---|---|---|
| `scorer` | 2 layers (symmetric), open after 2, close after 3, every frame, histories of 7 frames | the scorer implements `Episodes`: incidents open and close on the frames the history says |
| `agent` | 2 incidents, severities info and risk, one crash, one failing statement, two wipes, each through the agent or by the command line, one label, each at any point; fair scheduling | the row of the live incident is up to date between ticks, and one that the command line deleted does not come back; a close hits its own row although orphans exist; one orphan per fault at most; one notification per incident; a quiet network closes everything |
| `agent_label` | as `agent` | violated: see section 6 |
| `scheduler` | 2 collectors, 2 deaths, 1 failing tick or thread start, 1 trigger, 1 join timeout; fair scheduling | no lost trigger; at most one more collect after the stop event, and none by a worker registered behind it; nothing runs once the state is saved; dead workers return while a steady collector lives; a stop ends every worker, and comes to the save unless a thread could not start or was joined in the moment before its start |
| `probe_budget` (`Cadence`) | five collectors on four buckets, four groups of them; a file that asks for too much, an environment that corrects it; jitter of 34%, cooldown of 2, backoff to twice the interval, 4 ticks, pauses at will | every window of time sees one burst plus the rate; a pause lets one probe per collector through; what the loader accepts is not starved; a rise of severity has its probes |
| `control` | 2 concurrent requests (symmetric), 2 crashes, 1 unanswered command, 2 wipes, 2 lessons a life, stops at will | live and stored switch differ only where two requests overlapped, a running agent was bypassed, or (learning) the data was wiped; what was wiped stays wiped unless a save, a crash or a bypassed agent met the wipe; what was saved is there after a restart unless the agent died half way through a save |
| `learning` | a layer that gets worse and comes and goes, and a radio that comes and goes; 2 samples turn a model, 3 frozen steps, buffers of 2, cooldown of 5 frames, 1 toggle, 1 restart; fair scheduling | of a fault a settled model learns one sample in four at most; one change is relearned a few times; a network that changed for good is accepted |
| `collectors` (`Rounds`) | three networks (radio, cable, one whose router filters pings), six groups of collectors, two targets, cache of 2 ticks, 4 ticks, 2 moves | a round speaks of a network the host was on less than the cache's life ago; it says lost, fine or partial by its own answers only; a sign-in page is seen and only a body in pieces is mistaken for one |
| `retention` | buckets of 4 ticks, maintenance every 4, 16 ticks, two window settings, 1 failing pass, 1 restart, wipes and pauses at will | nothing counts twice; nothing leaves a table early; windows hold to within one interval; no bucket is lost as a whole |
| `pipeline` | 2 features, one that goes stale before the longest window ends and one that outlives it, compared with each other; windows of 1 and 2 ticks, compaction after 2, 5 ticks, 1 failing tick, 1 wipe | nothing delivered is lost; a frame shows, and compares, the last value within its limit and no other; the one-pass statistics equal a recount |
| `alerts` (`Replay`) | 2 layers (symmetric), five settings (quiet hours empty, within a day, across midnight; cooldown 2 and 6), warm from the start or after 4 ticks, a day of 4 ticks, 10 ticks, 1 restart | one notification per episode; one per level and cooldown; quiet hours hold and nothing else holds back; the harness counts at least one alert for two interruptions |
| `ladder` (`Cards`) | all seven layers, the default bands, every rule, two vectors of learned scores, one vote, forecasts 0 and 60, seven vectors of details; between two frames one thing measured changes; open after 2, close after 1 | blame stops at the worst layer of the chain; an alerting run that opens nothing has nobody to blame; no incident is named after a layer a rule forbids; the card is that of one of the worst rules of its layer, except for what `RuleGetsItsCard` names of the radio |

Distinct states: `scorer` 84,569; `agent` 909,504; `scheduler` 455,224;
`probe_budget` 3,140,324; `control` 1,983,460; `learning` 636,407; `collectors`
1,979,722; `retention` 574,725; `pipeline` 970,916; `alerts` 580,805; `ladder`
426,417. Each run takes between five seconds and three minutes on two workers.

The type invariants are proved (section 4), and the runs do not check them once
more. `Pipeline`, `Learning`, `Notifier` and the modules that only add to another
one state none: there a value of the wrong type would be outside the domain of a
function, a record or a CASE, where TLC stops.

Why the bounds are enough. The thresholds (6 and 20 frames in the code) matter
through comparisons with counters, so 2 and 3 have the same boundaries; the
proofs cover all values. Two incidents are one orphan and one live incident,
which is what the lookup of the newest open row can confuse. Two collectors are
one that dies and one that keeps the loop alive. The groups of `Cadence` are a
shared bucket, a bucket of one's own, a round that costs two tokens at once and
a collector that backs off and is woken. In `Control` two crashes and two wipes
are a wipe that meets a save and one that repairs it. In `Learning` a buffer of
two has a mixed and a pure state, and three frozen steps a first, a middle and a
last one. In `Rounds` a cache of two ticks is fresh, old and just expired, and
two moves are away and back. Sixteen ticks are four maintenance passes and
buckets that are split by the cutoff in every way. In `pipeline` five ticks see
a feature go stale and return, a window emptied by a gap, and a compaction with
a live rest. In `ladder` any combination of rules is reached, one change after
another; the two learned vectors are a quiet network and trouble past the router
that grows along the chain, and the rules of the radio are the trouble before it,
so that dampening leaves something, nothing, or less than the rule alone. The
details are a machine on a cable, a bad radio and a good one, with and without
retransmissions, and nothing at all. How long an incident takes to close is the matter of
`scorer`, so here one calm frame closes it. Two wipes are one by the command
line and one by the agent, in either order, or one in each of two lives. Each
property is
also checked against a mutant of the definition it is about (`PROJECT.json`,
"mutants"; the mutated operators stand before the originals in the modules): a
property that no plausible bug breaks would say nothing.

Fairness. `FairStoreSpec`: the scoring loop calls `tick` every interval and
catches what it raises, a supervisor of the operating system restarts a dead
agent (systemd, launchd, Task Scheduler under `packaging/`), and a wipe that
has begun ends. `FairSpec` of the scheduler: threads run, every probe has a
timeout so a collect ends, a rest ends, time passes. `FairSpec` of `Learning`:
the scoring loop scores a frame every interval. Nothing is assumed of faults,
requests, or the network, except that `CalmClosesEverything` is about a network
that has become quiet and is measured, and `SteadyIsAccepted` about one that
shows the same from some moment on.

## 4. Proofs

TLC checks the instances above; TLAPS proves the following for every value of
the constants that satisfies the named assumption of the module.

| module | theorems | argument |
|---|---|---|
| `ScorerProofs` | `TypeCorrect`, `DueCorrect`, `EscalationCorrect` | type invariant; an open incident is at least risk and its quiet run is shorter than `CloseAfter`, action by action |
| | `CountersCorrect`, `EpisodesImplemented` | the invariant `CountersMatchHistory` (counter = run length, up to the cap) is inductive together with the types of the histories; with it each action maps to a step of `Episodes` |
| `SchedulerProofs` | `TypeCorrect`, `WakeCorrect`, `StopCorrect`, `QuietCorrect`, `SaveCorrect` | a trigger sets `wake` and `owed` together and only the point before a collect clears them; a collect begun after the stop event leaves the worker at a point from which it exits, and a worker registered after the event waits for it, begins nothing and exits (`LateOK`); when the state is saved all joins have seen their threads end, and nobody but the scoring loop, which has ended, spawns any; a worker in the table is unborn only while the loop is about to start it, or after a start that failed (`UnbornOK`), so only then does a join raise |
| `CadenceProofs` | `TypeCorrect`, `RateCorrect`, `PauseCorrect` | potential: tokens granted since the mark plus tokens now held never exceed a full bucket plus the refill; a late probe presupposes a passed check |
| | `CadenceImplementsBudget` | each step of the collectors maps to a step of the budget or to none |
| | `SuspicionCorrect` | the last suspicion that was acted on lies less than a cooldown behind the last rise, and a worker that is not woken has begun since (`Answered`) |
| | `AcceptedCorrect` | a bucket that serves one collector is filled while the collector rests. A rest lasts at least half an interval, jitter being at most a half, and the loader has made sure that an interval refills a probe: between rounds the collector is owed half a probe before the first round that is refused and a whole one after it (`Paced`, `Owed`), so two rounds in a row are not refused |
| `VerdictProofs` | `LadderTypeCorrect`, `LadderImplementsScorer`, `ExplainedCorrect`, `BlameCorrect`, `UnopenedCorrect`, `SuppressionCorrect` | the frame of any plausible measurement is one `Scorer` accepts, whatever the bands, so every step is a step of `Scorer`; the facts about one frame follow from the raw scores: the first layer of the chain that is in trouble is not dampened away, nor is DNS when the first hops are well, and without a sign-in page one of the two is not suppressed; the facts about incidents from these and the counters of `Scorer` |
| | `CardCorrect` | among the templates of each layer one goes before all others that hold, so the choice is the most specific; what each rule needs to fire is enough for its own template, which goes before all others of its layer (`CardSaysWhy`), on the radio before all but those that `RuleGetsItsCard` names (`RadioSaysWhy`); a card is written for the layer the frame blames |
| | `OneAlertCorrect`, `OncePerLevelCorrect`, `QuietHoursCorrect` | a notification lies as far back as the scorer has counted since (`Spaced`); `_last_sent` is the last notification of each layer, if this agent has sent one (`Recalled`); what was sent at night was critical (`NightKept`); an incident that opened by day is one the user heard of, where there is a log (`LoggedIsHeard`) |
| | `ReplayImplementsAlerts`, `CountBoundCorrect` | a step of the replay is a step of the agent; each count has paid for the notifications before it, and those since are of rising severities, of which there are two that interrupt (`PaidFor`, `Counted`) |
| `RetentionProofs` | `TypeCorrect`, `CountCorrect`, `YoungCorrect`, `WindowsCorrect`, `LossCorrect` | what a pass leaves (two lemmas on the transaction), then each property; freshness is inductive relative to the last pass; rows hold only samples older than the raw ones of the same bucket |
| `LearnedStateProofs` | `TypeCorrect`, `SwitchesCorrect`, `WipedCorrect`, `SavesCorrect` | each property has its own invariant, inductive with the types: a request that has a switch to itself agrees with the agent (`Undisputed`); a wipe that nothing met only goes forward, from tables to file to scorer (`Clean`); no scorer and no save knows less than the file (`Ordered`, `Survives`); a stop begins when nothing else is under way (`StopAlone`) |
| | `NotAbsorbedCorrect` | for a model that had settled when its layer was last usual, steps times `MaxFrozen + 1` plus the samples it has been frozen for are at most the worse samples since (`Slowly`) |
| | `RelearnsCorrect` | since the layer changed, as many samples of the new value are at the end of the recent buffer as frames have measured it, then of the reference (`Settles`); two buffers that are the same, or hold one value, decide nothing; so every decision has a sample of its own (`Few`), and the decisions lie a rest apart in the life of a sample |
| `MeasurementProofs` | `TypeCorrect`, `PlaceCorrect`, `WireCorrect`, `PortalCorrect` | the properties are about the round that has just ended, so they follow from an invariant over the rounds still on: where the host was when the cache was filled (`Cached`), where it was when the round began and that it has counted what it heard (`Underway`), and what the memories of the gateway and of TCP rest on (`Witnessed`) |
| | `NoLossCorrect`, `FrameCorrect` | where each delivery is: in the assembler, with the tick, scored, or excused (`Accounted`); what is carried forward is the newest measurement (`LastIsNewest`) and the frame is computed from it (`FrameShape`); ticks are one per moment (`TicksAdvance`) |
| | `OnePassCorrect` | the live entries of a buffer are the measurements of the longest window, in the order they came, whatever has been pruned, compacted or wiped (`Kept`, `Summed`); a pass over them adds for each window what a sum over its measurements adds (`ScanStep`, `WindowStats`), the places of the buffer being renamed to moments (`SumRenamed`). Both sums are recursive functions; that they exist and unfold is proved first (`SumExists`, `PassExists`) |
| `AgentProofs` | `StoreTypeCorrect`, `MirrorCorrect`, `CloseCorrect`, `NotifiedCorrect`, `OrphansCorrect` | see below |

`AgentProofs` is the deepest of them. None of its properties is inductive: they
speak of the table between ticks, or at one statement, while a crash, a wipe or
a failing statement may strike at any other. Its invariant follows the tick:
what it holds at each statement (`TickOK`), that the incident the scorer knows,
the tick holds or has just closed has the last id given out (`Owned`, from which
the newest open row is the right one), that who says the user was told is right
(`Honest`), that the row lags the incident only by what this tick has yet to
write, or has been deleted by the command line and stays so (`Mirrored`,
`Remembered`), and an account (`Counted`): the open rows that nobody will
close, plus those that a wipe under way is about to leave, are at most as many as
the faults so far. A wipe pays when it empties the tables, and the row that a
running tick inserts behind it is what it has paid for.

Where the prover changed the models. The index of drift counts bad samples as a
cardinality, because a filter of a sequence would need an induction. Sums in
`Pipeline` are over functions, whose recursion the prover can unfold.
`SuspicionIsAnswered` once excepted a worker in the middle of a round; its
invariant showed that the exception was not needed, and it is gone. The invariant
behind `SaveIsReached` did not hold while a thread whose start had failed was
"new" for ever: `Scheduler` now tells the two apart, and the stop that meets
neither fault nor failure came to light (section 6).

Inductions. The induction theorems of the library take an operator and cannot be
cited. Where one is needed (sums, passes over a buffer, powers of two) the proof
takes the set of numbers a fact holds of: if each number inherits it from all
smaller ones, there is no least number without it, and so none
(`StrongInduction` in `MeasurementProofs`, `FromAllSmaller` in `CadenceProofs`).

Only model-checked: liveness (`CalmClosesEverything`, `WatchedWorkerReturns`,
`StopEndsWorkers`, `SteadyIsAccepted`), because fairness and ENABLED are beyond
the prover. Every safety and action property of a passing run is a theorem. `LabelSticks`
does not hold of the code (section 6).

The proofs assume of the constants what the modules state in their ASSUMEs
(`ScorerAssumption`, `LadderAssumption` and so on), which TLC evaluates in the
runs; nothing is assumed of the operators.

## 5. Not modelled

* The arithmetic of the learned stages: means, deviations, weights, errors, the
  logistic regression of L3, its training, and the smoothing of health and risk.
  They are floating point; `Learning` and `Ladder` say what the code does with
  their results. L1 keeps its baselines per hour of the day; `Learning` has one
  baseline per layer, which is the one a frame is compared with.
* The parsing of system tools, HTTP and DNS answers byte by byte: an outcome
  each in `Rounds`.
* Redaction and export, logging, reports, the pages of the UI, authentication:
  text, and no state that the agent reads back.
* The tables that are written and only shown (`scores`, `probe_log`,
  `drift_events`, `labels`), and the one migration, which is a list of CREATE
  statements.
* The scenarios and metrics of the evaluation, which no running agent uses.
* The range checks of single configuration fields (pydantic), URLs and paths.
* The wall clock: time is monotone in every model. Set back, it makes old values
  look young (`features/pipeline.py` 314) and an old row the newest one
  (`store/repository.py`, `active_incident` orders by `started_at`); what follows
  is bounded by how far it was set and not by the program.
* The size of a vote and the cross-layer ratio itself are inputs of `Ladder`;
  `Pipeline` says which values are compared. Coverage is a function of the values
  and enters `Ladder` as `blind`.

Threads are interleaved at the granularity of locks and events; Python's memory
model adds nothing to that for single assignments.

## 6. Where code and documentation disagree

Shown by a run:

* `agent_label`: the label of an open incident is erased by the next tick
  (`core/agent.py` 229-230 with `store/repository.py` 127-139), while
  `docs/operations.md` 141 says that it is stored against that incident.

Met while modelling; the properties are stated so that they hold of the code,
with the gap named:

* Lifecycle. An incident that is open when the process dies is never closed: a
  start restores no incident (`core/agent.py` 277-293, `OrphansBounded`). Blind
  frames do not interrupt a quiet run (`BlindFrame`), while the comment on
  `CLOSE_AFTER` speaks of consecutive quiet frames. An escalation rewrites layer
  and title of an incident, not its secondary layer and confidence
  (`ml/scorer.py` 244-252), so that the two layers may become the same. A tick
  under way during a wipe inserts its incident afterwards (`InsertIncident` with
  `detached`). A `netpulse wipe` that a running agent does not answer in time
  deletes the row of the live incident and leaves the incident in the scorer
  (`cli.py` 402-407): the incident goes on and ends without one
  (`RowMirrorsIncident` names the case).
* Blame. A sign-in page suppresses every layer but DNS and a router that answers
  no ping suppresses DNS; together they leave nobody to blame and the alert is
  neither shown nor stored (`ml/l0_rules.py`, `ml/scorer.py` 161;
  `AlertGoesUnopened` names the case). It takes a laptop that moves from home to
  a hotspot that filters pings, because `_ever_answered` (`collectors/gateway.py`)
  is kept across gateways.
* Cards. A high retry rate with a signal that is unknown or between -75 and -70
  has only a generic card, or that of a slow link. A weak signal, whatever its
  rule's severity, is told as roaming or as a crowded band when there is that too,
  because those templates are the more specific ones (`rca/templates.py` 124-146;
  `RuleGetsItsCard` names these cases). The card for failing connections
  says that the router answers normally (`rca/templates.py` 257), which its
  condition does not ask.
* Learning. A fault that stays long enough for the drift monitor is relearned as
  normal (`FaultIsNotAbsorbed` excepts it). A model that was started afresh by a
  drift is warm and without a scale at once in the joint error, so the output
  stage sees an anomaly (`Unsettled`).
* Rounds. A body in pieces is judged by its first piece (`PortalIsSeen`). The
  cache of the route is never invalidated by a change of the network
  (`netinfo.invalidate` has no caller). A roam is also reported when the host
  was on a cable in between (`Roamed`). Counters of two interfaces are compared
  when the default route moves (`previous`, `collectors/system.py`).
* Cadence. The loader checks two buckets of four, without the share the captive
  check has in one and without jitter (`AcceptedIsNotStarved` needs `Alone`), while
  `docs/operations.md` 114 says that an interval that would exceed the budget is
  rejected. `docs/architecture.md` 94 says that a suspicion only moves an allowed
  probe earlier; it adds one, since the rest begins anew after it.
* Budget. `pause` does not empty buckets (`docs/architecture.md` 90), and a probe
  whose check of the switch came first is granted after it; the theorem says that
  it is one per collector.
* Control. Overlapping requests, an agent without API, and a wipe make the live
  and the stored switch differ (`disputed`). `netpulse wipe` without an agent
  leaves the model state file (`cli.py` 403), which `docs/privacy.md` 156 says is
  deleted (`CliWipe`, `tainted`). A save under way during a wipe brings it back.
* Retention. A cutoff inside a bucket and `INSERT OR REPLACE` in the next pass
  (`store/db.py` 274-279) lose the first part of the bucket; `LossIsLocal` says
  that it is never more than that.
* Pipeline. A wipe leaves the values the assembler holds and those the tick has
  taken; they become the first sample of the new pipeline. A tick that fails loses
  what it has taken.
* Watchdog. It sits behind the return of a tick without values (`core/agent.py`
  167-180), so when no live worker delivers values nobody restarts the dead ones;
  `WatchedWorkerReturns` needs its premise that a collector which delivers lives.
* Stop. `check` looks at the stop event once, before it goes through the
  collectors (`core/scheduler.py` 207). A stop that comes after that look lets
  workers exit, which the check then takes for dead: it registers new ones in the
  table that the stop is joining and starts them, although the comment (208-209)
  says that it must not conjure workers nobody asked for. They end by themselves
  (`StopEndsWorkers`), but a join in the moment between entry and start raises, and
  `Agent.stop` (`core/agent.py` 136-140) does not save what was learned since the
  last interval; no fault is needed. `SaveIsReached` names this case (`loop =
  "spawn"`).
* Notifications. The cooldown is forgotten on a restart, and an incident that
  escalates or that opened in quiet hours is never announced later
  (`NotifyOpened` is the only caller). The harness collapses escalations that the
  notifier lets through, so it may count half of what a user is shown
  (`eval/replay.py` 34-37, `CountBoundsInterruptions`).

## 7. What is left

Everything the plan of this project named is modelled. What could follow, in
this order:

1. A wall clock that may be set back, in `Pipeline` and `AgentIncidents`.
2. The joint output stage of `Learning` with more than two layers, and the
   scenarios of `eval/scenarios.py` as inputs of `Ladder`.
