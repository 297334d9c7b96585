# HarnessLens: verification models

TLA+ models of HarnessLens, the program in this repository that improves the
harness of an agent: it analyses a baseline, lets a *main agent* pick one
problem, lets an *editor* change the harness, tests the changed harness on
training tasks, reviews the evidence, and keeps the change only if a paired
confirmation supports it. Everything that opens an agent session is paid from
one durable ledger of *creation units*, a run may be killed at any point, and
the same run id starts it again.

Paths below are relative to `src/`; `ev/` is `harnesslens/evolution/`.

## 1. The system

### Components

| component | state it keeps | operations | talks to |
|---|---|---|---|
| creation ledger `harnesslens/core/budget.py` | `creation_budget.json` under an `fcntl` lock | name, reserve, claim, mark, refund, settle, import, recover, two corrections | every component that opens sessions |
| session adapters `harnesslens/harnesses/native_intelligent_runtime.py`, `opencode_runtime.py`, `runner.py` | a workspace and a transcript per session | reserve, claim, `Popen`, mark, wait, settle | ledger, provider slots, proxies |
| controller `ev/controller.py` | local variables of the loop; `controller_state.json` (written, never read back); the controller lock | run, iterate, gate, publish | main agent, rollout, experience, analyzer |
| main agent `ev/main_agent.py` | decision and review files per iteration | decide and materialize, finalize, publish | ledger, adapters, editor, workspaces |
| harness editor and workspaces `ev/harness_editor.py`, `harnesslens/harnesses/harness_workspace.py` | version snapshots | materialize, edit, compile | adapters |
| rollout `ev/rollout.py`, `harnesslens/evaluation/rollout_bridge.py` | result files, retained trajectories, job records | run a version, a pair, a preflight; repair; recover; retry | ledger, batch runners |
| tau2 batch runners `harnesslens/benchmarks/*_tau2.py`, `tau2_driver.py` | rows per trial | run a batch of trials in a pool | model proxies, benchmark programs |
| terminal batch runner `harnesslens/benchmarks/terminal_bench.py`, `terminal_cache.py` | rows per trial, a result cache with a lock file per key, containers | run a batch: reap, resume, run or reuse each trial | reaper, slots, Docker |
| discovery, experience, analyzer `ev/discovery.py`, `experience.py`, `analyzer.py` | one JSON file per stage or part, transcripts | run cached sessions in partitions, combine them | ledger, adapters |
| baseline and incumbents `ev/baseline.py`, `incumbent.py` | imported events | import, validate | controller |
| provider capacity, concurrency `harnesslens/infrastructure/provider_capacity.py`, `analysis_concurrency.py`, `chat_completions_proxy.py` | slot files shared by processes | acquire, release | adapters, batch runners |
| container reaper `harnesslens/infrastructure/container_reaper.py` | owner labels on containers | list orphans, remove them | terminal batch runner |
| child lifetime, isolation `harnesslens/infrastructure/child_lifetime.py`, `process_isolation.py` | none | watch a parent, build command lines | batch runners |
| model proxies `harnesslens/infrastructure/codex_responses_proxy.py`, `proxy_bridge.py` | conversation per request | translate, loop over internal tool calls | provider |
| manifests, queries, preflight reports; configuration, artifacts, fingerprint | none | pure | everybody |
| blind test `harnesslens/evaluation/blind_test_eval.py` | its own result files | one evaluation | batch runners |

### What is hard in it

1. **Two critical sections where one is meant.** Naming an attempt and
   reserving it are separate lock holds; the two sides of a pair share one
   check of the units; stage scripts share the ledger without the controller's
   lock.
2. **Crashes between a side effect and its record**: between `Popen` and the
   launch mark, between two retained trajectories, between a session's answer
   and the file made from it.
3. **Replay.** The controller keeps its place in local variables. A restarted
   run starts at iteration 1 and finds its way by files: decisions, result
   files, answers in old transcripts, and modification times. What it finds
   was decided under another number of remaining units.
4. **A hard limit.** The loop prices an iteration ahead; repairs, retries and
   second attempts are on top.
5. **Promotion**: only by a confirmed win against the direct parent, over any
   sequence of the above.
6. **Answers checked late.** Sessions answer in parts; parts are repaired,
   combined and validated again by other code, in a later call or after a
   restart. What an early check let through must pass the late one, since every
   session has been paid by then.
7. **One machine, several processes**: slots, key locks, a result cache and
   containers are shared by processes that die independently, and pids are
   used again.

The list in `PROJECT.json` under `hazards` has each of these at its line, with
the property that watches it.

### What makes each component correct

* Ledger: the limit holds; launched units stay charged; it is a meter.
* Sessions: none runs for free; at most one active attempt per piece of work;
  reservations close.
* Rollout: trials are charged before they run; only broken traces are
  repaired; good evidence is never replaced; a complete batch gets a result.
* Loop: a champion is confirmed, is the harness that was tested, replaces the
  version it was compared with; a proposal is tried once; an affordable stage
  is not refused; the loop ends; a replay agrees with its own past.
* Pair: one check pays for both sides, retries stop at a success and never
  replace evidence, and the annotation of the two files is true.
* Stage sessions: an answer that is on disk is not bought again; a result
  stands on valid parts; a fallback follows a full series of rejected answers
  and is on record; a replay gets the result the call before it got.
* Evidence and plans: what one function writes the next one accepts, with
  nothing lost on the way; a plan fits the units that are left.
* Machine: the agents stay within the slots; a usable result is never computed
  twice; a completed row stays; the reaper removes no container of a live
  worker.

## 2. Modules

| module | models | kind |
|---|---|---|
| `UnitMeter` | what the ledger promises: units held, units spent | abstract specification |
| `TrialEvidence` | what a label promises of its trials over all calls | abstract specification |
| `CreationBudget` | `budget.py`, one action per method | component |
| `CreationBudgetProofs` | theorems about it | proofs |
| `SessionLaunch` | callers, adapters, controller and script processes over the ledger | composition (extends `CreationBudget`) |
| `SessionLaunchProofs` | theorems about it | proofs |
| `RolloutBatch` | `RolloutModule.run_version` with the service and the batch runner under it | composition (extends `CreationBudget`) |
| `RolloutBatchProofs` | theorems about it | proofs |
| `PairedRollout` | both sides of a pair on two threads, targeted retries, annotation | component |
| `PairedRolloutProofs` | theorems about it | proofs |
| `EvolutionLoop` | the controller's loop with the main agent's sessions | component |
| `EvolutionLoopProofs` | theorems about it | proofs |
| `StageSessions` | discovery, experience, comparison, analysis and post-rollout analysis: which sessions they buy, what they keep | component |
| `StageSessionsProofs` | theorems about it | proofs |
| `ExperiencePlans` | merging, dispositions and comparisons of `experience.py` | pure operators |
| `AnalysisPlans` | partition, combination, ranking and fallback of `analyzer.py` | pure operators |
| `ChannelAdmission` | which channels discovery lets a candidate edit | pure operators |
| `BudgetPlan` | costs and rollout plan of `main_agent.py` | pure operators |
| `EvidencePlans` | the computations put to work on every bounded input | composition of the four |
| `EvidencePlansProofs` | theorems about them | proofs |
| `TrialHost` | a machine with several Terminal-Bench processes: cache, slots, containers, reaper | composition |
| `TrialHostProofs` | theorems about it | proofs |
| `MC*` | sets and symmetry for TLC | model checking |

Definitions whose comment says *Mutated form* or *A mutant* are wrong versions
of the definition that follows them. No specification uses them; they document
which slip a property would catch. `RolloutInv`, `LoopInv`, `PairInv` and
`StageInv` collect the type invariant of a module and its smaller invariants,
which are defined, each with its own comment, before them.

### CreationBudget

`jobs` maps an identifier, a pair of a base and an attempt number, to its
record: status, count, outcome, imported. `JobIds` is fixed, an absent record
has status `"absent"`. Every method holds the file lock from its first read to
its last write and `write_json` replaces the file atomically, so a method is
one action. A method called again after its effect returns without change: a
stuttering step of `Transition`. `reserve` for an identifier with a record
returns that record; `Reserve` is the other case and `SessionLaunch` models
the callers that meet this one. `Remaining`, `Created`, `Reserved` are
`_status`; units are counted as the cardinality of a set of pairs, which makes
them provable without recursion. The refinement mapping to `UnitMeter` takes
`held` to the reserved and claimed units, `spent` to the charged ones.

### SessionLaunch

A caller is a worker thread of the controller or a stage script (scripts do
not take the controller lock). `pc[c]` is its place between
`next_attempt_id` and `settle`, `mine[c]` its identifier, `opened[j]` the
number of real sessions started for a job. Actions follow
`NativeIntelligentAdapter.run` and `OpenCodeIntelligentAdapter.run`: name,
reserve, claim, open (`Popen` or the runtime), mark, finish. What raises
before, between and after has an action of its own, since the two adapters
refund and settle on different exceptions. `StopController` is a crash or an
end: threads die with it, sessions are killed. `StartController` takes the
lock and recovers the ledger. Left out: prompts, sandboxes, transcripts.

### RolloutBatch

One label of `run_version`. A trial's trajectory is `good`, `broken` (an
incomplete trace), `infra` (an infrastructure failure) or `torn` (a copy cut
by a crash); `native` are the rows of the batch runner, `retained` the copies
of the service, `repaired` its cached repair requests, `output` the result
file. The order is the code's: use the result file, recover retained
trajectories (and ask for repairs there), name and reserve or reuse a launched
job, run the missing trials, retain one by one, validate, repair one trace at
a time, write the result, settle. `Crash` may fall anywhere; `Restart` is the
controller, which recovers the ledger, or the stage script, which does not.
`OpenCode` selects the validator, whose exceptions differ. `Faults` are the
errors the code handles: the group of trials, the resource guard, a repair. The
guard's job is settled first (`GuardBlocks`) and corrected in a second call of
the ledger (`CorrectCharge`), and a crash may fall between the two, as it may
between the copy of a repaired trace and the end of its job.

The refinement mapping to `TrialEvidence` takes `evidence` to `retained` and
`file` to `output`: a trial is retained once, only a broken trace is replaced,
and the result is written once, whole, when the evidence is final.

### PairedRollout

`run_pair_from_main` and what it calls for the two sides of a pair. A *lane*
is one call of `run_version`: the side as a whole, or one retry label of one
trial. `stage` is the place of the call itself, `at` the place of each lane;
`out` the result files, `mark` the annotation in them, `retries` the numbered
retry files, `job`, `held` and `spent` the ledger as the pair sees it. The
call counts what it needs once (`RequiredCreations`), starts two threads, then
computes the failed trials, retries them in at most `Rounds` rounds of threads
per side, merges each round into the side's file, and annotates both files.
A v0 screen (`single`) has no parent side and raises while a trial is invalid.

Abstractions: `run_version` keeps its durable steps only (`RolloutBatch` has
the rest), so the retention of a batch is one step and claim and launch mark
are one; a trial is evidence or not, which leaves out the failures marked `*`
that no retry may target; a launched job is reused only after a stage script
died, as the controller's recovery closes it. A batch of OpenCode with a
failed trial is not recovered (`OpenCode`). The pair maps to `UnitMeter` as
the ledger does, with `Capacity` for its limit.

### EvolutionLoop

Variables of the process (`iteration`, `champion`, `attempted`, `offers`, the
current `pick`, `mode`, `stage`, `verdict`) are forgotten by `Crash`; those of
the disk (`choices`, `decisions`, `snapshots`, `preflights`, `pairs`,
`evidence`, `answers`, `final`) and the ledger's `remaining` survive. The
actions follow the loop: `Publish` or `FollowDecision` or `Plan` at its head,
`AskMain`, `Edit` or `EditFails`, `Preflight`, `RunPair`, `Analyze`, then a
review (`RecoverReview`, `AskReview`, `RejectReview`), then the gate
(`GoConfirm`, `RejectUnconfirmed`, `Conclude`). `Restart` begins at
iteration 1.

Abstractions, each with its reason:

* Tasks: every screen has the same number of tasks, so a stage has one price.
  The unit prices are constants; the sums over them are the code's
  (`paired_screen_creation_cost` and its companions).
* Evidence of a pair is the set of facts `validate_final_decision` asks about:
  attributable recovery, attributable regression, uncertain recovery, failures
  localized to the changed channel, a replan candidate, a strict gain.
* `finalize` reuses its own file only if it is at least as new as four others.
  The post analysis rewrites two of them on every pass, also on a cache hit,
  so inside the loop the file is never current and the branch is left out.
* Answers that fail validation are not recorded: what they are checked against
  is on disk or only shrinks.
* A revision that the headroom filter would drop is modelled as a rejection.
  Replanned candidates count as supported.
* No incumbent: the first champion is v0. No frozen-run shortcut.
* `promoted` is a history variable: the versions some process has made its
  champion.
* The instance explores the kinds of evidence that decide a gate differently
  (`Decisive`); `evolution_promotion` takes all of them.
* An error no caller handles ends the process and is a `Crash` in that stage.

### StageSessions

Five stages, each a tree of *items*: a session's result, a group, a combined
file. `Work` is a table, read off the functions: how many sessions an item may
buy, whether transcripts of earlier calls are scanned, whether a recovered job
is settled, what an invalid result file leads to (raise, redo, or none in the
case of the baseline output, which `run_baseline` trusts), and what follows the
last rejected answer (raise, fall back with the record before or after, split
into single tasks, combine). `at`, `tries`, `taken` and `refused` belong to the
call; `file`, `record`, `texts` and the ledger survive `Crash`; `CallAgain` is
the replay. The verdicts on one answer differ by reader, as in the code: file,
transcript and live answer are checked with different arguments.

Abstractions: the width of the pools is left out (all items that may run do);
which of several acceptable transcripts is taken is left open; when the
harness query falls back, the code keeps no record and the model has none;
the synthesis has no file of its own besides the baseline output. The salvage
of a query may itself fail: a numeric `runtime_constraints` raises. So may the
combination of parts, which is sorted and validated once more: that is left
open here, and `EvidencePlans` says when it happens.

### Evidence and plans

`ExperiencePlans`, `AnalysisPlans`, `ChannelAdmission` and `BudgetPlan` hold
the computations between sessions as operators, one for each function, with
the validators beside them. Texts are left out; a reference, a task, a channel
or an experience is a model value; an identifier is a sequence of words where
equal slugs matter. `canonicalize_comparison` resolves a reference by its
closest match: the model's answers carry what their references resolve to.
The channel tables are the real ones of the three harnesses.

`EvidencePlans` puts them to work: each action hands an input to a computation
(`given`) and keeps what it made (`made`), `op` names it, and `ReadComparison`,
`ReadReview`, `ReadQuery` and `NextPlan` follow the action whose result is read
again. So an invariant says something about every input of the bounded sets,
and the same formula is what the proofs take for arbitrary ones.

An answer of the post-rollout analysis may be right or wrong in each respect
its validator looks at: tasks left out, assessments without a reason or of no
known relation, channels that were not changed or none, a recommendation that
is none, a replan. The live call lets a replan name the channels that were
changed, the two readers those that were discovered (`ReplanChannels`). A replan
is its channels; the rest of its contract is left out.

### TrialHost

A *process* is a caller of `run_terminal_batch` with its own run root; its
*workers* are the trials of its current batch. `stage` and `doomed` are the
batch with its reaper, `at`, `attempt`, `result` a worker, `keyLock` and
`slotLock` the flocks (which the kernel drops with the process), `cache` and
`rows` the files, `containers` what Docker runs. A worker takes the lock of
its key, looks into the cache, then per attempt starts a container, waits for
a slot, runs the agent, gives the slot back, verifies, removes the container,
and in the end stores a usable result and writes its row. `Crash` ends a
process, `Reboot` all of them; their containers stay until a reaper removes
them, and pids are handed out again.
The reaper lists orphans once and removes them one at a time.

Abstractions: a trial stands for its cache key (the processes test the same
harness; what makes two runs incompatible, the proxy included, is part of the
key); the pool is as wide as the batch; a verifier that timed out has
completed, as in the code; listing orphans is one step; the agents that go on
in orphan containers are not counted; one container per attempt, the labelled
one; one pid namespace; a slot times out only while all files are locked;
writing a row does not fail. `TEST` scope neither reads nor writes the cache.

## 3. Runs

| run | question | result | bounds |
|---|---|---|---|
| `ledger` | do arbitrary ledger calls keep limit, charges and the meter? | holds, 0.29M states | 2 bases, 2 attempts, counts 1..2, total 5, baseline 1 |
| `session_threads` | two workers, crashes and restarts anywhere | holds, 12.6k states | 2 bases, 2 attempts, total 4 |
| `session_scripts` | a worker and a script without the lock | holds, 225k states | the same |
| `session_uncharged` | is every session charged when a script takes part? | violated | the same |
| `rollout` | one label, either validator, restarted by controller or script | holds, 0.85M states | 3 trials, 2 mishaps, total 7 |
| `paired_rollout` | both sides, retries and annotation | holds, 0.30M states | 2 trials a side, 2 rounds, review reserve 2, 9 units, 2 mishaps |
| `evolution_loop` | the loop with a crash and a full replay | holds, 0.92M states | 22 units, 5 iterations, 1 crash |
| `evolution_promotion` | is a promotion ever lost? | violated | 16 units, 4 iterations, 1 crash |
| `stage_sessions` | the five stages with repeated calls | holds, 0.46M states | 2 groups, a chunk of 2 tasks, a group for each side, 6 units, 2 attempts, 1 mishap |
| `stage_answers` | is an answer accepted alike by all readers? | violated | post-rollout stage, 4 units, 3 attempts |
| `evidence_plans` | is what is written accepted where it is read? | holds, 0.46M states | 3 passages, 2 tasks, up to 14 experiences, up to 110 creations |
| `trial_host` | two processes on one machine | holds, 0.91M states | 2 trials, 1 slot, 2 pids, up to 3 batches, 1 retry, 1 or 2 mishaps |

Why these bounds are enough. *Ledger*: two records of one base make a second
attempt, two bases make competition for the last unit, counts 1 and 2 make a
partial fit, and the total is one below the sum of what fits twice.
*Sessions*: two callers are what a race on a name needs, two attempts of two
bases give each a place to collide; the units run out within the bound.
*Rollout*: one trial to repair, one good, one broken or missing; two mishaps
allow a crash inside the recovery of a crash; the budget pays for two batches
and repairs, and runs out. *Pair*: two trials a side are a merge with a kept
and a replaced trial; two rounds are the code's; nine units pay the pair, its
reserve and some of the retries, so every comparison comes out both ways.
*Loop*: an iteration costs 7 to 12 units; 22 make a confirmed iteration, a
terminal one and a refused one, and with a crash the replay of each.
`MaxIterations` never ends a behaviour, since the units or the sources do so
earlier (TLC would report the deadlock). *Stages*: two groups and two tasks are
what a pool, a split and a union need; two attempts make a rejected and a last
answer; six units can be refused in every stage; the second call of the bound
meets every file and transcript the first left. *Evidence*: two sections, three
passages and two merge slots make every overlap of two merges; two tasks with
one or two trials each have every status; 14 experiences exceed the limit of
groups; 110 creations cover every threshold of the plan. *Machine*: two
processes are what a lock needs; one slot makes them wait; with two pids a
third batch gets the pid of a dead process while an orphan of it is being
removed; a second mishap is explored for two batches, where it lets a removal
fail after a crash.

Deadlock is not checked where the system really stops: a pair, a stage or a
computation is over, and nobody has to call again (`paired_rollout`,
`stage_sessions`, `stage_answers`, `evidence_plans`).

### What the runs check

* *ledger*: `BudgetNeverExceeded`, `SpentStaysSpent`, and the refinement
  `ImplementsMeter`.
* *sessions*: `EverySessionCharged`, `LedgerAgreesWithWorkers` and
  `ReservationsClose` with threads alone; `OneActiveAttempt` with a script.
* *rollout*: `RolloutInv` (types, one active attempt, only broken traces are
  repaired, no job stays open), `EveryTrialCharged`, `OutputIsAdmissible`,
  the refinement `ImplementsEvidence`, of which `GoodTrialsKept` is a part,
  `CallsGetThrough` (every call ends, a complete batch gets its result).
* *paired_rollout*: `PairInv` (types, no retry after a success, true and equal
  annotations), `CheckPaysForBothSides`, `RetriesLeaveReview`,
  `ValidEvidenceKept`, `CallEnds`.
* *evolution_loop*: `LoopInv` (types, every promoted version is the harness
  that was tested, a proposal is tried once), `AffordedStagesFinish`,
  `ChampionIsConfirmed` (the champion and each parent of a decision are
  promoted versions, and the evidence of each admits it),
  `PromotesChildOfChampion`, `RunEnds`.
* *stage_sessions*: `StageInv` (types, results valid on return and standing on
  reviewed and valid parts, fallbacks on record), `AnsweredNotBoughtAgain`,
  `FallbackIsEarned`, `ResultsAreFinal`, `StageEnds`.
* *evidence_plans*: `SynthesisIsSound`, `ComparisonIsSound`, `PartsAreExact`,
  `CombinationsAreAccepted`, `ReviewIsSound`, `QueryStaysUsable`,
  `PlanIsSound`; each is a conjunction of two or three named statements.
* *trial_host*: `LiveContainersKept`, `AgentsWithinCapacity`,
  `ResultsAreVerified`, `CachedTrialRunsOnce`, `FinishedTrialKept`,
  `BatchEnds`.

### Divergences the runs show

* `session_uncharged` (docs/architecture_zh.md:179): `reserve` hands out an
  existing record and `claim_launch` accepts one that is claimed. A stage
  script and a worker that named the same attempt both open a session for one
  unit. With worker threads alone the property holds (`session_threads`).
* `evolution_promotion` (docs/architecture_zh.md:166): a failed materialization
  leaves no decision. A resumed run stops at that iteration for lack of units
  and publishes the version before it, although a later one was promoted.
* `stage_answers` (`ev/analyzer.py:216` against 688): the live answer of the
  post-rollout analysis is validated without `available_channel_ids`, which
  the readers of a file and of a transcript pass. A replan candidate for a
  discovered channel, which the prompt invites, is refused live; after a
  restart the same answer is accepted.

### Facts met while modelling that no run states

* A process that dies between two retained trajectories leaves a directory
  that `recover_retained` (`rollout_bridge.py:437`) refuses in every later
  start; README.md:82 says an interrupted run continues.
  `CallsGetThrough` therefore speaks of complete batches.
* A failed materialization is tried again on a replay and may succeed, and a
  review may be decided again; a later decision of the run may then no longer
  follow, and each start dies on it (README_zh.md:78).
* After a crash the mode of an iteration is computed from the units left once
  the recovered session is charged: an iteration may be planned as a terminal
  screen, and the gate, which does not look at the mode, may still confirm and
  promote it (docs/architecture_zh.md:159).
* Reading a comparison again drops the versions its tasks were compared with
  (`coverage.reference_versions`): `ComparisonIsSound` says the rest is equal.
* The post-rollout analysis writes its fallback before the record of it
  (`ev/analyzer.py:741`), the synthesis and the review the other way round.
* A crash frees a slot at once while the agent goes on in its container until
  some batch reaps it. Only the service `client` carries the owner labels.
* The screen reserved for another batch is priced for the present parent; a
  promotion changes the price.
* Two candidates whose names have one slug make the combined side refused.
* The second attempt of a post-rollout analysis is told that the attribution
  must name a changed channel "unless the relation is random"
  (`ev/analyzer.py:680`); the validator makes no such exception (1936), and
  `ValidAssessment` has none. An answer that is random and names none is refused
  each time, until the fallback.
* No validator looks at the priority of a problem. One that `int()` refuses is
  accepted with its part and raises when the parts are combined
  (`ev/analyzer.py:996`); the part stays on disk, so every later start raises
  there. `RaisedForPrioritiesOnly` says that nothing else does.
* An error between the claim and the end of an editor session becomes a failed
  materialization (`ev/main_agent.py:1387`), after which the controller may go
  on: its reservation stays open until the next start recovers the ledger.
  `ReservationsClose` speaks of callers whose errors end the controller.

### Fairness

`SessionLaunch` assumes weak fairness of every worker's steps and of the end
of the controller after an error it does not handle: each wait of an adapter
has a timeout, and the thread pool propagates. `RolloutBatch` and
`EvolutionLoop` assume weak fairness of `Step`, the process's own work, for
the same reason, `PairedRollout` of the call and of each lane (the pools join
their threads), `StageSessions` of `Progress`, some step of some thread.
In `RolloutBatch` a restart is part of `Step`, because its statement about
resumption asks what happens when somebody starts the run again; elsewhere
nobody has to. `TrialHost` assumes weak fairness of each worker's steps and of
each process's batch: Docker, agents and verifiers have timeouts, and a waiter
for a slot that is overtaken for ever ends at its deadline. The lock of a key
has no deadline; its holder's steps are fair and its death frees it.
Crashes, reboots, failures and calls are never fair, and mishaps are bounded.
`CallEnds`, `RunEnds`, `StageEnds` and `BatchEnds` are satisfied by an error
that ends the process; what they exclude is a loop that goes on, or a wait for
one another.

## 4. Proofs

`CreationBudgetProofs`, for every set of bases, every number of attempts,
every size of jobs, every total and baseline that satisfy `BudgetAssumption`
(bases finite; the numbers naturals; the baseline at most the total):

| theorem | says |
|---|---|
| `TypeCorrect` | `LedgerSpec => []TypeOK` |
| `NeverOverspends` | `LedgerSpec => []BudgetNeverExceeded` |
| `SpentIsFinal` | `LedgerSpec => SpentStaysSpent` |
| `LedgerIsAMeter` | `LedgerSpec => ImplementsMeter` |
| `ReleasesAreRefunds` | `LedgerSpec => OnlyRefundsRelease` |

The inductive invariant is `Covered == TypeOK /\ BudgetNeverExceeded`. The
limit alone is not inductive, since without the type nothing bounds the count
of a record that starts to hold units. The argument: `UnitsOf(f, statuses)` is
a finite set of pairs, so its cardinality is a natural number and grows with
the set (`UnitsMonotone`); held and spent units are disjoint, so the counts
add up (`HeldPlusSpent`). `StepForms` reduces the nine methods to four
effects: a new record, a move of units between held and spent or free, a
correction, nothing. Each effect is a step of the meter (`MeterStep`) and
keeps the limit (`CoveredStep`). For `ReleasesAreRefunds`, a step that refunds
nothing keeps every taken unit in the set (`KeptStep`), so the set and its
cardinality cannot shrink.

`SessionLaunchProofs`, for every set of workers and scripts (disjoint, by
`CallersAssumption`) on top of the constants above:

| theorem | says |
|---|---|
| `LaunchTypeCorrect` | `Spec => []LaunchTypeOK` |
| `LaunchUsesLedger` | `Spec => LedgerSpec` |
| `LaunchNeverOverspends` | `Spec => []BudgetNeverExceeded` |
| `AttemptsAreSequential` | `Spec => []OneActiveAttempt` |
| `WorkersMeetTheirLedger` | `Scripts = {} /\ Spec => []LedgerAgreesWithWorkers` |
| `SessionsAreCharged` | `Scripts = {} /\ Spec => []EverySessionCharged` |

* `LaunchUsesLedger` shows that every step of the protocol is one method of the
  ledger or none (`LedgerStep`), so the five theorems above carry over;
  `LaunchNeverOverspends` is the first.
* `OneActiveAttempt` is not inductive: a script may hold a name for as long as
  it likes before it reserves. `Orderly` adds that before every attempt with a
  record, and before every name a caller holds, all earlier attempts of the
  base are used up. `next_attempt_id` counts records; `NextAttemptIsNew` shows
  that the count is the number of the last record, because `Orderly` leaves no
  gap. A used-up attempt stays used up (`JobsStep`), which carries a held name
  through every step of the others.
* The last two need `Scripts = {}`: run `session_uncharged` shows the second
  to be false with a script. `WorkersOnly` adds that concurrent
  workers work for different bases, that no worker is busy while no controller
  is up (hence none while recovery runs), and that a session is opened at most
  once and only after its claim. A crash between Popen and the launch mark
  leaves `launch_claimed`, which recovery charges.

`EvidencePlansProofs`, for every set of keys, references, failures, tasks,
channels, changed channels and experiences, every catalog of drafts, answer,
probe, price, number of units and number of experiences:

| theorem | says |
|---|---|
| `SynthesisIsAlwaysSound` | `Spec => []SynthesisIsSound` |
| `ComparisonIsAlwaysSound` | `Spec => []ComparisonIsSound` |
| `ReviewIsAlwaysSound` | `Spec => []ReviewIsSound` |
| `PartsPartition` | each of `1..n` is in exactly one part, none is empty |
| `PartsAreAlwaysExact` | `Spec => []PartsAreExact` |
| `QueriesStayUsable` | `Spec => []QueryStaysUsable` |
| `PlansAreSound` | `Spec => []PlanIsSound` |
| `CombinationsAreAlwaysAccepted` | `Spec => []CombinationsAreAccepted` |

The assumptions are what the code's types give: a failure is of a known
reference and the key of no source is no key (`EvidenceAssumption`,
`KeyAssumption`), catalogs hold drafts (`CatalogAssumption`), a candidate
changed some channel, of those discovered (`ChangeAssumption`), group sizes and
limits are positive (`PartitionAssumption`), no candidate has the name of none
(`IdentifierAssumption`), a priority is a number or what `int()` refuses
(`PriorityAssumption`), counts and prices are naturals, a standard cycle has at
least one task and the default is no less (`BoundAssumption`,
`CostAssumption`).

* A synthesis is made with a plan that passes its validator (`PlanIsValid`):
  the repaired answer, or the plan that merges nothing. Merging passages of one
  section keeps what makes each valid (`MaterializedIsValid`), the failures
  nobody named get passages of their own (`SynthesisPasses`), and every key is
  in one passage (`EveryPassagePlaced`). Taking out the sources of two merges
  leaves an answer that is valid if it was otherwise in order
  (`ForgivenPlanIsValid`).
* Validity of two groups carries over to their union (`CombinationPasses`);
  an accepted comparison agrees with its trials (`AcceptedIsTruthful`). That
  it reads the same needs the invariant `HoldsTwoGroups`: after `Compare`, the
  comparison consists of canonical accepted groups, and `CanonicalTwice` shows
  that canonicalizing for more tasks leaves those alone.
* Reviews: canonicalizing twice is canonicalizing once (`CanonicalOnce`), and
  what the live call lets a replan name the readers do too
  (`ReadersAreNotStricter`, from `ChangeAssumption`), so an accepted answer is
  accepted again as it is; the two differ in the replan alone. `HoldsReview`
  keeps, after `Review`, that what was made is the canonical form of what was
  given (`ReviewsReadTheSame`). The fallback is accepted because it blames
  nobody and names the changed channels.
* Parts: a number is a multiple and its remainder in one way only (`Division`,
  `RemainderIsUnique`), so the members of a part but its first are a round
  behind in any other part (`PartsAreEven`).
* Queries: the tables and the probe agree channel by channel on what may be
  edited (`AdmittedMayBeEdited`) and what has to be refused
  (`RefusedAsItMustBe`). So a canonical answer (`CanonicalIsValid`), a salvaged
  one (`SalvageIsValid`) and one that is read again (`RereadIsValid`) pass,
  whatever the answer was.
* Plans: costs grow with the tasks (`CostsGrow`), so `max_affordable` finds
  the largest number whose price fits, or none (`AffordableIsLargest`,
  `MaxIsGreatest`), and each branch of the plan says why the next larger choice
  does not (`PlanPromises`). `PlanIsSound` alone is not inductive, as
  `NextPlan` computes with what the plan was given; `PlansKept` keeps that it
  is the plan of its input.
* Combinations: the stable sort by priority is an order of the places. The rank
  of a place, how many come before it, is below `n`, and no two places share
  one, so each rank is taken (`EveryRankTaken`): the sorted list is a
  permutation in that order (`PutAtRanks`, `RankedMoves`). Identifiers are
  pairs of group and position and stay distinct (`JoinedMembers`).
  `FlattenLists` says what a join of lists holds; `ReusablePasses` has the
  reusable side, where only identifiers that are compiled to the same name may
  collide. A candidate a problem refers to is among those of its own accepted
  part (`PartsResolve`), so nothing but a priority can raise
  (`RaisesForPriorities`).
* The maximum needs induction over the naturals, and takes it from
  `LeastMember`: every set of naturals that is not empty has a least member,
  because the intervals up to its members are finite sets, which proper
  inclusion orders well.

`TrialHostProofs`, for every set of processes (finite), trials, pids, slots,
retries, workloads and bounds on mishaps:

| theorem | says |
|---|---|
| `HostTypeCorrect` | `Spec => []HostTypeOK` |
| `CachedTrialsRunOnce` | `Spec => CachedTrialRunsOnce` |
| `FinishedTrialsKept` | `Spec => FinishedTrialKept` |
| `AgentsStayWithinCapacity` | `Spec => []AgentsWithinCapacity` |
| `LiveContainersAreKept` | `Spec => []LiveContainersKept` |
| `ResultsAreAlwaysVerified` | `Spec => []ResultsAreVerified` |

* `HostInv` adds to the types where workers can be: only in the running batch
  of a process that has a pid, on a trial of that batch.
* `KeysGuarded`: a sharing worker between its lock and its row holds the lock
  of its key, and one that got past the look into the cache found nothing
  there. As the lock is exclusive, nobody stores in between.
* `RowsAtRest`: a worker whose row is written is at its end; `Resume` starts
  workers only for trials without a completed row.
* `AgentsHoldSlots`: an agent of a worker that lives holds a slot file, so the
  agents inject into the finite set of slots. The limit is the highest number
  any process was configured with.
* `LiveContainersKept` is not inductive. `ReaperInv` dates containers by the
  number of the batch that made them: containers are not newer than the last
  batch (`ContainersDated`), what a reaper listed is older than its own batch
  and its owner's pid belonged to no live process then (`DoomedAreOld`). A pid
  that is handed out again comes with a new batch number, so what it starts is
  not what was listed.
* `ResultsAreVerified` does not see what a worker holds between its verifier
  and the cache. `ResultsTraced` adds that: a worker that holds a good result
  ran it to a completed verifier or took it from the cache (`VerifiedFor`).
  Verified runs are never forgotten, so a crash or a reboot of any process
  leaves this true of the others.

`RolloutBatchProofs`, for every number of trials, every ledger, set of faults,
restarters and harnesses, and bound on mishaps that satisfy
`RolloutAssumption`:

| theorem | says |
|---|---|
| `BatchIsSound` | `Spec => []RolloutInv` |
| `StartsAreCharged` | `Spec => []EveryTrialCharged` |
| `ResultsAreAdmissible` | `Spec => []OutputIsAdmissible` |
| `EvidenceStays` | `Spec => GoodTrialsKept` |
| `RolloutUsesLedger` | `Spec => LedgerSpec` |
| `RolloutNeverOverspends` | `Spec => []BudgetNeverExceeded` |
| `RolloutKeepsEvidence` | `Spec => ImplementsEvidence` |

* `JobsKnown` follows the two job identifiers of the process from place to
  place with the status each record has there. With it, each action sets one
  record (`Sets`) or closes some, and `OneActiveAttempt` is a matter of
  `next_attempt_id` alone.
* `OpenIsMine`: as long as no script took part, a record that is open belongs
  to the process at work. So a process at its start finds nothing open, never
  reuses a launched batch, and leaves nothing open when it returns
  (`ClosedWithOutput`).
* `EveryTrialCharged` is not inductive: a launched job whose trials have not
  started is charged ahead of them. `StartsArePaid` counts those (`Unstarted`)
  with the started ones, against the charged units only. `OpenIsMine` rules
  out the reuse of a job whose trials were started by another process, and
  the guard's correction comes while its own are unstarted.
* `DiskKnown` says what rows, retained trials and result file are at each
  place; a repair has a target that is a broken trace (`ToRepair`), so neither
  its copy nor a torn one replaces a good trial.
* `RolloutUsesLedger`: every step is one method of the ledger or none
  (`BatchLedgerStep`), so what is proved of any sequence of calls holds here,
  `RolloutNeverOverspends` first. A recovered result settles every launched
  batch; that is one call, because at most one is active (`OneActiveAttempt`).
* `RolloutKeepsEvidence`: each step that writes a trajectory or the result is
  one of the abstract label (`EvidenceStep`). Besides `DiskKnown` it needs
  `RepairsKnown`: a cached repair is a whole trace or a worker failure, and
  the one that is copied has finished.

`PairedRolloutProofs`, for every number of trials, rounds, units, reserve and
bound on mishaps that satisfy `PairAssumption`:

| theorem | says |
|---|---|
| `PairIsSound` | `Spec => []PairInv` |
| `OneCheckPaysForBoth` | `Spec => []CheckPaysForBothSides` |
| `EvidenceIsKept` | `Spec => ValidEvidenceKept` |
| `RetriesSpareTheReview` | `Spec => []RetriesLeaveReview` |
| `PairUsesMeter` | `Spec => UsesMeter` |

* `CheckPaysForBothSides` speaks of one lane at its reservation. It is not
  inductive: what one side leaves to the other matters. `Paid` says that,
  unless a repair took units, the remaining ones cover what both sides may
  still reserve (`Due`). It needs the units held to be those of the lanes that
  have reserved and not launched (`HeldIsReserved`), and each lane to be where
  its stage has it (`LanesPlaced`).
* `LanesKnow`: a lane that works has no answer on disk, so its label is run
  once, no retry follows a success, and a merge finds the file it replaces.
* `CallKnows` keeps what the call has computed true of the files until both
  are annotated: no lane writes a file in those stages.
* `RetriesLeaveReview` does not say what the threads of a round may still take.
  `ScreenKeepsReserve` counts a unit beside the reserve for each retry of a
  screen that has not begun, `PairKeepsReserve` one for each failed trial of a
  pair that may still need it; a retry that fails puts its trial back among
  those, and is counted on the other side. A thread takes its unit when it
  stops being one of those counted, in whatever order they run (`LaneTakes`).
* `PairUsesMeter`: the units change by steps of a lane (`LaneUsesMeter`), of a
  recovery and of a script that dies; each is a step of the meter. A launch
  takes from held units what its own lane has put there (`HeldIsReserved`).

`EvolutionLoopProofs`, for every portfolio, price, budget, number of
iterations and of crashes that satisfy `LoopAssumption`:

| theorem | says |
|---|---|
| `LoopIsSound` | `Spec => []LoopInv` |
| `ChampionsAreConfirmed` | `Spec => []ChampionIsConfirmed` |
| `StartedStagesAreFunded` | `Spec => []AffordedStagesFinish` |
| `ChampionsFollowTheirParent` | `Spec => PromotesChildOfChampion` |

* `Chosen` ties the decision on disk to the iteration a process works on: its
  source is attempted, no earlier decision rests on it, and its parent is the
  present champion. A replay meets the decisions in order and keeps this true.
* `Tested`: a rollout exists only after a decision, and names the snapshot that
  is still there, as nothing edits a version that has a decision.
* `Earned`: an acceptance that reached the gate is one its evidence admits; the
  evidence of an iteration is not rewritten once a promotion rests on it.
* `Funded`: what a stage still needs (`Owed`) with the retry buffer is covered
  by the remaining units and the second attempts since the check. It holds for
  a process that was not restarted, whose iterations have nothing on disk
  ahead of them (`Fresh`).

`StageSessionsProofs`, for every choice of stages, groups, chunks of tasks,
attempts, units and bound on mishaps that satisfy `StageAssumption` (chunks
are not empty and disjoint; no group is of both analysis sides):

| theorem | says |
|---|---|
| `StagesStand` | `Spec => []StageInv` |
| `AnswersAreUsed` | `Spec => []AnsweredNotBoughtAgain` |
| `FallbacksAreEarned` | `Spec => []FallbackIsEarned` |
| `ResultsStay` | `Spec => ResultsAreFinal` |

* `ItemKnown` says what the place of an item tells of its own attempts,
  transcripts, file and record. A step of one item leaves the others as they
  are or asks for them (`ItemFrame`), so it is proved once for the item that
  moves and once for all others.
* `Stands` is what `StageInv` needs besides: an item that is being made from
  parts, or has a file, has every part on disk. Valid files stay
  (`FilesStay`), so it survives crashes and later calls, in which the parts
  are not even looked at.
* `PartsWait`: until an item has looked for its own file its parts are not
  asked for, by whichever way: each has one parent, and the single tasks of a
  split group that are chunks themselves cannot be reached before the
  comparison has looked. `ReviewDue` gives the same for a draft and its review.
* `LiveArePaid` is needed for the types alone: a unit that is refunded was
  spent.

The invariants the proofs add were also checked with TLC on the instances of
the runs. Type correctness of the ledger, the launch protocol and the machine,
the pair's use of the meter, and the rollout's use of the ledger are stated by
theorems alone.

Only model-checked: liveness (`ReservationsClose`, `CallsGetThrough`,
`CallEnds`, `RunEnds`, `StageEnds`, `BatchEnds`), which is out of the prover's
reach. Every other property of a passing run is a theorem for every value of
the constants.

## 5. Plan

Done: the ledger, the launch protocol, the rollout of a label and of a pair,
the loop, the stages, the computations between sessions and the machine, each
with its proofs. What is left, in this order:

1. The choice of tasks and the fields of a decision in the main agent, and
   revisions that the headroom filter drops.
2. The slots of `chat_completions_proxy.py` and the internal tool loop of
   `codex_responses_proxy.py`.

## 6. Not modelled, and why

* Prompts, formats, wording and layout of files; the content of harness edits
  and of trajectories: data the properties do not tell apart. The
  classification of one trajectory (`rollout_outcome.py`) is the kind of a
  trial in `RolloutBatch` and `PairedRollout`.
* Baseline event, incumbents, configuration, profiles, fingerprint, task data
  and splits: sequential reading and validation of files with no durable
  intermediate state.
* Rendering of harness files, channel preflight checks and wrapper processes:
  they keep no state of their own; the preflight is one unit and one verdict in
  `EvolutionLoop`.
* Terminal images and patches, BIRD: BIRD resumes its rows as the tau2 runners
  do and has neither slots nor containers nor a shared cache.
* Model proxies: translation of one request at a time.
* Blind test: one pass through the batch runners (its scope is in
  `TrialHost`).
* Child lifetime and isolation: a thread that polls a parent, and command
  lines. Benchmark programs and model providers are external.
* The shortcut of a frozen run (`ev/controller.py:1022`) and analysis reuse.
