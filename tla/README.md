# GEPA, specified

TLA+ specifications of GEPA (`src/`), an evolutionary optimizer of textual
candidates: a pool of candidates grows by reflective mutation and by merging,
per-example Pareto frontiers decide which candidate is mutated next, and a
budget of metric calls decides when to stop. All source paths below are
relative to `src/src/gepa/`.

Contents: [1 the system](#1-the-system), [2 the modules](#2-the-modules),
[3 what is checked](#3-what-is-checked), [4 fairness](#4-fairness),
[5 what is proved](#5-what-is-proved), [6 findings](#6-findings),
[7 plan and what is not modelled](#7-plan-and-what-is-not-modelled).

## 1 The system

### Parts

| part | code | state it keeps | operations |
|---|---|---|---|
| Engine loop | `core/engine.py` | `GEPAState`, `_stop_requested`, the local `proposal_accepted` and `evals_before_iteration` | `run`, `_run_reflective_batch`, `_add_evaluated_program`, `request_stop` |
| Optimizer state | `core/state.py` | candidates, sub-scores, three frontier tables, retained outputs, counters, trace; checkpointed to `gepa_state.bin` | `__init__`, `update_state_with_new_program`, `increment_evals`, `save`, `load`, `is_consistent` |
| Parent selection | `gepa_utils.py`, `strategies/candidate_selector.py` | none | `remove_dominated_programs`, `select_program_candidate_from_pareto_front`, top-K |
| Reflective proposer | `proposer/reflective_mutation/reflective_mutation.py` | rng, trace, sampler | sample tasks, evaluate parents, reflect, evaluate children |
| Merge proposer | `proposer/merge.py` | `merges_due`, `total_merges_tested`, `last_iter_found_new_program`, `merges_performed`, none of it checkpointed | `propose`, `schedule_if_needed` |
| Evaluation server | `oa/eval_server.py` | `eval_log`, `best_score`, `best_candidate`, a semaphore, a thread pool, files under `evals/`; progress log, candidate registry and their files, `summary.json` | `evaluate`, `evaluate_batch`, `evaluate_examples`, `log_progress` |
| Budget | `oa/budget.py` | `_used` under a lock | `check`, `record` |
| Stop conditions | `utils/stop_condition.py` | some count in memory | `__call__` |
| Evaluation cache | `core/state.py` | candidate, split and example to score, in the checkpoint | get, put |
| Response and evaluation journals | `response_journal.py`, `evaluation_journal.py` | append-only files | begin, record, replay |
| Generation recovery | `proposer/reflective_mutation/generation_recovery.py` | attempts of a reflection | bounded retries |
| Batch samplers | `strategies/batch_sampler.py` | epoch, shuffled ids, cursor | `next_minibatch_ids` |
| Ensembles | `oa/ensemble.py` | slices of one budget | sequential, adaptive, feed-forward |
| Engines of optimize_anything | `oa/engines/` | none shared | clients of the evaluation server |
| Reflection strategies, JEV controller, action space | `proposer/reflective_mutation/`, `strategies/` | prompts, policy weights | build prompts, parse answers |
| Language-model client, adapters, sandbox | `lm.py`, `adapters/`, `oa/sandbox.py` | connections | external calls |
| Callbacks, logging, result, visualization, launchers | `core/callbacks.py`, `logging/`, `core/result.py`, `api.py` ... | none | observe, format, wire |

### How the parts interact

`GEPAEngine.run` is one thread. At the top of each iteration it saves the state
and counts the iteration; then either a scheduled merge is proposed and judged
(`MergeProposer.propose`), or a reflective batch is sampled from the frontiers
(parent selection), evaluated, reflected on (language model), and evaluated
again. What is selected is evaluated on the validation set and added to the
state one program at a time (`_add_evaluated_program`, then
`update_state_with_new_program`), which updates the frontiers and schedules a
merge. Callbacks are told synchronously. An exception anywhere in the iteration
ends it: the loop goes on when the iteration spent metric calls and
`raise_on_exception` is off, otherwise the process dies and a new one resumes
from `gepa_state.bin`.

Two journals make a resume cheap: every evaluation stage is recorded under its
iteration and phase before its result is used (`evaluation_journal.py`), and a
language model with a response journal records each answer under its scope and
ordinal (`response_journal.py`, `lm.py`). A resumed iteration is expected to
sample the same tasks, from the checkpointed sampler and random stream, and so
to ask what the journals can answer.

`optimize_anything` turns the picture round: engines, in their own threads or
behind HTTP, call the *evaluation server*, which shares one budget among all
callers. A semaphore of `max_concurrency` permits, the budget's lock, the log's
lock and the file lock are taken in turn and never nested, so calls interleave
between them; `evaluate_examples` also fans out to a pool of threads. An
ensemble gives such a server to several engines in turn: the adaptive scheduler
(`oa/ensemble.py`) lowers the budget's limit for a slice, runs an engine, puts
the limit back and decides who is next.

### What is hard here

* **Crashes**: whatever dies between two saves must be lost exactly, and
  memory that is not checkpointed (merge credit, what merges were built) starts
  afresh. What was bought before a death must be found again by the resume.
* **Partial failure**: adding a program can raise after the budget was counted,
  after the pool grew, or between two frontier updates; the loop survives that.
* **Bounds**: the budget is looked at only between iterations (engine) and
  before a call that is charged after it (server).
* **Interleaving**: budget, log, best candidate and files are updated in
  separate critical sections by concurrent callers; evaluations may outlive the
  engine that started them.
* **Retries**: a failed batch of reflections is repeated task by task, from
  the same random state and with the answers that did arrive.
* **Long sequences**: frontiers are kept incrementally under partial
  evaluations; removal of dominated programs is order dependent.

`PROJECT.json` lists these hazards one by one, at their lines, with the
properties that cover them.

### What makes each part correct

* Engine: the pool across deaths is a durable log; a death costs one iteration;
  a stop request is honoured; the budget is overrun by at most one iteration;
  merges are paid for by discoveries and never crowd out reflection; the loop
  ends.
* State: each frontier is the argmax over the whole pool; retained outputs
  match it; discovery budgets are ordered.
* Parent selection: every frontier keeps a program; nothing redundant is kept.
* Journals and sampler: what was recorded is never replaced, is what a resume
  finds, and is not paid for again; a resumed iteration samples the same tasks;
  an epoch shows every example.
* Merges: they join separate lines of descent, keep every refinement, are never
  built twice, and enter the pool with the scores they were judged by.
* Server: every pair evaluated is charged once; the overrun is bounded by what
  is in flight; permits are conserved; log, best candidate and files agree;
  progress log, ids and rows resolve; `summary.json` is true of some moment;
  every call returns.
* Adaptive scheduler: slices share one hard budget, the server is given back
  whole, no slice starts from a candidate that was beaten, the turns end.

## 2 The modules

| module | models | depends on |
|---|---|---|
| `DurableRun` | abstract: a pool that grows, becomes durable, and loses what was not saved | |
| `WriteOnceTable` | abstract: a table whose entries are written once | |
| `EvalLedger` | abstract: books of work handed out, charged and entered, with a width for what is out and not charged | |
| `GEPAEngine` | the loop of `core/engine.py` with the merge counters, the checkpoint, deaths and resumes | `INSTANCE DurableRun` |
| `BatchSampler` | `strategies/batch_sampler.py`, as operators | |
| `ReplayedRun` | the iterations of the engine with their journals: `lm.py`, `response_journal.py`, `evaluation_journal.py`, the batched reflection of `reflective_mutation.py` and `reflection_lm.py` | `EXTENDS BatchSampler`, `INSTANCE WriteOnceTable` |
| `MergeProposer` | `proposer/merge.py` with the evaluation cache and the loop around it | |
| `GEPAState` | the pool and frontiers of `core/state.py` | |
| `EvaluationTables` | the evaluation tables an adapter can return | |
| `DominationFilter` | `gepa_utils.py` and the Pareto selectors | |
| `EvalServer` | `oa/eval_server.py` and `oa/budget.py` under concurrent callers | `INSTANCE EvalLedger` |
| `ProgressLog` | the progress log, the candidate registry, their files and `summary.json` of the same server | |
| `AdaptiveSequential` | the adaptive scheduler of `oa/ensemble.py` on one budget | |
| `MC*` | the constants of a run that a `.cfg` cannot write down | the module they are named after |
| `*_proofs` | the theorems about the module they extend | `TLAPS` |

**GEPAEngine.** One action per stretch of the loop between two points at which
an exception may leave it. `st` is the live state: iterations begun, for each
program the iteration that added it, and `total_num_evals`. `disk` is
`gepa_state.bin` (replaced atomically by `os.replace`, so `Save` is one
assignment). `Begin` is the top of the loop;
`SkipMerge`/`ProposeMerge`/`AddMerge` the merge path; `EvaluateParents`,
`ProposeNothing`, `EvaluateChildren`, `EvaluateOnValset`, `AddSelected` the
reflective batch, with the selected candidates left in `queue`. `FailEvaluation`
and `FailAdd` raise at every point that can, and go through `Catch`, the
`except` clause with its three-way decision. `AddUpTo` is what
`_add_evaluated_program` leaves behind at the point it raises. `announced` is what
`on_candidate_accepted` told of, `accepted` the flag `on_iteration_end` reports.
`discovered` holds the programs that reflection added in this process, and
`attempts` counts the merges it judged: neither guards anything, and both begin
empty with each process, as the merge counters do. A merge's subsample has a cost of
its own, apart from a minibatch's.
`Die` clears the process, `Start` loads the checkpoint. Evaluations cost between
zero (all cached) and the full price, and verdicts are nondeterministic: which
candidate wins is `GEPAState`'s and `DominationFilter`'s business.

**BatchSampler and ReplayedRun.** The sampler is a record of its four
checkpointed fields, with the shuffle's permutation as an argument. `ReplayedRun`
goes through an iteration in the code's order: `Begin` saves the state, the sampler and
the position of the shared random stream; a due merge may draw from that stream
(`MergeFindsNothing`, `MergeIsJudged`) before `Sample` draws a parent and a
minibatch per task. Both evaluation stages are `ReplayStage`, `RefuseStage` or
`RunStage` and `RecordStage`. Reflection is `RefuseBatch`/`ReplayBatch`/`CallBatch`,
one transaction per stored answer (`StoreOfBatch`) and the end of the batch
(`FinishBatch`); a failed batch goes to `single`, where `RefuseCall`,
`ReplayCall`, `CallGivesText`/`StoreOfCall`, `CallGivesNone` and `CallFails` are
`LM.__call__`. Answers and evaluations are numbered: a new one has a number that
neither the journal nor the evaluations have for its place (`Fresh`, `FreshRun`), so that
nothing agrees with a record unless it was replayed. `bought` and `ran` remember, over all
processes, what was last bought for each slot and last run for each stage, which
is what `PaidOnce` compares with the journals; `gained` is whether this process got
anything it paid for into one. In a batch without a journal the first bad answer, in
the order of the tasks, decides (`FirstBad`): an exhausted one ends the iteration,
another error sends the tasks one by one. `journaled` tells whether
the language model has a response journal; the journal of evaluations is
always there, as in the engine. Which tasks the parents' results skip is a
choice from `JobLists`.

**MergeProposer.** A program is the text of each of its components, `parents` and
`subscores` are what `core/state.py` keeps, the cache maps (candidate, split,
example) to a score. `Pairs`, `CommonAncestors`, `Desirable`, `Source` and
`Subsamples` are the functions of `merge.py`, a draw being a choice. The
dominators a pair is drawn from are any set with the two properties that
`DominationFilter` is shown to have. `RefuseLong`, `Propose`, `Accept`, `Reject`
are `propose` and the engine's judgement; `Reflect` is a reflective iteration reduced
to what it adds to the pool, the cache and the merge counters. Evaluators are
noisy: a pair that is not cached may score differently each time.

**GEPAState.** The code keeps four kinds of frontier by one rule; the model keeps
one table with keys `<<"val", v>>`, `<<"objective", o>>` and
`<<"cartesian", v, o>>`. `AddProgram` is `update_state_with_new_program`
together with the counting done by its caller; what that counting added is kept
with the program as `cost`, which nothing reads but `DiscoveryOrdered`; `AddProgramFaults` the same cut
short between two examples, when a score of `float("-inf")` ties with the
default of `dict.get` and `best_outputs_valset[val_id]` is a `KeyError`. An
evaluation without objective scores raises after the pool and the per-example
table have changed (`MissingObjectives`), which `AddProgram` shows as `raised`.
Examples are updated in the order of a dict: every subset may be done before the
fault. Scores are integers scaled so that an objective's mean is one
(`EvaluationTables`), and compared only.

**DominationFilter.** `Remove` is one round of the `while` loop: the removable
program of the lowest average score, with set order among equals left open.
`Pick` is the draw; its weights are abstracted to its support. `K` is the
selector's `k` (0 for the plain selector), fixed at construction.

**EvalServer.** One action per critical section. `Acquire` takes a permit,
`Check` is `budget.check`, `Return`/`Raise` the user's function, `Record`
`budget.record`, `RecordFailure`/`RecordGroupFailure` the charges of the two
`except` clauses, `Track` the section under `_lock`, `WriteRecord` the section
under `_io_lock`. `Leave` is the `finally` clause and what the caller makes of
the outcome: a pool task turns any exception into a 0.0, a staged grouped call
that failed falls back to the pool. `Holding` says which threads are inside the
semaphore; a grouped call gives its permit back before it records. `hasBatch` is
whether the server was given a `batch_evaluate`. In terms of `EvalLedger`, what is
handed out is `executed`, the pairs given to the user's functions, what is charged
is `used`, the entries are the log, and the width is the semaphore's, or one stage
per client with grouped calls. `Check` is `HandOut`, a charge of `Record`,
`RecordFailure` or `RecordGroupFailure` is `Charge`, `Track` is `Enter`; the rest
stutters.

**ProgressLog.** One action per critical section, unlocked read or file write:
`log_progress` is `Register`, `WriteCandidate`, `Enter`, `WriteRow` and `Answer`, the end of
an evaluation is `Charge`, `Track`, `TakeSnapshot` and `WriteSummary`. `Track`
and `TakeSnapshot` are two actions under one lock, because the budget they both
read is charged under another.

**AdaptiveSequential.** The loop of `optimize_adaptive_sequential_with_server`,
one action per read of the budget's counter: `TopOfLoop`, `LowerCap`, `ReadBefore`, the
slice (`Evaluate`, `StartStray`, `EngineReturns`, `EngineRaises`), `RestoreCap`,
and the three ways the judgement ends. `StrayEnds` charges an evaluation that
outlived its slice, at any later time and against the limit of that time. `Leave` is
the `finally` clause. The arguments of the call are a record `c`.

External code (the adapter, the user's evaluator, language models, the file
system's `os.replace`) is left open: it returns any value of its range or
raises.

## 3 What is checked

`CHECK_DEADLOCK FALSE` in every run: a run of the loop, of a filter, of
finitely many calls, of a scheduler really stops. Bounds are constants named in
the modules.

| run | instance | states | shows |
|---|---|---|---|
| `engine_loop` | budget 7, minibatch 1, a merge's subsample 2, valset 2, batch 2, one merge, one death then a restart, faults everywhere, stop at any time | 57 408 | `OvershootBounded`, `LossBounded`, `MergeCredit`, `MergeFollowsDiscovery`, `IterationsTell`, `Terminates`, `PoolIsDurable` |
| `replay` | 3 tasks, 3 training examples, minibatches of 2, 3 iterations, 3 faults (provider errors, answers without content, deaths before anything paid for was recorded), any number of other deaths, with and without a response journal | 1 272 990 | `ResumeAgrees`, `ResampleIsSame`, `EpochCovers`, `JournaledFirst`, `PaidOnce`, `CostAgrees`, `JournalsKept`, `RunEnds` |
| `merge` | 2 components, 3 texts, 2 examples, scores {0,1}, 3 reflections, merges scheduled until one is accepted, one restart, shared and separate loaders | 425 258 | `MergesJoinLines`, `NothingLost`, `BuiltOnce`, `JudgedAsAdded` |
| `state_fronts` | 2 examples, 1 objective, scores {0,1}, 3 programs, cartesian frontiers, outputs retained | 268 760 | `FrontExact`, `BestOutputsMatchFront` |
| `state_unscorable` | 2 examples, scores {-inf,0,1}, 3 programs, outputs retained | 270 837 | `DiscoveryOrdered`, `FrontOnlyImproves` |
| `filter` | every table of 4 programs, 3 keys, 2 scores, K in {0, 2} | 378 562 | `Cover`, `Irredundant`, `PickedInTopK` |
| `server_pool` | 2 callers with 2 calls each, 2 pool threads, 2 permits, budget 3, stages of 2, with and without grouped calls | 547 892 | `EveryPairCharged`, `OverrunBounded`, `PermitsConserved`, `LedgerKept`, `BestIsFirst`, `FilesMatchLog`, `CallsReturn` |
| `progress` | 3 threads, 4 calls, 2 candidates, 2 scores; threads and candidates symmetric | 3 861 745 | `BestOverTime`, `FilesResolve`, `AnswersCoverEntry`, `SummaryIsConsistent` |
| `adaptive` | 2 engines, budget 3 or none, every combination of plateau, patience, least evaluations, epsilon, cycling and switches | 1 909 167 | `BudgetLent`, `SeededByBest`, `Terminates` |

plus three runs that exhibit a disagreement (section 6). Type correctness is
not a run's property: it is part of the inductive invariants that are proved.

*Why these bounds are enough.* In `engine_loop` an iteration costs between 1 and
8 of a budget of 7, so the limit is met at, before and past every phase; a batch of
two makes "the second one fails" and "the first one was announced" distinct; one
death after the first save and one before it, and a resume with pool and budget
of any size, all occur; two validation calls and two of a merge's subsample per
minibatch call tell the kinds of cost apart. `MaxIterations` is 6 and never in
the way (5 and 20 give the same states): an iteration spends a call, but for a merge whose scores are all cached,
and that follows a discovery; `Terminates` would fail at the bound.

In `replay`, three examples and minibatches of two make an epoch of two
iterations with one padded place; the third iteration begins a second epoch. Three
tasks let a batch lose one answer, keep one before it and one after it; a third
iteration may be left with one task, whose path through the code is another, or
none. Three faults allow a batch with two bad answers and a failed retry, or a
failed batch, a failed retry and a death that gained nothing; a process that got
something into a journal may die as often as it likes. `MaxDraws` is the most that three iterations
draw. In `merge`, two components and two examples are the least for which two lines
improve different components and trade scores; a third text makes both parents
differ from the ancestor and from each other; the long texts make a mixture of
two admissible programs inadmissible.

In `state_fronts` a key is new, gained, tied and lost within three programs, two
examples let an evaluation be partial, and the mean of an objective differs from
both scores. `state_unscorable` has -inf as a score of a fresh example and of a
recorded one. Four programs and three keys give domination its smallest
non-trivial cycles (two programs covering each other, and a third covering both).

In `server_pool`, a budget below the number of pairs requested makes every caller
run into it, and two permits make check and record of two callers overlap. In
`progress`, three threads let one be overtaken by a second while a third writes a
file. In `adaptive` one evaluation may outlive its slice, which is enough for it
to be charged during any later step, also after the limit was put back; with
scores up to two apart and an epsilon of zero or one, results improve by less than,
exactly and more than epsilon.

*What is only model-checked.* Liveness: `Terminates` twice, `CallsReturn`, `RunEnds`.
Every other property of a passing run is also a theorem (section 5). What the
averages of `EvaluationTables`, folds over sets, compute for every table is not
proved; the theorems about `GEPAState` do not depend on it.

*What `ResumeAgrees` leaves open.* A resumed run is refused (its request differs
from the recorded one) for two reasons that lie in the order of the code and
that the property names: a merge attempt drew from the shared random stream
before the sampling, and the resume has no merge due because merge counters are
not checkpointed (`touched`); or a task was given up over an answer without content,
which uses up no ordinal and is in no journal (`skewed`). With a journaled language
model there is no third reason.

## 4 Fairness

*Engine* (`Terminates`): `WF_vars(Step)`. The loop is one thread that always has
a next statement, and adapter, language-model and callback calls are assumed to
return or raise; the code has timeouts for language-model calls but none for an
adapter. Nothing forces a stop request or a kill. `Step` includes `Start`: a
run that was killed is assumed to be restarted as long as `MaxDeaths` allows;
a process that dies for good also satisfies `Terminates`.

*Replayed run* (`RunEnds`): `WF_vars(Step)`, for the same reasons; `Step` includes
the restart after a death, and deaths are outside of it. Weak fairness of the steps
does not exclude deaths: a run may be killed without end, as long as its processes
live until one answer or result that they paid for has got to its journal. Only
finitely many (`MaxFaults`) die before, or meet provider errors: otherwise no code
could promise an end. Every circle of failures that remains is one in which each
process pays for something, and `RunEnds` says that there is none, because what is
paid for is found by the next. It is claimed for a model with a response journal
(without one, the same answers are bought again after each death), and fails when
a resume does not look into the journals.

*Server* (`CallsReturn`): `WF_vars` of each thread's own steps, no fairness for
making calls. Threads are scheduled by the operating system and the user's
evaluator returns or raises. Weak fairness of `Acquire` is enough although
`threading.Semaphore` promises no order: calls are finitely many
(`MaxCalls`), so a permit cannot be taken away from a waiter for ever.

*Adaptive scheduler* (`Terminates`): `WF_vars(Schedule)`. The scheduler is a plain
loop, and an engine returns in the end, since it has a limit of evaluations, time
or cost. No evaluation has to take place and none that outlives its slice has to
end. Only a limited budget is claimed to make it stop.

## 5 What is proved

All theorems are checked by TLAPS for every value of the constants admitted by
the modules' named assumptions (numbers are naturals, sets of threads are finite, sets
of flags are flags, -inf is below every other score; `GEPAState` assumes the
evaluations are partial maps from keys to scores; `ReplayedRun` assumes that a
shuffle permutes the training set, which is what `random.shuffle` does).

| theorem | says | invariant it rests on |
|---|---|---|
| `FrontsAreExact`, `OutputsFollowFront` | `FrontExact` and `KeysAgree`, `BestOutputsMatchFront`, for scores above -inf | `FrontInv`; `OutInv` |
| `FrontsOnlyImprove`, `DiscoveriesAreOrdered` | `FrontOnlyImproves`, `DiscoveryOrdered` (the latter for finitely many examples), -inf or not | `ImproveInv`; `DiscoveryInv` |
| `Typing`, `CoverHolds`, `IrredundantHolds` | the filter | `TypeOK`; `Cover`; `Settled` |
| `ParentIsInTopK` | `PickedInTopK` | `Ranked`, `Drawn` |
| `LossStaysBounded`, `StopIsHonored`, `EngineImplementsDurableRun` | `LossBounded`, `StopHonored`; the engine implements `DurableRun` | `EngineInv` |
| `OvershootStaysBounded` | `OvershootBounded` | `EngineInv`, `BudgetInv` |
| `MergesArePaidFor`, `MergesFollowDiscoveries` | `MergeCredit`, `MergeFollowsDiscovery` | `EngineInv`, `CreditInv`, `FollowInv` |
| `CallbacksAreTold` | `IterationsTell` | `EngineInv`, `TellInv` |
| `JournalsAreKept` (`AnswersAreKept`, `ResultsAreKept`) | both journals implement `WriteOnceTable` | `IInv` of `ReplayedRun_proofs` |
| `OutputsAreJournaled`, `ResumesSampleTheSame`, `CountersAgree` | `JournaledFirst`, `ResampleIsSame`, `CostAgrees` | `IInv`; `TurnInv`, `SampleInv`, `CostInv` |
| `ResumesAgree`, `AnswersArePaidOnce` | `ResumeAgrees`, `PaidOnce` | all of these, `AgreeInv`; `FedInv`, `PurchaseInv` |
| `EpochsShowEverything` | `EpochCovers` | `IInv`, `SampleInv`, `EpochInv` |
| `MixturesAreNew`, `MergesLoseNothing` | `BuiltOnce`, `NothingLost` | `Remembered`; `Pending` |
| `MergesEnterAsJudged` | `JudgedAsAdded` | `JudgeInv` |
| `LinesAreJoined` | `MergesJoinLines` | `DescentInv` |
| `PermitsNeverLeak`, `LogStaysOrdered`, `BestStaysFirst` | `PermitsConserved`, `LogOrdered` (not a run's property: `LedgerKept` implies it), `BestIsFirst` | `PermitsInv`, `LogInv`, `BestInv` |
| `FilesFollowLog` | `FilesMatchLog` | `FileInv` |
| `PairsAreCharged`, `OverrunStaysBounded` | `EveryPairCharged`, `OverrunBounded` | `PairsInv` (`Shaped`, `Staged`, `Books`); also `PermitsInv` |
| `ServerImplementsLedger` | `LedgerKept`: the server implements `EvalLedger` | `PairsInv`, `PermitsInv`, `LogInv` |
| `LogTellsBest`, `AnswersCover` | `BestOverTime`, `AnswersCoverEntry` | `PInv` |
| `FilesAlwaysResolve`, `SummaryIsTrue` | `FilesResolve`, `SummaryIsConsistent` | `FilesInv`; `SumInv` |
| `BudgetIsLent` (`OneHardBudget`, `ServerIsGivenBack`), `SlicesStartFromBest`, `BestImproves` | `BudgetLent`, `SeededByBest`, `BestOnlyImproves` | `BudgetInv`, `GivenBackInv`; `BestInv` |

*Frontiers.* `FrontExact` is not inductive: a new program is compared with
`best[k]`, so one must know that `best[k]` is the maximum over the pool exactly on
the recorded keys. `FrontInv` adds that the two tables have the same keys, that
no recorded frontier is empty, and that an example with a recorded score has
retained outputs, so that updates cannot be cut short. With -inf among the
scores the theorem is false (a -inf on an example not scored before enters one
of the two tables): the assumption `NegInf \notin Scores` is the one thing the
code should have asked for. The retained outputs (`OutInv`) need it too: each is
appended with the program that joins the frontier and was not on it. Two
facts survive -inf and the updates it cuts short: frontiers only improve, and the
discovery budgets are in order: each was the whole of `totalEvals` once, before the
program's own validation, so that with the cost of that it is still no more than the
budget of the next program (`DiscoveryInv`).

*Filter.* `Cover` is inductive by itself: a removed program leaves, on each of
its frontiers, one of the programs it was compared with. `Irredundant` follows
from `Settled` (the draw happens when nothing is removable). For `PickedInTopK`,
`Ranked` says that the filtered fronts hold programs of the top K only and that what
was drawn is of the top K or, on the fallback path, a program none scores better
than; that the fallback's `idxmax` is one needs `BestExists`, a minimal
counterexample over the prefixes of the pool.

*Engine.* `LossBounded` bounds the number of programs, so the invariant must
count what an iteration may still add: `ToAdd` is the whole batch before the
selection and the queue after it. Every step is shown to be one of
`Opens`, `Persists`, `Works`, `Closes`, `Hears` or `Die` (`StepCases`), and the invariant
and the refinement are proved over those. The refinement maps the abstract
`log` to the live pool (empty while no process runs) and `saved` to the pool on
disk; `Finish` and `Begin` are `Save`, an addition is `Grow`, a death `Lose`.

*Overrun.* `OvershootBounded` speaks of the end of an iteration; `BudgetInv` says
of every point within it that what is spent and what is still allowed (`Left`, by
phase and queue) stay within the cost of one iteration over the calls on disk, which
were below the limit when the iteration began.

*Merge credit.* The counters of a `MergeProposer` begin at zero with each process,
and so does `discovered`: what an earlier process found, or a merge added, pays for
nothing. `discovered` gains the program reflection has just added, so its size grows by one
whenever `merges_due` may; `CreditInv` carries the inequality with the types of the
counters. Merges that are refused cost no credit, so for them `MergeCredit` counts
attempts against the iterations with a discovery. `FollowInv` says that the flag of a
discovery is up exactly when the last iteration that ran is one of those (`LastTurn`), and that
there is one more of them than attempts while a merge may still be judged (`Owed`). The merge
phase has spent nothing, so that any exception in it ends the process and the flag
with it.

*Callbacks.* `TellInv` says that until an iteration ends all its programs are
announced, and that a program carries the iteration it was added in; an exception
between an addition and its announcement ends the iteration, so at most its last
program stays unannounced.

*Journals.* A store overwrites nothing because what waits to be stored was looked
up and missing, and nothing else stores meanwhile: `Free` says that the slots of
pending answers are free and distinct. Since the slot depends on the iteration
and the cursor, `Placed` keeps both in range while anything is pending.

*Replay.* `TurnInv` follows an output from the answer to the children: its slot is
in the journal before the next call is made. `SampleInv` says that an iteration
sampled before and not saved would be sampled alike from the checkpoint, unless
it drew from the random stream for a merge. `CostInv` counts the answers in the
journal against the cost counter, with what a batch has been charged and not yet
stored. `AgreeInv` puts these together for an undisturbed iteration: recorded
parents, answers and children are those of its sampled tasks (`RecordsAgree`), the
tasks and texts at hand are the recorded ones (`TasksAgree`, `CursorAgrees`), and so
no request is refused. `PaidOnce` has three parts. `PurchaseInv` says that what was last
bought for a slot is what its journal holds or is about to hold, and the same of
stages and runs: an answer is bought only for a slot that holds none, so a purchase never
leaves the journal behind. That no request has more answers than tasks follows because
every answer of the iteration has the slot of one of its tasks, and slots are
written once.

*Merges.* `BuiltOnce` follows from what a process built being part of what it
remembers; a restart clears both. `NothingLost` follows from the four-way choice
of a component's source, for the parents and the ancestor of the pending proposal.
`JudgeInv` keeps the scores that the pending merge was judged by in the cache, where
the validation finds them: nothing is cached between the two. `MergesJoinLines`
speaks of descent by any line, the code of recursively collected ancestors: since
parents are older than their children, the recursion has a solution and what it
collects is closed under parents, by minimal counterexamples over the pool.
`DescentInv` says that parents are older and that two parents, recorded or
proposed, are apart: a closed set has the parents of the one and not the other
(`Clear`), which a program added later cannot change.

*Epochs.* `EpochCovers` looks back at iterations of which the sampler remembers
nothing but a permutation. `EpochInv` says that the checkpointed sampler is that of
its iteration's epoch (`Fits`), that the iterations since the epoch began, if all
sampled undisturbed, got chunks of the permutation in it (`Follows`), and that past
epochs had one permutation each (`OfOneShuffle`); the chunks of an epoch cover the
padded permutation, which has the training set and nothing else in it. A resume samples again, perhaps from
another permutation: `SampleInv` is what makes the two agree.

*Server.* Every step is the `Effect` of one thread: it moves that thread, and
charges or tracks at most once. For permits, the number of holders changes by
what the permits change. For the log, `Len(log)` plus the threads that have
charged and not yet tracked is at most `used`: that is why a stamp read outside
the budget's lock is still at least its index and never below an earlier one.
For the pairs, `PairsInv` equates, while the budget lasts, what was handed out with
what was charged plus the sum over all threads of what each has in flight; a step
moves one thread, so the sum changes by that thread's part (`SumMoves`). `Staged`
accounts for a stage's examples, submitted, taken or done, which bounds what is in
flight for one client with grouped calls by its stage (`SumByOwner`); without them
a pair in flight holds a permit. Once the budget is used up nothing more is handed
out, which gives `OverrunBounded`, and with `LogInv` every step is one of `EvalLedger`
or a stutter.
For the record files, every entry has its file or a thread that holds its index
and is about to write it, and no other thread holds that index.

*Progress log.* The best score is that of the last entry, and `Enter` changes both
under the lock; an answer is read after its entry and the best score only rises.
For the files, every id and entry is in its file or with exactly one thread
that is about to write it. For `summary.json`, a snapshot holds the best score of a
prefix of the log, and a prefix never changes; `SumInv` bounds `Len(evalLog)` by the
charges of the threads that are past `Track`, which needs the number of threads
between `Charge` and `Track`.

*Adaptive scheduler.* `BudgetInv` keeps the limit in force at or below the one
that was given, whatever was charged since `remaining` was read. `BestInv` relates the
seed, the best result and the highest score reported so far at each place of the loop.

Out of the prover's reach and left to TLC: liveness under fairness and `ENABLED`.
The library's induction theorems cannot be used with these provers; where an
argument goes by induction on a number or a finite set (the server's sums, the
ancestors, the best program) it is by a minimal counterexample (`WFMin`). What the
averages of `EvaluationTables` compute is not proved.

## 6 Findings

Each is a run TLC refutes; `PROJECT.json` quotes the sentence it contradicts.

1. `server_zeroed`: a failed grouped call is charged per pair, so its fallback
   can find no budget and the stage scores 0.0 without an error, which a comment
   says must not happen.
2. `replay_bricked`: `run_dir` is documented to resume. With a language model
   without a response journal, a death after the evaluation of the children was
   recorded leaves a record that the resumed iteration cannot match, and every
   later resume fails in the same place.
3. `merge_zero`: adapters are asked to score failures 0.0 and not to raise; when
   every common ancestor of a pair has an average of 0.0, the weighted draw raises
   and ends the run, `raise_on_exception` or not.

Other disagreements met while modelling, which no run states:

* `max_merge_invocations` is documented as the maximum of merge attempts; only
  accepted merges are counted, and a restart starts the count afresh.
* A candidate whose evaluation lacks objective scores is appended before
  `ValueError` is raised, and stays in the pool without an acceptance event;
  `IterationsTell` says how far this goes.
* A score of -inf on an example not scored before enters one of two tables that
  `is_consistent` asserts to have equal keys.
* The comment that the failure's own `record` cannot raise is wrong with more
  than one permit: the caller gets `BudgetExhausted` in place of its evaluator's
  exception.
* When valset and trainset are one loader, re-evaluating a parent on a minibatch
  overwrites its cached validation scores, while the pool keeps the old ones.
* In the adaptive scheduler with a single engine, one slice that charges nothing
  ends the run, since idle slices are compared with the number of engines.
* `summary.json` may be that of a slow writer and older than the one it replaced.

## 7 Plan and what is not modelled

Done, in this order: the engine with its durable log, the state, the filter, the
server; then the replayed run with its journals and sampler, the merge proposer
with the evaluation cache, the adaptive scheduler, the progress log; and the
proofs of each. Left, most important first:

1. Towards liveness: a measure on the states of `EvalServer` and of `GEPAEngine`
   that every step of a thread lowers, as an action property and its theorem, so
   that only the fairness of the scheduler is left to TLC.
2. What the averages of `EvaluationTables` compute, as a theorem about sums.
3. The parallel and feed-forward ensembles, whose parts have servers of their own.
4. Writes that fail after the budget was charged: record files (the code passes
   over them) and `summary.json` (the code raises).

Where a module that models its part leaves something out:

* `GEPAState`: outputs that are `None`, which `core/state.py` does not retain (the
  checks at 1069 and 1079); every output of the model is one.
* `MergeProposer`: what the parents and the refused children of a reflection without
  a child scored on their minibatches is put in the cache by the code
  (`reflective_mutation.py`, 554 and 865), and not by `ReflectInVain`.
* `EvalServer`: `Track` never fails; the code raises, after the charge, for a
  reported cost that is no number and for a summary that cannot be written. Record
  files are always written, where the code ignores that they are not.
* `ProgressLog`: the snapshot reads `budget.used` and `budget.status()` at once, the
  code one after the other; `SummaryIsConsistent` says that a summary is true of
  one moment, not that a newer one stays.
* `ReplayedRun`: `Record` leaves out the store's own collision check, which is not
  reached, since a slot is looked up before a call is made for it.
* `GEPAEngine`: that no iteration begins after a stop was requested is the
  theorem `StopIsHonored`, and no run's property; `Terminates` and `LossBounded`
  do not say it.

Not modelled, and not planned: prompt construction and parsing, the JEV
controller, interventions and the action space (numeric policies and text);
generation recovery (retries around the calls that `ReplayedRun` models, planned
by the application); providers and the retries inside their library; the
sandbox, agent proposers and adapters (external processes and I/O); HTTP routing
of the server; trackers, logging, visualization, launchers and argument
checking; the result, a view of the final state; migrations of old checkpoints; a
training set that grows during a run; `gskill` and the examples, which are
applications. The engines of `optimize_anything` are callers of the server: the
clients of `EvalServer` stand for any of them. Of the stop conditions, those on
time, files, scores and lack of improvement: they can only stop the loop earlier,
as `RequestStop` does at any moment.
