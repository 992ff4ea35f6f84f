----------------------------- MODULE GEPAEngine -----------------------------
(***************************************************************************)
(* The optimization loop of core/engine.py: checkpoint, merge, reflective  *)
(* batch, per-iteration exception handling, stop, death and resume of the  *)
(* process. One action per stretch of the loop between two points at which *)
(* an exception can leave it.                                              *)
(*                                                                         *)
(* The optimizer state is a record: i counts begun iterations (the code's  *)
(* state.i + 1), pool gives the iteration that added each program, evals is *)
(* total_num_evals. Scores are abstracted to the verdicts drawn from them; *)
(* GEPAState has the frontiers. The history variables announced,           *)
(* discovered and attempts guard nothing.                                  *)
(***************************************************************************)
EXTENDS Integers, Sequences, FiniteSets

CONSTANTS
    MaxMetricCalls,      \* MaxMetricCallsStopper
    MaxMerge,            \* max_merge_invocations
    UseMerge,            \* merge_proposer.use_merge
    RaiseOnException,    \* raise_on_exception
    BatchSize,           \* most tasks a sampling strategy returns
    MiniCost,            \* metric calls of one minibatch
    SubsampleCost,       \* metric calls of a merge's subsample (5 in the code)
    ValCost,             \* metric calls of one uncached valset pass
    AddFaults,           \* points _add_evaluated_program may raise at
    EvalFaults,          \* BOOLEAN: evaluations and proposals may raise
    MaxDeaths,           \* bound: process deaths followed by a restart
    MaxIterations,       \* bound: iterations begun; Terminates shows it is never met
    StopRequests         \* BOOLEAN: request_stop may be called

ASSUME EngineAssumption ==
    /\ MaxMetricCalls \in Nat /\ MaxMerge \in Nat /\ MaxDeaths \in Nat /\ MaxIterations \in Nat
    /\ MiniCost \in Nat \ {0} /\ SubsampleCost \in Nat \ {0} /\ ValCost \in Nat \ {0} /\ BatchSize \in Nat \ {0}
    /\ {UseMerge, RaiseOnException, EvalFaults, StopRequests} \subseteq BOOLEAN
    /\ AddFaults \subseteq {"counted", "appended"}

VARIABLES
    pc,          \* where the loop is; "off" between processes
    st,          \* the live GEPAState
    disk,        \* gepa_state.bin
    mp,          \* MergeProposer: merges due, tested, last_iter_found_new_program
    queue,       \* selected proposals not yet added this iteration
    before,      \* evals_before_iteration
    accepted,    \* the local proposal_accepted
    stopReq,     \* _stop_requested
    announced,   \* programs announced by on_candidate_accepted (or loaded)
    discovered,  \* programs that reflection added in this process
    attempts,    \* merges proposed and judged by this process
    deaths       \* processes that died

vars == <<pc, st, disk, mp, queue, before, accepted, stopReq, announced, discovered, attempts, deaths>>

NoState == [i |-> 0, pool |-> <<>>, evals |-> 0]

\* A MergeProposer as its constructor leaves it: none of it is checkpointed.
FreshMerge == [due |-> 0, tested |-> 0, found |-> FALSE]

SeedState == [i |-> 0, pool |-> <<0>>, evals |-> ValCost]

Spend(n) == [st EXCEPT !.evals = @ + n]

-----------------------------------------------------------------------------

Init ==
    /\ pc = "off" /\ st = NoState /\ disk = NoState /\ mp = FreshMerge
    /\ queue = 0 /\ before = 0 /\ accepted = FALSE /\ stopReq = FALSE
    /\ announced = {} /\ discovered = {} /\ attempts = 0 /\ deaths = 0

\* run() up to the loop: a fresh run evaluates the seed, a run directory with a
\* saved state is resumed without evaluating anything.
LoadedMutant == SeedState
Loaded == IF disk = NoState THEN SeedState ELSE disk

Start ==
    /\ pc = "off" /\ deaths <= MaxDeaths
    /\ st' = Loaded
    /\ announced' = DOMAIN st'.pool
    /\ mp' = FreshMerge
    /\ pc' = "head"
    /\ UNCHANGED <<disk, queue, before, accepted, stopReq, discovered, attempts, deaths>>

ShouldStopMutantLate == stopReq \/ st.evals > MaxMetricCalls
ShouldStop == stopReq \/ st.evals >= MaxMetricCalls

\* sync the proposers into the state, then GEPAState.save.
SaveMutant == disk' = IF Len(st.pool) > Len(disk.pool) THEN st ELSE disk
Save == disk' = st

\* The closing save and on_optimization_end.
Finish ==
    /\ pc = "head" /\ ShouldStop
    /\ Save
    /\ pc' = "done"
    /\ UNCHANGED <<st, mp, queue, before, accepted, stopReq, announced, discovered, attempts, deaths>>

\* Top of an iteration: save, then count the iteration.
Begin ==
    /\ pc = "head" /\ ~ShouldStop /\ st.i < MaxIterations
    /\ Save
    /\ st' = [st EXCEPT !.i = @ + 1]
    /\ before' = st.evals
    /\ accepted' = FALSE
    /\ pc' = "merge"
    /\ UNCHANGED <<mp, queue, stopReq, announced, discovered, attempts, deaths>>

MergeScheduled == UseMerge /\ mp.due > 0 /\ mp.found

\* The flag lives for one iteration, whatever became of the merge.
ClearFoundMutant == mp
ClearFound == IF UseMerge THEN [mp EXCEPT !.found = FALSE] ELSE mp

\* No merge this iteration: not scheduled, or propose found no pair.
SkipMerge ==
    /\ pc = "merge"
    /\ mp' = ClearFound
    /\ pc' = "reflect"
    /\ UNCHANGED <<st, disk, queue, before, accepted, stopReq, announced, discovered, attempts, deaths>>

\* A merge was proposed and scored on its subsample (n calls missed the cache);
\* reflection is skipped whatever the verdict.
ProposeMerge(n, verdict) ==
    /\ pc = "merge" /\ MergeScheduled
    /\ st' = Spend(n)
    /\ mp' = ClearFound
    /\ attempts' = attempts + 1
    /\ pc' = IF verdict THEN "mergeAdd" ELSE "end"
    /\ UNCHANGED <<disk, queue, before, accepted, stopReq, announced, discovered, deaths>>

\* What _add_evaluated_program leaves behind when it raises after counting the
\* evaluation, or after appending to the pool (then its trace stamps, which no
\* step reads, may or may not be there).
AddUpTo(n, stage) ==
    [st EXCEPT !.evals = @ + n,
               !.pool  = IF stage = "counted" THEN @ ELSE Append(@, st.i)]

AnnounceMutant == announced' = IF queue > 1 THEN announced ELSE announced \union {Len(st.pool) + 1}
Announce == announced' = announced \union {Len(st.pool) + 1}

ConsumeMergeMutant == [mp EXCEPT !.tested = @ + 1]
ConsumeMerge == [mp EXCEPT !.due = @ - 1, !.tested = @ + 1]

\* The accepted merge is validated and added, then its bookkeeping follows.
AddMerge(n) ==
    /\ pc = "mergeAdd"
    /\ st' = AddUpTo(n, "done")
    /\ mp' = ConsumeMerge
    /\ accepted' = TRUE
    /\ Announce
    /\ pc' = "end"
    /\ UNCHANGED <<disk, queue, before, stopReq, discovered, attempts, deaths>>

\* Parents are evaluated on their minibatches.
EvaluateParents(k) ==
    /\ pc = "reflect"
    /\ st' = Spend(k * MiniCost)
    /\ pc' = "propose"
    /\ UNCHANGED <<disk, mp, queue, before, accepted, stopReq, announced, discovered, attempts, deaths>>

\* Every reflection came back empty: the iteration ends without a proposal.
ProposeNothing ==
    /\ pc = "propose"
    /\ pc' = "end"
    /\ UNCHANGED <<st, disk, mp, queue, before, accepted, stopReq, announced, discovered, attempts, deaths>>

\* k children are scored on their minibatches and the selection keeps sel.
EvaluateChildren(k, sel) ==
    /\ pc = "propose"
    /\ st' = Spend(k * MiniCost)
    /\ queue' = sel
    /\ pc' = IF sel = 0 THEN "end" ELSE "val"
    /\ UNCHANGED <<disk, mp, before, accepted, stopReq, announced, discovered, attempts, deaths>>

\* One batched valset call for all selected candidates; nothing is counted yet.
EvaluateOnValset ==
    /\ pc = "val"
    /\ pc' = "add"
    /\ UNCHANGED <<st, disk, mp, queue, before, accepted, stopReq, announced, discovered, attempts, deaths>>

ScheduleMerge ==
    [mp EXCEPT !.found = TRUE,
               !.due = IF mp.tested < MaxMerge THEN @ + 1 ELSE @]

\* One selected candidate joins the pool, is announced, and schedules a merge;
\* proposal_accepted is assigned when the last one is in.
AddSelected(n) ==
    /\ pc = "add" /\ queue > 0
    /\ st' = AddUpTo(n, "done")
    /\ Announce
    /\ discovered' = discovered \union {Len(st.pool) + 1}
    /\ mp' = ScheduleMerge
    /\ queue' = queue - 1
    /\ accepted' = (queue = 1)
    /\ pc' = IF queue = 1 THEN "end" ELSE "add"
    /\ UNCHANGED <<disk, before, stopReq, attempts, deaths>>

\* Nothing of a dead process survives but gepa_state.bin, which save replaces
\* atomically.
Die ==
    /\ pc' = "off" /\ st' = NoState /\ mp' = FreshMerge
    /\ queue' = 0 /\ before' = 0 /\ accepted' = FALSE /\ stopReq' = FALSE
    /\ announced' = {} /\ discovered' = {} /\ attempts' = 0
    /\ deaths' = deaths + 1
    /\ UNCHANGED disk

WillContinueMutant(s, fatal) == ~RaiseOnException /\ ~fatal
WillContinue(s, fatal) == ~RaiseOnException /\ ~fatal /\ s.evals > before

\* The except clause in state s: end the iteration, or let the process die. A
\* fatal exception is a ResponseJournalError.
Catch(s, fatal) ==
    \/ /\ WillContinue(s, fatal)
       /\ st' = s
       /\ queue' = 0
       /\ pc' = "end"
       /\ UNCHANGED <<disk, mp, before, accepted, stopReq, announced, discovered, attempts, deaths>>
    \/ ~WillContinue(s, fatal) /\ Die

\* An evaluation, a reflection or a merge proposal raises; n evaluations had
\* been counted since the last action.
FailEvaluation(n, fatal) ==
    /\ EvalFaults
    /\ \/ pc \in {"reflect", "mergeAdd", "val"} /\ n = 0
       \/ pc = "merge" /\ MergeScheduled /\ n = 0
       \/ pc = "propose"
    /\ Catch(Spend(n), fatal)

\* Adding a validated candidate raises part way.
FailAdd(n, stage) ==
    /\ pc \in {"mergeAdd", "add"}
    /\ Catch(AddUpTo(n, stage), FALSE)

\* The finally clause: on_iteration_end reports proposal_accepted.
End ==
    /\ pc = "end"
    /\ accepted' = FALSE
    /\ pc' = "head"
    /\ UNCHANGED <<st, disk, mp, queue, before, stopReq, announced, discovered, attempts, deaths>>

RequestStop ==
    /\ StopRequests /\ ~stopReq
    /\ pc \notin {"off", "done"}
    /\ stopReq' = TRUE
    /\ UNCHANGED <<pc, st, disk, mp, queue, before, accepted, announced, discovered, attempts, deaths>>

\* The process is killed.
Crash ==
    /\ pc \notin {"off", "done"} /\ deaths < MaxDeaths
    /\ Die

Step ==
    \/ Start \/ Finish \/ Begin \/ SkipMerge
    \/ \E n \in 0..SubsampleCost, verdict \in BOOLEAN : ProposeMerge(n, verdict)
    \/ \E n \in 0..ValCost : AddMerge(n)
    \/ \E k \in 1..BatchSize : EvaluateParents(k)
    \/ ProposeNothing
    \/ \E k \in 1..BatchSize : \E sel \in 0..k : EvaluateChildren(k, sel)
    \/ EvaluateOnValset
    \/ \E n \in 0..ValCost : AddSelected(n)
    \/ \E k \in 0..BatchSize, fatal \in BOOLEAN : FailEvaluation(k * MiniCost, fatal)
    \/ \E n \in 0..ValCost, stage \in AddFaults : FailAdd(n, stage)
    \/ End

Next == Step \/ RequestStop \/ Crash

\* The loop runs in one thread that is never suspended for good; adapter and
\* LM calls are assumed to return or raise. Nobody is obliged to stop or kill.
Spec == Init /\ [][Next]_vars /\ WF_vars(Step)

-----------------------------------------------------------------------------
(* Properties.                                                             *)

Phases == {"off", "head", "merge", "mergeAdd", "reflect", "propose", "val",
           "add", "end", "done"}

\* The most one iteration can spend: a merge with its validation, or a full
\* reflective batch with every child validated.
MergeCost == SubsampleCost + ValCost
BatchCost == BatchSize * MiniCost + BatchSize * MiniCost + BatchSize * ValCost
IterationCost == IF MergeCost > BatchCost THEN MergeCost ELSE BatchCost

\* max_metric_calls is looked at between iterations only, and yet is never
\* overrun by more than one iteration (or by the seed's evaluation), however
\* the iterations fail, die and resume (engine.py:1212, stop_condition.py).
OvershootBounded ==
    st.evals <= ValCost \/ st.evals < MaxMetricCalls + IterationCost

\* A death costs at most the iteration under way: everything older is durable,
\* programs and budget alike (engine.py:1223-1232).
LossBounded ==
    pc \notin {"off", "done"} /\ st.i > 0 =>
        /\ st.i <= disk.i + 1
        /\ Len(st.pool) <= Len(disk.pool) + BatchSize
        /\ disk.evals <= st.evals

\* The iterations of this process in which reflection found a program.
DiscoveryIterations == {st.pool[k] : k \in discovered}

\* A merge accepted or still due is paid for by a program that reflection
\* added in this process: the counters restart with a MergeProposer, so what
\* an earlier process found, or a merge added, pays nothing. Merges judged,
\* refused ones included, are at most the iterations with a discovery
\* (merge_proposer.merges_due, total_merges_tested, engine.py:1257-1351).
MergeCredit ==
    pc # "off" =>
        /\ mp.due + mp.tested <= Cardinality(discovered)
        /\ attempts <= Cardinality(DiscoveryIterations)

\* A process judges a merge only in an iteration that directly follows one in
\* which reflection added a program: no merge follows a merge, however the
\* iterations between them failed (merge_proposer.last_iter_found_new_program).
MergeFollowsDiscovery ==
    [][ attempts' = attempts + 1 => st.i - 1 \in DiscoveryIterations ]_vars

\* Once a stop is requested no further iteration begins (request_stop).
StopHonored == [][ stopReq => st'.i <= st.i ]_vars

\* An iteration that raised is only survived if it spent metric calls, so the
\* loop cannot spin on a failure for ever: every run stops or dies for good.
Terminates == <>(pc = "done" \/ deaths > MaxDeaths)

\* The pool across deaths and resumes is the durable log of DurableRun.
Durable == INSTANCE DurableRun WITH
    Entries <- Nat,
    log     <- IF pc = "off" THEN <<>> ELSE st.pool,
    saved   <- disk.pool
PoolIsDurable == Durable!Spec

\* on_candidate_accepted tells of every program but the last of an iteration
\* whose adding raised, and on_iteration_end reports an acceptance only when
\* it told of one: a callback can rebuild the pool up to that one program.
IterationsTell ==
    /\ \A k \in DOMAIN st.pool \ announced : \A l \in DOMAIN st.pool :
            st.pool[l] = st.pool[k] => l <= k
    /\ pc = "end" /\ accepted => \E k \in announced : k > 1 /\ st.pool[k] = st.i

=============================================================================
