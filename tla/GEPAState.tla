------------------------------ MODULE GEPAState ------------------------------
(***************************************************************************)
(* The candidate pool and the Pareto frontiers of core/state.py.           *)
(*                                                                         *)
(* Every frontier the code keeps (per validation example, per objective,   *)
(* per pair of both) is updated by the same rule, so the model keeps one   *)
(* table indexed by frontier KEYS:                                         *)
(*   <<"val", v>>          pareto_front_valset[v]                          *)
(*   <<"objective", o>>    objective_pareto_front[o]                       *)
(*   <<"cartesian", v, o>> pareto_front_cartesian[(v, o)]                  *)
(* Program indices count from 1 (the seed), the code's from 0. A retained  *)
(* output is identified by its program. Every evaluation is taken to come  *)
(* with an output: an output of None, which the code never retains, is     *)
(* outside the model.                                                      *)
(***************************************************************************)
EXTENDS Integers, Sequences, FiniteSets

CONSTANTS
    Keys,            \* the frontier keys, tuples as above
    Scores,          \* the scores an evaluator may return
    NegInf,          \* float("-inf"), the default of dict.get(key, -inf)
    Evaluations,     \* the valset evaluations possible: partial maps Keys -> Scores
    FrontierType,    \* "instance", "objective", "hybrid" or "cartesian"
    TrackOutputs,    \* track_best_outputs
    MaxPrograms,     \* bound: programs in the pool
    MaxEvals         \* bound: metric calls counted

Kind(k) == k[1]

ASSUME ScoresAssumption ==
    /\ NegInf \in Int
    /\ Scores \subseteq Int
    /\ \A s \in Scores : NegInf <= s

ASSUME EvaluationsAssumption ==
    \A e \in Evaluations : DOMAIN e \subseteq Keys /\ \A k \in DOMAIN e : e[k] \in Scores

ASSUME BoundsAssumption ==
    MaxPrograms \in Nat \ {0} /\ MaxEvals \in Nat /\ TrackOutputs \in BOOLEAN

VARIABLES
    pool,            \* Seq of [eval, discovery, cost]: the per-candidate lists but
                     \* ancestry; cost, the calls its validation took, is history
    best,            \* key -> best score seen      (pareto_front_*)
    front,           \* key -> programs scoring it  (program_at_pareto_front_*)
    bestOutputs,     \* key -> programs whose output is retained (best_outputs_valset)
    totalEvals,      \* total_num_evals
    fullEvals,       \* num_full_ds_evals
    raised           \* the last update left by an exception

vars == <<pool, best, front, bestOutputs, totalEvals, fullEvals, raised>>

-----------------------------------------------------------------------------
(* One evaluation, as the frontiers see it.                                *)

ValKeys(e) == {k \in DOMAIN e : Kind(k) = "val"}

HasObjectives(e) == \E k \in DOMAIN e : Kind(k) = "cartesian"

\* The cartesian table is filled only for its own frontier type.
FrontKeys(e) ==
    {k \in DOMAIN e : Kind(k) = "cartesian" => FrontierType = "cartesian"}

MissingObjectives(e) == FrontierType # "instance" /\ ~HasObjectives(e)

PrevMutant(k) == NegInf
Prev(k) == IF k \in DOMAIN best THEN best[k] ELSE NegInf

\* score > prev_score replaces the entry, score == prev_score joins it; an
\* unseen key compares with -inf.
Gains(e, ks) == {k \in ks : e[k] > Prev(k)}
TiesMutant(e, ks) == {}
Ties(e, ks) == {k \in ks : e[k] = Prev(k)}

\* Program idx meets the frontiers of the keys ks.
UpdateFronts(e, idx, ks) ==
    /\ best' = [k \in DOMAIN best \union Gains(e, ks) |->
                    IF k \in Gains(e, ks) THEN e[k] ELSE best[k]]
    /\ front' = [k \in DOMAIN front \union Gains(e, ks) \union Ties(e, ks) |->
                    IF k \in Gains(e, ks) THEN {idx}
                    ELSE (IF k \in DOMAIN front THEN front[k] ELSE {})
                         \union (IF k \in Ties(e, ks) THEN {idx} ELSE {})]

\* best_outputs_valset follows the per-example frontier.
UpdateBestOutputsMutant(e, idx, ks) ==
    bestOutputs' = [k \in DOMAIN bestOutputs \union Gains(e, ks) |->
            IF k \in Gains(e, ks) \union Ties(e, ks) /\ k \in DOMAIN bestOutputs
            THEN Append(bestOutputs[k], idx)
            ELSE IF k \in DOMAIN bestOutputs THEN bestOutputs[k] ELSE <<idx>>]
UpdateBestOutputs(e, idx, ks) ==
    bestOutputs' = [k \in DOMAIN bestOutputs \union Gains(e, ks) |->
            IF k \in Gains(e, ks) THEN <<idx>>
            ELSE IF k \in Ties(e, ks) THEN Append(bestOutputs[k], idx)
            ELSE bestOutputs[k]]

\* A tie with -inf on an example without retained outputs: the program joins
\* the frontier and best_outputs_valset[val_id] is a KeyError.
OutputFaults(e) ==
    {k \in Ties(e, ValKeys(e)) : TrackOutputs /\ k \notin DOMAIN bestOutputs}

-----------------------------------------------------------------------------

\* GEPAState.__init__ on the seed's evaluation; a frontier that needs
\* objective scores refuses a seed without them.
Init ==
    \E e \in Evaluations :
        /\ ~MissingObjectives(e)
        /\ pool = <<[eval |-> e, discovery |-> 0, cost |-> Cardinality(ValKeys(e))]>>
        /\ best = [k \in FrontKeys(e) |-> e[k]]
        /\ front = [k \in FrontKeys(e) |-> {1}]
        /\ bestOutputs = [k \in {v \in ValKeys(e) : TrackOutputs} |-> <<1>>]
        /\ totalEvals = Cardinality(ValKeys(e))
        /\ fullEvals = 1
        /\ raised = FALSE

\* increment_evals from a minibatch, which adds no program.
IncrementEvals(n) ==
    /\ totalEvals + n <= MaxEvals
    /\ totalEvals' = totalEvals + n
    /\ raised' = FALSE
    /\ UNCHANGED <<pool, best, front, bestOutputs, fullEvals>>

\* _add_evaluated_program up to the frontiers: the discovery budget is read
\* before the evaluation is counted; only the n uncached examples cost.
DiscoveryMutant(n) == totalEvals + n
Discovery(n) == totalEvals

Enlist(e, n) ==
    /\ Len(pool) < MaxPrograms
    /\ totalEvals + n <= MaxEvals
    /\ totalEvals' = totalEvals + n
    /\ fullEvals' = fullEvals + 1
    /\ pool' = Append(pool, [eval |-> e, discovery |-> Discovery(n), cost |-> n])

\* update_state_with_new_program; the missing-objectives error comes after the
\* pool and the per-example frontier have changed.
AddProgram(e, n) ==
    /\ OutputFaults(e) = {}
    /\ Enlist(e, n)
    /\ UpdateFronts(e, Len(pool) + 1, FrontKeys(e))
    /\ UpdateBestOutputs(e, Len(pool) + 1, {k \in ValKeys(e) : TrackOutputs})
    /\ raised' = MissingObjectives(e)

\* The same cut short at an output fault, after the examples in done.
AddProgramFaults(e, n, done, fault) ==
    /\ fault \in OutputFaults(e)
    /\ Enlist(e, n)
    /\ UpdateFronts(e, Len(pool) + 1, done \union {fault})
    /\ UpdateBestOutputs(e, Len(pool) + 1, done)
    /\ raised' = TRUE

Next ==
    \/ \E n \in 1..MaxEvals : IncrementEvals(n)
    \/ \E e \in Evaluations : \E n \in 0..Cardinality(ValKeys(e)) :
            \/ AddProgram(e, n)
            \/ \E fault \in OutputFaults(e) : \E done \in SUBSET (ValKeys(e) \ OutputFaults(e)) :
                    AddProgramFaults(e, n, done, fault)

Spec == Init /\ [][Next]_vars

-----------------------------------------------------------------------------
(* Properties.                                                             *)

\* Programs evaluated on k, and the score each got.
EvaluatedOn(k) == {i \in DOMAIN pool : k \in FrontKeys(pool[i].eval)}
ScoreOn(i, k) == pool[i].eval[k]
Argmax(k) == {i \in EvaluatedOn(k) : \A j \in EvaluatedOn(k) : ScoreOn(j, k) <= ScoreOn(i, k)}

\* The incremental table is the frontier of the whole pool: a key is present
\* exactly when some program was evaluated on it, its programs are exactly the
\* argmax over the pool, ties included, and its score is theirs -- whatever
\* subsets of the examples the evaluation policy chose (state.py:1056-1095).
FrontExact ==
    /\ DOMAIN front = {k \in Keys : EvaluatedOn(k) # {}}
    /\ \A k \in DOMAIN front : front[k] = Argmax(k) /\ \A i \in front[k] : best[k] = ScoreOn(i, k)

\* The assertion of is_consistent (state.py:401-403): scores and programs are
\* recorded for the same keys.
KeysAgree == DOMAIN best = DOMAIN front

\* Every program on a per-example frontier has exactly its own output retained
\* there, and nobody else's is (best_outputs_valset, state.py:1069-1080).
BestOutputsMatchFront ==
    /\ DOMAIN bestOutputs = {k \in DOMAIN front : Kind(k) = "val" /\ TrackOutputs}
    /\ \A k \in DOMAIN bestOutputs :
        /\ front[k] = {bestOutputs[k][n] : n \in DOMAIN bestOutputs[k]}
        /\ Len(bestOutputs[k]) = Cardinality(front[k])

\* The discovery budget of a program leaves out its own validation, which the
\* total has on top of it, and counts the validation of every program before
\* it, whatever the cache saved of each (num_metric_calls_by_discovery,
\* engine.py:619-620).
DiscoveryOrdered ==
    /\ \A i \in DOMAIN pool : pool[i].discovery + pool[i].cost <= totalEvals
    /\ \A i, j \in DOMAIN pool : i < j => pool[i].discovery + pool[i].cost <= pool[j].discovery

\* A displaced program never comes back: the only program a step can add to a
\* frontier is the one just appended, and no frontier score ever drops.
FrontOnlyImproves ==
    [][ /\ DOMAIN front \subseteq DOMAIN front'
        /\ \A k \in DOMAIN best : best'[k] >= best[k]
        /\ \A k \in DOMAIN front : front'[k] \ front[k] \subseteq {Len(pool')} \ DOMAIN pool ]_vars

=============================================================================
