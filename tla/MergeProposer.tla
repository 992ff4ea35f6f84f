---------------------------- MODULE MergeProposer ----------------------------
(***************************************************************************)
(* proposer/merge.py with the loop of core/engine.py around it: two         *)
(* programs of the Pareto frontier are mixed relative to a common ancestor, *)
(* judged on a subsample of the examples both were scored on, and added.    *)
(* The evaluation cache (core/state.py) is on.  Evaluators may give another *)
(* score each time they run; programs are the texts of their components.    *)
(*                                                                         *)
(* Which programs survive the domination filter is DominationFilter's       *)
(* business: here they are any set with the properties shown there (Cover   *)
(* and Irredundant).  What a draw of the random generator picks is a choice.*)
(***************************************************************************)
EXTENDS Integers, Sequences, FiniteSets, FiniteSetsExt, Functions

CONSTANTS Preds,          \* component names
          Texts,          \* component texts
          SeedText,       \* that of the seed's components
          Vals,           \* validation examples
          Scores,         \* scores an evaluation may give
          Supports,       \* examples an evaluation policy may choose
          Oversized,      \* programs that the text limits refuse
          SubsampleSize,  \* examples a merge is judged on, 5 in the code
          OverlapFloor,   \* merge_val_overlap_floor
          MaxMerge,       \* max_merge_invocations
          Loaders,        \* valset is the trainset's loader (TRUE), or not
          MaxChildren,    \* bound: programs found by reflection
          MaxRestarts     \* bound: processes after the first

ASSUME MergeAssumption ==
    /\ SeedText \in Texts
    /\ Scores \subseteq Nat
    /\ Supports \subseteq SUBSET Vals
    /\ Oversized \subseteq [Preds -> Texts]
    /\ {SubsampleSize, OverlapFloor} \subseteq Nat \ {0}
    /\ {MaxMerge, MaxChildren, MaxRestarts} \subseteq Nat
    /\ Loaders \subseteq BOOLEAN

VARIABLES
    shared,     \* valset and trainset are one loader
    pc,         \* where the iteration is
    programs,   \* state.program_candidates
    parents,    \* state.parent_program_for_candidate
    subscores,  \* state.prog_candidate_val_subscores
    cache,      \* state.evaluation_cache
    tried,      \* merges_performed[0]: parents and ancestor
    described,  \* merges_performed[1]: parents and the source of each component
    due,        \* merges_due
    tested,     \* total_merges_tested
    found,      \* last_iter_found_new_program
    proposal,   \* the merge being judged
    made,       \* parents and sources of the merges this process built, in order
    restarts

pool == <<programs, parents, subscores>>
memory == <<tried, described>>
credit == <<due, tested>>
vars == <<shared, pc, pool, cache, memory, credit, found, proposal, made, restarts>>

None == [none |-> TRUE]
Candidates == [Preds -> Texts]
Pool == DOMAIN programs
Children == {p \in Pool : Cardinality(parents[p]) = 1}

-----------------------------------------------------------------------------
(* The evaluation cache.  Minibatch results of a loader of their own are     *)
(* never read again and are left out.                                        *)

ValSplit == IF shared THEN "train" ELSE "val"

\* The engine gives the proposer its split.
MergeSplitMutant == "val"
MergeSplit == ValSplit

Key(c, split, v) == <<c, split, v>>

\* The results for the examples of S: cached ones as they are, others anew.
Results(c, split, S) ==
    {f \in [S -> Scores] :
        \A v \in S : Key(c, split, v) \in DOMAIN cache => f[v] = cache[Key(c, split, v)]}

Put(known, c, split, f) ==
    [k \in DOMAIN known \union {Key(c, split, v) : v \in DOMAIN f} |->
        IF k[1] = c /\ k[2] = split /\ k[3] \in DOMAIN f THEN f[k[3]] ELSE known[k]]

-----------------------------------------------------------------------------
(* What is merged.                                                           *)

Total(p) == SumFunction(subscores[p])

\* Averages over the examples each was scored on.
Better(p, q) ==
    Total(p) * Cardinality(DOMAIN subscores[q]) > Total(q) * Cardinality(DOMAIN subscores[p])

Front(v) ==
    {p \in Pool : /\ v \in DOMAIN subscores[p]
                  /\ \A q \in Pool : v \in DOMAIN subscores[q] => subscores[q][v] <= subscores[p][v]}

Fronts == {Front(v) : v \in Vals} \ {{}}

\* find_dominator_programs
IsDominatorSet(D) ==
    /\ \A F \in Fronts : F \intersect D # {}
    /\ \A p \in D : \E F \in Fronts : F \intersect D = {p}

AncestorsMutant ==
    LET anc[p \in Pool] ==
            IF parents[p] = {} THEN {}
            ELSE LET q == Min(parents[p]) IN {q} \union anc[q]
    IN  anc
Ancestors ==
    LET anc[p \in Pool] == parents[p] \union UNION {anc[q] : q \in parents[p]}
    IN  anc

\* does_triplet_have_desirable_predictors
Desirable(a, i, j) ==
    \E p \in Preds : /\ programs[i][p] # programs[j][p]
                     /\ programs[a][p] \in {programs[i][p], programs[j][p]}

\* filter_ancestors
CommonAncestors(i, j) ==
    {a \in Ancestors[i] \intersect Ancestors[j] :
        /\ <<i, j, a>> \notin tried
        /\ ~Better(a, i) /\ ~Better(a, j)
        /\ Desirable(a, i, j)}

\* Two candidates, neither an ancestor of the other.
Pairs ==
    LET ancestors == Ancestors
        dominators == {D \in SUBSET Pool : IsDominatorSet(D)}
    IN  {ij \in Pool \X Pool :
            /\ ij[1] < ij[2]
            /\ ij[1] \notin ancestors[ij[2]] /\ ij[2] \notin ancestors[ij[1]]
            /\ \E D \in dominators : {ij[1], ij[2]} \subseteq D}

\* The draw is weighted by the average score: an ancestor that scored nothing
\* is never drawn, and a draw among such ancestors alone raises ValueError.
Weighted(i, j) == {a \in CommonAncestors(i, j) : Total(a) > 0}

\* Where the component may come from: the parent that changed it, and when
\* both did the better one, or either among equals.
SourceMutant(p, i, j, a) ==
    LET A == programs[a][p]  I == programs[i][p]  J == programs[j][p]
    IN  IF A # I /\ A # J
        THEN IF Better(i, j) THEN {i} ELSE IF Better(j, i) THEN {j} ELSE {i, j}
        ELSE {i}
Source(p, i, j, a) ==
    LET A == programs[a][p]  I == programs[i][p]  J == programs[j][p]
    IN  IF A = I /\ I # J THEN {j}
        ELSE IF A = J /\ I # J THEN {i}
        ELSE IF A # I /\ A # J
             THEN IF Better(i, j) THEN {i} ELSE IF Better(j, i) THEN {j} ELSE {i, j}
        ELSE {i}

Sources(i, j, a) ==
    {s \in [Preds -> {i, j}] : \A p \in Preds : s[p] \in Source(p, i, j, a)}

Mix(s) == [p \in Preds |-> programs[s[p]][p]]

Common(i, j) == DOMAIN subscores[i] \intersect DOMAIN subscores[j]

\* select_eval_subsample_for_merged_program, as how often each example is in
\* it: a share of each bucket, distinct examples while there are enough.
Subsamples(i, j) ==
    LET common == Common(i, j)
        b1 == {v \in common : subscores[i][v] > subscores[j][v]}
        b2 == {v \in common : subscores[j][v] > subscores[i][v]}
        b3 == common \ (b1 \union b2)
        each == (SubsampleSize + 2) \div 3
        least(b, taken) == Min({Cardinality(b), each, SubsampleSize - taken})
        n1 == least(b1, 0)
        n2 == least(b2, n1)
        n3 == least(b3, n1 + n2)
        InIt(s, b) == Cardinality({v \in b : s[v] > 0})
    IN  {s \in [common -> 0..SubsampleSize] :
            /\ SumFunction(s) = SubsampleSize
            /\ InIt(s, b1) >= n1 /\ InIt(s, b2) >= n2 /\ InIt(s, b3) >= n3
            /\ Cardinality(common) >= SubsampleSize => \A v \in common : s[v] <= 1}

-----------------------------------------------------------------------------
Init ==
    /\ shared \in Loaders
    /\ pc = "head"
    /\ programs = << [p \in Preds |-> SeedText] >>
    /\ parents = << {} >>
    /\ \E f \in [Vals -> Scores] :
          /\ subscores = << f >>
          /\ cache = [k \in {Key(programs[1], ValSplit, v) : v \in Vals} |-> f[k[3]]]
    /\ tried = {} /\ described = {}
    /\ due = 0 /\ tested = 0
    /\ found = FALSE
    /\ proposal = None
    /\ made = << >>
    /\ restarts = 0

Scheduled == due > 0 /\ found

\* The attempts run out, or there is nothing to merge.
FindNothing ==
    /\ pc = "head" /\ Scheduled
    /\ pc' = "reflect"
    /\ found' = FALSE
    /\ UNCHANGED <<shared, pool, cache, memory, credit, proposal, made, restarts>>

\* random.choices with weights that add up to nothing.  No exception of a
\* merge is survived, for the iteration has not evaluated anything yet.
FindRaises ==
    /\ pc = "head" /\ Scheduled
    /\ \E ij \in Pairs : CommonAncestors(ij[1], ij[2]) # {} /\ Weighted(ij[1], ij[2]) = {}
    /\ pc' = "raised"
    /\ UNCHANGED <<shared, pool, cache, memory, credit, found, proposal, made, restarts>>

\* What find_common_ancestor_pair and the mixing may come up with, of programs
\* scored on enough common examples: parents, ancestor and sources.
Mixtures ==
    {x \in UNION {{<<ij[1], ij[2], a, s>> : a \in Weighted(ij[1], ij[2]),
                                           s \in [Preds -> {ij[1], ij[2]}]} : ij \in Pairs} :
        /\ x[4] \in Sources(x[1], x[2], x[3])
        /\ Cardinality(Common(x[1], x[2])) >= OverlapFloor}

\* A mixture that this process has not built before.
Build(i, j, s) ==
    /\ pc = "head" /\ Scheduled
    /\ <<i, j, s>> \notin described
    /\ made' = Append(made, <<i, j, s>>)
    /\ found' = FALSE

\* The mixture is remembered before the text limits refuse it.
RefuseLongMutant(i, j, s) ==
    /\ Build(i, j, s)
    /\ Mix(s) \in Oversized
    /\ pc' = "reflect"
    /\ UNCHANGED <<shared, pool, cache, memory, credit, proposal, restarts>>
RefuseLong(i, j, s) ==
    /\ Build(i, j, s)
    /\ Mix(s) \in Oversized
    /\ described' = described \union {<<i, j, s>>}
    /\ pc' = "reflect"
    /\ UNCHANGED <<shared, pool, cache, tried, credit, proposal, restarts>>

Propose(i, j, a, s) ==
    /\ Build(i, j, s)
    /\ Mix(s) \notin Oversized
    /\ described' = described \union {<<i, j, s>>}
    /\ tried' = tried \union {<<i, j, a>>}
    /\ \E sample \in Subsamples(i, j) :
       \E f \in Results(Mix(s), MergeSplit, {v \in DOMAIN sample : sample[v] > 0}) :
          /\ proposal' = [i |-> i, j |-> j, ancestor |-> a, program |-> Mix(s),
                          sample |-> sample, scores |-> f]
          /\ cache' = Put(cache, Mix(s), MergeSplit, f)
    /\ pc' = "judge"
    /\ UNCHANGED <<shared, pool, credit, restarts>>

\* The merge against the better parent, on the same examples.
SampleTotal(f) == MapThenSumSet(LAMBDA v : f[v] * proposal.sample[v], DOMAIN f)

Accepted ==
    LET before(p) == SampleTotal([v \in DOMAIN proposal.scores |-> subscores[p][v]])
    IN  /\ SampleTotal(proposal.scores) >= before(proposal.i)
        /\ SampleTotal(proposal.scores) >= before(proposal.j)

AddProgram(c, from, f) ==
    /\ programs' = Append(programs, c)
    /\ parents' = Append(parents, from)
    /\ subscores' = Append(subscores, f)

Accept ==
    /\ pc = "judge" /\ Accepted
    /\ \E S \in Supports : \E f \in Results(proposal.program, ValSplit, S) :
          /\ AddProgram(proposal.program, {proposal.i, proposal.j}, f)
          /\ cache' = Put(cache, proposal.program, ValSplit, f)
    /\ due' = due - 1
    /\ tested' = tested + 1
    /\ proposal' = None
    /\ pc' = "head"
    /\ UNCHANGED <<shared, memory, found, made, restarts>>

Reject ==
    /\ pc = "judge" /\ ~Accepted
    /\ proposal' = None
    /\ pc' = "head"
    /\ UNCHANGED <<shared, pool, cache, memory, credit, found, made, restarts>>

Reflecting == pc = "reflect" \/ (pc = "head" /\ ~Scheduled)

\* Reflection rewrites component p of program k and the child does better on
\* a minibatch, of which one example shows; the parent is evaluated anew.
\* Then comes the validation, and the next merge is scheduled.
Reflect(k, p, t) ==
    /\ Reflecting
    /\ Cardinality(Children) < MaxChildren
    /\ t # programs[k][p]
    /\ LET child == [programs[k] EXCEPT ![p] = t]
       IN  child \notin Oversized /\ \E m \in Vals, before \in Scores, after \in Scores, S \in Supports :
             /\ after > before
             /\ LET known == IF shared
                             THEN Put(Put(cache, programs[k], "train", [v \in {m} |-> before]),
                                      child, "train", [v \in {m} |-> after])
                             ELSE cache
                IN  \E f \in {f \in [S -> Scores] : \A v \in S :
                          Key(child, ValSplit, v) \in DOMAIN known => f[v] = known[Key(child, ValSplit, v)]} :
                      /\ AddProgram(child, {k}, f)
                      /\ cache' = Put(known, child, ValSplit, f)
    /\ found' = TRUE
    /\ due' = IF tested < MaxMerge THEN due + 1 ELSE due
    /\ pc' = "head"
    /\ UNCHANGED <<shared, memory, tested, proposal, made, restarts>>

\* Reflection leaves no child.  What the parents and the refused children scored
\* on their minibatches goes to the cache in the code, and is left out here.
ReflectInVain ==
    /\ Reflecting
    /\ pc' = "head"
    /\ found' = FALSE
    /\ UNCHANGED <<shared, pool, cache, memory, credit, proposal, made, restarts>>

\* Another process goes on from the checkpoint: what the proposer remembers
\* is not part of it.
Restart ==
    /\ pc \in {"head", "raised"}
    /\ restarts < MaxRestarts
    /\ restarts' = restarts + 1
    /\ tried' = {} /\ described' = {} /\ made' = << >>
    /\ due' = 0 /\ tested' = 0
    /\ found' = FALSE
    /\ pc' = "head"
    /\ UNCHANGED <<shared, pool, cache, proposal>>

Next ==
    \/ FindNothing
    \/ FindRaises
    \/ Scheduled /\ \E x \in Mixtures : RefuseLong(x[1], x[2], x[4])
    \/ Scheduled /\ \E x \in Mixtures : Propose(x[1], x[2], x[3], x[4])
    \/ Accept
    \/ Reject
    \/ \E k \in Pool, p \in Preds, t \in Texts : Reflect(k, p, t)
    \/ ReflectInVain
    \/ Restart

Spec == Init /\ [][Next]_vars

-----------------------------------------------------------------------------
(* Properties.                                                               *)

\* A merge joins two lines of descent: in a pool that holds merged programs
\* with two parents each, neither parent of a merge descends from the other.
MergesJoinLines ==
    LET anc == [p \in Pool |->
                  {q \in Pool : \A S \in SUBSET Pool :
                      (parents[p] \subseteq S /\ \A r \in S : parents[r] \subseteq S) => q \in S}]
        joined == {parents[p] : p \in Pool} \union
                  (IF proposal = None THEN {} ELSE {{proposal.i, proposal.j}})
    IN  \A pair \in joined : \A i \in pair, j \in pair : i \notin anc[j]

\* A merge loses no refinement: it has the ancestor's text for a component
\* only if both parents still have it, every text is one of the parents', and
\* a merge that was offered differs from the ancestor.
NothingLost ==
    proposal # None =>
        LET A == programs[proposal.ancestor]
            I == programs[proposal.i]
            J == programs[proposal.j]
            new == proposal.program
        IN  /\ \A p \in Preds : new[p] = A[p] => I[p] = A[p] /\ J[p] = A[p]
            /\ \A p \in Preds : new[p] \in {I[p], J[p]}
            /\ new # A

\* A process never builds a merge of the same parents from the same sources
\* twice, whether it was judged or refused by the text limits, through
\* whatever ancestor: it would pay for evaluations it has had.
BuiltOnce == IsInjective(made)

\* With the cache on, an accepted merge enters the pool with the scores that
\* it was judged by, for every example of its subsample that is validated.
JudgedAsAdded ==
    [][pc = "judge" /\ programs' # programs =>
          LET added == subscores'[Len(programs')]
          IN  \A v \in DOMAIN added \intersect DOMAIN proposal.scores :
                 added[v] = proposal.scores[v]]_vars

\* core/adapter.py:137 asks adapters to score a failed example 0.0 and not to
\* raise; scores of 0.0 should then not end the run.
NeverRaises == pc # "raised"
=============================================================================
