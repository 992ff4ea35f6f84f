--------------------------- MODULE DominationFilter ---------------------------
(***************************************************************************)
(* Parent selection from the Pareto frontiers (gepa_utils.py and the       *)
(* Pareto and top-K Pareto selectors): programs that others cover on every *)
(* frontier they are on are removed one at a time, lowest average score    *)
(* first, and the parent is drawn from what is left.                       *)
(***************************************************************************)
EXTENDS Integers, FiniteSets

CONSTANTS
    NumPrograms,     \* the pool is 1..NumPrograms
    FrontKeys,       \* frontier keys
    AvgScores,       \* average validation scores
    Ks               \* values of TopKParetoCandidateSelector.k, 0 for the plain selector

Programs == 1..NumPrograms

ASSUME FilterAssumption ==
    /\ NumPrograms \in Nat \ {0}
    /\ AvgScores \subseteq Int
    /\ Ks \subseteq Nat

VARIABLES
    K,               \* the selector's k, fixed at construction
    front,           \* frontier key -> programs, as handed to the filter
    score,           \* average score per program
    dominated,       \* programs removed so far
    picked           \* the selected parent, 0 before

vars == <<K, front, score, dominated, picked>>

\* The K best programs, earlier ones first among equals.
TopKMutant(s) == Programs
TopK(s) ==
    {p \in Programs : K = 0 \/
        Cardinality({q \in Programs : s[q] > s[p] \/ (s[q] = s[p] /\ q < p)}) < K}

\* Frontiers restricted to the top K; a frontier left empty is dropped.
Restricted(f, s) ==
    [k \in {j \in DOMAIN f : f[j] \intersect TopK(s) # {}} |-> f[k] \intersect TopK(s)]

Init ==
    /\ K \in Ks
    /\ score \in [Programs -> AvgScores]
    /\ \E f \in [FrontKeys -> SUBSET Programs \ {{}}] : front = Restricted(f, score)
    /\ dominated = {}
    /\ picked = 0

OnFronts == UNION {front[k] : k \in DOMAIN front}

\* The programs y is compared with.
OthersMutant(y) == OnFronts \ dominated
Others(y) == OnFronts \ ({y} \union dominated)

\* Every frontier y is on has one of the programs.
IsDominatedMutant(y, programs) ==
    \A k \in DOMAIN front : y \in front[k] => \E p \in front[k] \intersect programs : score[p] > score[y]
IsDominated(y, programs) ==
    \A k \in DOMAIN front : y \in front[k] => front[k] \intersect programs # {}

Removable == {y \in OnFronts \ dominated : IsDominated(y, Others(y))}

\* One round of the while loop; among equal scores the order is the set's.
Remove(y) ==
    /\ y \in Removable
    /\ \A z \in Removable : score[y] <= score[z]
    /\ dominated' = dominated \union {y}
    /\ UNCHANGED <<K, front, score, picked>>

Kept(k) == front[k] \ dominated

\* The draw, weighted in the code by the number of frontiers. Without any
\* frontier left by the top K, the best program of the pool.
SamplingList == UNION {Kept(k) : k \in DOMAIN front}

IdxMax == CHOOSE p \in Programs :
    /\ \A q \in Programs : score[q] <= score[p]
    /\ \A q \in 1..(p - 1) : score[q] < score[p]

Pick(p) ==
    /\ picked = 0 /\ Removable = {}
    /\ IF DOMAIN front = {} THEN p = IdxMax ELSE p \in SamplingList
    /\ picked' = p
    /\ UNCHANGED <<K, front, score, dominated>>

Next ==
    \/ \E y \in Programs : Remove(y)
    \/ \E p \in Programs : Pick(p)

Spec == Init /\ [][Next]_vars

-----------------------------------------------------------------------------
(* Properties.                                                             *)

TypeOK ==
    /\ K \in Ks
    /\ DOMAIN front \subseteq FrontKeys
    /\ \A k \in DOMAIN front : front[k] \subseteq Programs
    /\ score \in [Programs -> AvgScores]
    /\ dominated \subseteq OnFronts
    /\ picked \in 0..NumPrograms

\* However the removals are ordered, no frontier loses its last program: the
\* assertion gepa_utils.py:75-78, and with it len(sampling_list) > 0 (131).
Cover == \A k \in DOMAIN front : Kept(k) # {}

\* What is left has no slack: each kept program is the only one left on one of
\* its frontiers, so every parent drawn is best somewhere on its own.
Irredundant ==
    picked # 0 => \A p \in SamplingList : \E k \in DOMAIN front : Kept(k) = {p}

\* The parent drawn is one of the K best (all of them for the plain selector),
\* on the fallback path too.
PickedInTopK ==
    picked # 0 /\ K > 0 => Cardinality({q \in Programs : score[q] > score[picked]}) < K

=============================================================================
