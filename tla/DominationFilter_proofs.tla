------------------------ MODULE DominationFilter_proofs ------------------------
(***************************************************************************)
(* The domination filter keeps a program on every frontier, drops all      *)
(* slack and draws the parent among the K best, for every pool, every      *)
(* frontier table, every score and every K.                                *)
(***************************************************************************)
EXTENDS DominationFilter, TLAPS, FiniteSetTheorems, WellFoundedInduction

\* TypeOK at the start: a restricted frontier table is still one over the pool.
LEMMA InitTyped == Init => TypeOK
<1> SUFFICES ASSUME Init PROVE TypeOK
  OBVIOUS
<1>1. PICK f \in [FrontKeys -> SUBSET Programs \ {{}}] : front = Restricted(f, score)
  BY DEF Init
<1>2. DOMAIN front \subseteq FrontKeys
  BY <1>1 DEF Restricted
<1>3. \A k \in DOMAIN front : front[k] \subseteq Programs
  BY <1>1 DEF Restricted, TopK
<1>4. K \in Ks /\ score \in [Programs -> AvgScores] /\ dominated \subseteq OnFronts /\ picked \in 0..NumPrograms
  BY FilterAssumption DEF Init
<1> QED
  BY <1>2, <1>3, <1>4 DEF TypeOK

\* The variables hold what the code keeps in them, in every state.
THEOREM Typing == Spec => []TypeOK
<1>1. TypeOK /\ [Next]_vars => TypeOK'
  <2> SUFFICES ASSUME TypeOK, [Next]_vars PROVE TypeOK'
    OBVIOUS
  <2>1. ASSUME NEW y \in Programs, Remove(y) PROVE TypeOK'
    BY <2>1 DEF Remove, Removable, OnFronts, TypeOK
  <2>2. ASSUME NEW p \in Programs, Pick(p) PROVE TypeOK'
    <3>1. p \in 0..NumPrograms
      BY FilterAssumption DEF Programs
    <3> QED
      BY <2>2, <3>1 DEF Pick, OnFronts, TypeOK
  <2>3. CASE UNCHANGED vars
    BY <2>3 DEF vars, OnFronts, TypeOK
  <2> QED
    BY <2>1, <2>2, <2>3 DEF Next
<1> QED
  BY InitTyped, <1>1, PTL DEF Spec

\* A removed program leaves, on each of its frontiers, one it was compared with.
LEMMA RemoveKeepsCover ==
  ASSUME Cover, NEW y \in Programs, Remove(y)
  PROVE  Cover'
<1> SUFFICES ASSUME NEW k \in DOMAIN front PROVE front[k] \ (dominated \union {y}) # {}
  BY DEF Remove, Cover, Kept
<1>1. CASE y \in front[k]
  <2>1. IsDominated(y, Others(y))
    BY DEF Remove, Removable
  <2>2. PICK p \in front[k] : p \in Others(y)
    BY <1>1, <2>1 DEF IsDominated
  <2> QED
    BY <2>2 DEF Others
<1>2. CASE y \notin front[k]
  BY <1>2 DEF Cover, Kept
<1> QED
  BY <1>1, <1>2

\* The assertion of remove_dominated_programs (gepa_utils.py:75-78) cannot
\* fail: every frontier keeps a program that was not removed.
THEOREM CoverHolds == Spec => []Cover
<1>1. Init => Cover
  <2> SUFFICES ASSUME Init, NEW k \in DOMAIN front PROVE front[k] \ dominated # {}
    BY DEF Cover, Kept
  <2>1. PICK f \in [FrontKeys -> SUBSET Programs \ {{}}] : front = Restricted(f, score)
    BY DEF Init
  <2>2. front[k] # {}
    BY <2>1 DEF Restricted
  <2> QED
    BY <2>2 DEF Init
<1>2. Cover /\ [Next]_vars => Cover'
  <2> SUFFICES ASSUME Cover, [Next]_vars PROVE Cover'
    OBVIOUS
  <2>1. ASSUME NEW y \in Programs, Remove(y) PROVE Cover'
    BY <2>1, RemoveKeepsCover
  <2>2. ASSUME NEW p \in Programs, Pick(p) PROVE Cover'
    BY <2>2 DEF Pick, Cover, Kept
  <2>3. CASE UNCHANGED vars
    BY <2>3 DEF vars, Cover, Kept
  <2> QED
    BY <2>1, <2>2, <2>3 DEF Next
<1> QED
  BY <1>1, <1>2, PTL DEF Spec

\* The draw happens when nothing is removable, and nothing is removed after it.
Settled == picked # 0 => Removable = {}

LEMMA SettledIsSlackFree == Settled => Irredundant
<1> SUFFICES ASSUME Removable = {}, NEW y \in SamplingList
             PROVE  \E k \in DOMAIN front : Kept(k) = {y}
  BY DEF Settled, Irredundant
<1>1. y \in OnFronts \ dominated
  BY DEF SamplingList, Kept, OnFronts
<1>2. ~IsDominated(y, Others(y))
  BY <1>1 DEF Removable
<1>3. PICK k \in DOMAIN front : y \in front[k] /\ front[k] \intersect Others(y) = {}
  BY <1>2 DEF IsDominated
<1>4. Kept(k) = {y}
  BY <1>1, <1>3 DEF Kept, Others, OnFronts
<1> QED
  BY <1>4

\* Every program the parent may be drawn from is the only one left on one of
\* its frontiers.
THEOREM IrredundantHolds == Spec => []Irredundant
<1>1. Init => Settled
  BY DEF Init, Settled
<1>2. Settled /\ [Next]_vars => Settled'
  <2> SUFFICES ASSUME Settled, [Next]_vars PROVE Settled'
    OBVIOUS
  <2>1. ASSUME NEW y \in Programs, Remove(y) PROVE Settled'
    BY <2>1 DEF Remove, Settled
  <2>2. ASSUME NEW p \in Programs, Pick(p) PROVE Settled'
    BY <2>2 DEF Pick, Settled, Removable, OnFronts, IsDominated, Others
  <2>3. CASE UNCHANGED vars
    BY <2>3 DEF vars, Settled, Removable, OnFronts, IsDominated, Others
  <2> QED
    BY <2>1, <2>2, <2>3 DEF Next
<1> QED
  BY <1>1, <1>2, SettledIsSlackFree, PTL DEF Spec

-----------------------------------------------------------------------------
(* The top K.                                                              *)

\* Induction over the naturals: a set of numbers that is not empty has a least.
LEMMA LeastOf ==
  ASSUME NEW Bad, Bad \subseteq Nat, Bad # {}
  PROVE  \E n \in Bad : \A m \in Nat : m < n => m \notin Bad
<1>1. PICK b \in Bad : TRUE
  OBVIOUS
<1> DEFINE Below == {0..m : m \in {i \in Bad : i <= b}}
<1>2. IsFiniteSet(0..b) /\ Below \subseteq FiniteSubsetsOf(0..b) /\ Below # {}
  <2>1. IsFiniteSet(0..b)
    BY FS_Interval
  <2>2. ASSUME NEW s \in Below PROVE s \in FiniteSubsetsOf(0..b)
    <3>1. s \subseteq 0..b
      OBVIOUS
    <3> QED
      BY <2>1, <3>1, FS_Subset DEF FiniteSubsetsOf
  <2>3. 0..b \in Below
    OBVIOUS
  <2> QED
    BY <2>1, <2>2, <2>3
<1>3. IsWellFoundedOn(StrictSubsetOrdering(0..b), FiniteSubsetsOf(0..b))
  BY <1>2, FS_StrictSubsetOrderingWellFounded
<1>4. PICK s \in Below : \A t \in Below : <<t, s>> \notin StrictSubsetOrdering(0..b)
  <2> HIDE DEF Below
  <2> QED
    BY <1>2, <1>3, WFMin
<1>5. PICK n \in Bad : n <= b /\ s = 0..n
  OBVIOUS
<1>6. ASSUME NEW m \in Nat, m < n PROVE m \notin Bad
  <2>1. 0..m \subseteq 0..n /\ 0..m # 0..n /\ 0..n \subseteq 0..b /\ m <= b
    BY <1>5, <1>6
  <2>2. <<0..m, 0..n>> \in StrictSubsetOrdering(0..b)
    BY <2>1 DEF StrictSubsetOrdering
  <2> QED
    BY <1>4, <1>5, <2>1, <2>2
<1> QED
  BY <1>5, <1>6

\* The pool has a best program, the earliest of those with the highest score:
\* the fallback of the top-K selector always finds one.
LEMMA BestExists ==
  ASSUME score \in [Programs -> Int]
  PROVE  IdxMax \in Programs /\ \A q \in Programs : score[q] <= score[IdxMax]
<1> DEFINE First(p, n) == /\ p \in 1..n
                          /\ \A q \in 1..n : score[q] <= score[p]
                          /\ \A q \in 1..(p - 1) : score[q] < score[p]
           Bad == {n \in Programs : \A p \in 1..n : ~First(p, n)}
<1>1. Bad = {}
  <2> SUFFICES ASSUME Bad # {} PROVE FALSE
    OBVIOUS
  <2>1. Bad \subseteq Nat
    BY DEF Programs
  <2>2. PICK n \in Bad : \A m \in Nat : m < n => m \notin Bad
    <3> HIDE DEF Bad
    <3> QED
      BY <2>1, LeastOf
  <2>3. n \in Programs /\ n \in Nat /\ n >= 1 /\ score[n] \in Int
    BY DEF Programs
  <2>4. CASE n = 1
    BY <2>3, <2>4
  <2>5. CASE n > 1
    <3>1. n - 1 \in Programs /\ n - 1 \in Nat /\ n - 1 < n
      BY <2>3, <2>5, FilterAssumption DEF Programs
    <3>2. PICK p \in 1..(n - 1) : First(p, n - 1)
      BY <2>2, <3>1
    <3>3. \A q \in 1..n : score[q] \in Int
      BY <2>3, FilterAssumption DEF Programs
    <3>4. \A q \in 1..n : q = n \/ q \in 1..(n - 1)
      BY <2>3
    <3>5. CASE score[n] > score[p]
      <4>1. First(n, n)
        BY <2>3, <3>2, <3>3, <3>4, <3>5
      <4> QED
        BY <2>2, <2>3, <4>1
    <3>6. CASE score[n] <= score[p]
      <4>1. First(p, n)
        BY <2>3, <3>2, <3>3, <3>4, <3>6
      <4> QED
        BY <2>2, <2>3, <3>2, <4>1
    <3> QED
      BY <2>3, <3>2, <3>3, <3>5, <3>6
  <2> QED
    BY <2>3, <2>4, <2>5
<1>2. NumPrograms \in Programs
  BY FilterAssumption DEF Programs
<1>3. \E p \in 1..NumPrograms : First(p, NumPrograms)
  BY <1>1, <1>2
<1>4. \E p \in Programs : /\ \A q \in Programs : score[q] <= score[p]
                          /\ \A q \in 1..(p - 1) : score[q] < score[p]
  BY <1>3 DEF Programs
<1> QED
  BY <1>4 DEF IdxMax

\* What the draw is made from: the frontiers stay within the top K, and the
\* fallback is a best program.
Drawn(p) == p \in TopK(score) \/ \A q \in Programs : score[q] <= score[p]
Ranked ==
    /\ \A k \in DOMAIN front : front[k] \subseteq TopK(score)
    /\ picked # 0 => picked \in Programs /\ Drawn(picked)

LEMMA BetterFinite ==
  ASSUME NEW S, S \subseteq Programs
  PROVE  IsFiniteSet(S) /\ Cardinality(S) \in Nat
<1>1. IsFiniteSet(Programs)
  BY FilterAssumption, FS_Interval DEF Programs
<1> QED
  BY <1>1, FS_Subset, FS_CardinalityType

LEMMA DrawnIsInTopK ==
  ASSUME K \in Nat, K > 0, score \in [Programs -> Int], NEW p \in Programs, Drawn(p)
  PROVE  Cardinality({q \in Programs : score[q] > score[p]}) < K
<1> DEFINE Above == {q \in Programs : score[q] > score[p]}
           Before == {q \in Programs : score[q] > score[p] \/ (score[q] = score[p] /\ q < p)}
<1>1. CASE p \in TopK(score)
  <2>1. Cardinality(Before) < K
    BY <1>1 DEF TopK
  <2>2. Above \subseteq Before /\ Before \subseteq Programs
    OBVIOUS
  <2> HIDE DEF Above, Before
  <2>3. IsFiniteSet(Before) /\ Cardinality(Before) \in Nat /\ Cardinality(Above) \in Nat
    BY <2>2, BetterFinite
  <2>4. Cardinality(Above) <= Cardinality(Before)
    BY <2>2, <2>3, FS_Subset
  <2>5. Cardinality(Above) < K
    BY <2>1, <2>3, <2>4
  <2> QED
    BY <2>5 DEF Above
<1>2. CASE \A q \in Programs : score[q] <= score[p]
  <2>1. Above = {}
    BY <1>2
  <2> HIDE DEF Above
  <2>2. Cardinality(Above) = 0
    BY <2>1, FS_EmptySet
  <2>3. Cardinality(Above) < K
    BY <2>2
  <2> QED
    BY <2>3 DEF Above
<1> QED
  BY <1>1, <1>2 DEF Drawn

\* The parent drawn is one of the K best, from a frontier or from the fallback
\* of a pool none of whose frontiers has any of them.
THEOREM ParentIsInTopK == Spec => []PickedInTopK
<1>1. Init => Ranked
  <2> SUFFICES ASSUME Init PROVE Ranked
    OBVIOUS
  <2>1. PICK f \in [FrontKeys -> SUBSET Programs \ {{}}] : front = Restricted(f, score)
    BY DEF Init
  <2> QED
    BY <2>1 DEF Init, Restricted, Ranked
<1>2. TypeOK /\ Ranked /\ [Next]_vars => Ranked'
  <2> SUFFICES ASSUME TypeOK, Ranked, [Next]_vars PROVE Ranked'
    OBVIOUS
  <2>1. ASSUME NEW y \in Programs, Remove(y) PROVE Ranked'
    BY <2>1 DEF Remove, Ranked, Drawn, TopK
  <2>2. ASSUME NEW p \in Programs, Pick(p) PROVE Ranked'
    <3>1. UNCHANGED <<K, front, score>> /\ picked' = p
      BY <2>2 DEF Pick
    <3>2. Drawn(p)
      <4>1. CASE DOMAIN front = {}
        <5>1. score \in [Programs -> Int] /\ p = IdxMax
          BY <2>2, <4>1, FilterAssumption DEF TypeOK, Pick
        <5> QED
          BY <5>1, BestExists DEF Drawn
      <4>2. CASE DOMAIN front # {}
        <5>1. p \in SamplingList
          BY <2>2, <4>2 DEF Pick
        <5> QED
          BY <5>1 DEF SamplingList, Kept, Ranked, Drawn
      <4> QED
        BY <4>1, <4>2
    <3> QED
      BY <3>1, <3>2 DEF Ranked, Drawn, TopK
  <2>3. CASE UNCHANGED vars
    BY <2>3 DEF vars, Ranked, Drawn, TopK
  <2> QED
    BY <2>1, <2>2, <2>3 DEF Next
<1>3. TypeOK /\ Ranked => PickedInTopK
  <2> SUFFICES ASSUME TypeOK, Ranked, picked # 0, K > 0
               PROVE  Cardinality({q \in Programs : score[q] > score[picked]}) < K
    BY DEF PickedInTopK
  <2>1. K \in Nat /\ score \in [Programs -> Int]
    BY FilterAssumption DEF TypeOK
  <2> QED
    BY <2>1, DrawnIsInTopK DEF Ranked
<1> QED
  BY Typing, <1>1, <1>2, <1>3, PTL DEF Spec

=============================================================================
