------------------------ MODULE MergeProposer_proofs ------------------------
(***************************************************************************)
(* For any programs, scores, loaders and bounds: a process never builds a   *)
(* mixture twice (BuiltOnce), a merge loses no refinement (NothingLost), an  *)
(* accepted one enters with the scores it was judged by (JudgedAsAdded), and *)
(* no merge joins a program with one it descends from (MergesJoinLines).    *)
(***************************************************************************)
EXTENDS MergeProposer, TLAPS, FiniteSetTheorems, WellFoundedInduction

\* What a process has built it remembers, so a new mixture is not among it.
Remembered ==
    /\ made \in Seq(described)
    /\ BuiltOnce

\* Appending what is not among its elements keeps a sequence injective.
LEMMA AppendNew ==
    ASSUME NEW S, NEW q \in Seq(S), NEW x, x \notin S, IsInjective(q)
    PROVE  /\ Append(q, x) \in Seq(S \union {x})
           /\ IsInjective(Append(q, x))
  <1>1. q \in Seq(S \union {x})
    <2>1. q \in [1..Len(q) -> S \union {x}] /\ Len(q) \in Nat  OBVIOUS
    <2> QED  BY <2>1
  <1>2. /\ Append(q, x) \in Seq(S \union {x})
        /\ Len(Append(q, x)) = Len(q) + 1
        /\ \A k \in 1..Len(q) : Append(q, x)[k] = q[k]
        /\ Append(q, x)[Len(q) + 1] = x
    BY <1>1
  <1>3. \A k \in 1..Len(q) : q[k] # x  OBVIOUS
  <1>4. DOMAIN Append(q, x) = 1..(Len(q) + 1) /\ DOMAIN q = 1..Len(q) /\ Len(q) \in Nat
    BY <1>1, <1>2
  <1>5. ASSUME NEW a \in DOMAIN Append(q, x), NEW b \in DOMAIN Append(q, x),
               Append(q, x)[a] = Append(q, x)[b]
        PROVE  a = b
    <2>1. CASE a \in 1..Len(q) /\ b \in 1..Len(q)
      <3>1. q[a] = q[b]  BY <2>1, <1>2, <1>5
      <3> QED  BY <3>1, <2>1, <1>4 DEF IsInjective
    <2>2. CASE a = Len(q) + 1 \/ b = Len(q) + 1
      BY <2>2, <1>2, <1>3, <1>4, <1>5
    <2> QED  BY <2>1, <2>2, <1>4
  <1>6. IsInjective(Append(q, x))  BY <1>5 DEF IsInjective
  <1> QED  BY <1>2, <1>6

LEMMA BuildRemembers ==
    ASSUME Remembered, NEW i, NEW j, NEW s,
           Build(i, j, s), described' = described \union {<<i, j, s>>}
    PROVE  Remembered'
  <1>1. /\ Append(made, <<i, j, s>>) \in Seq(described \union {<<i, j, s>>})
        /\ IsInjective(Append(made, <<i, j, s>>))
    BY AppendNew DEF Remembered, BuiltOnce, Build
  <1> QED  BY <1>1 DEF Remembered, BuiltOnce, Build

(***************************************************************************)
(* A process never builds the same mixture of the same parents twice, also  *)
(* across the merges that the text limits refuse.                           *)
(***************************************************************************)
THEOREM MixturesAreNew == Spec => []BuiltOnce
  <1>1. Init => Remembered
    BY DEF Init, Remembered, BuiltOnce, IsInjective
  <1>2. Remembered /\ [Next]_vars => Remembered'
    <2> SUFFICES ASSUME Remembered, [Next]_vars PROVE Remembered'
      OBVIOUS
    <2>1. CASE \E x \in Mixtures : RefuseLong(x[1], x[2], x[4])
      <3>1. PICK x \in Mixtures : RefuseLong(x[1], x[2], x[4])  BY <2>1
      <3> QED  BY <3>1, BuildRemembers DEF RefuseLong
    <2>2. CASE \E x \in Mixtures : Propose(x[1], x[2], x[3], x[4])
      <3>1. PICK x \in Mixtures : Propose(x[1], x[2], x[3], x[4])  BY <2>2
      <3> QED  BY <3>1, BuildRemembers DEF Propose
    <2>3. CASE Restart
      BY <2>3 DEF Restart, Remembered, BuiltOnce, IsInjective
    <2>4. CASE UNCHANGED <<made, described>>
      BY <2>4 DEF Remembered, BuiltOnce
    <2>5. ASSUME NEW k \in Pool, NEW p \in Preds, NEW t \in Texts, Reflect(k, p, t)
          PROVE  UNCHANGED <<made, described>>
      BY <2>5 DEF Reflect, memory
    <2>6. FindNothing \/ FindRaises \/ Accept \/ Reject \/ ReflectInVain \/ UNCHANGED vars
            => UNCHANGED <<made, described>>
      BY DEF FindNothing, FindRaises, Accept, Reject, ReflectInVain, memory, vars
    <2> QED  BY <2>1, <2>2, <2>3, <2>4, <2>5, <2>6 DEF Next
  <1>3. Remembered => BuiltOnce  BY DEF Remembered
  <1> QED  BY <1>1, <1>2, <1>3, PTL DEF Spec

(***************************************************************************)
(* A merge takes each component from a parent, and from the one that        *)
(* changed it: no refinement of either parent falls back to the ancestor's  *)
(* text, and the merge is not the ancestor.                                 *)
(***************************************************************************)
Inherits(i, j, a, new) ==
    /\ \A p \in Preds : new[p] = programs[a][p] =>
          programs[i][p] = programs[a][p] /\ programs[j][p] = programs[a][p]
    /\ \A p \in Preds : new[p] \in {programs[i][p], programs[j][p]}
    /\ new # programs[a]

\* Where a component may come from, decided by who changed it.
LEMMA SourceChanged ==
    ASSUME NEW p, NEW i, NEW j, NEW a, NEW q \in Source(p, i, j, a)
    PROVE  /\ q \in {i, j}
           /\ programs[q][p] = programs[a][p] =>
                 programs[i][p] = programs[a][p] /\ programs[j][p] = programs[a][p]
           /\ programs[i][p] # programs[j][p] /\ programs[a][p] \in {programs[i][p], programs[j][p]}
                 => programs[q][p] # programs[a][p]
  <1>1. CASE programs[a][p] = programs[i][p] /\ programs[i][p] # programs[j][p]
    BY <1>1 DEF Source
  <1>2. CASE programs[a][p] = programs[j][p] /\ programs[i][p] # programs[j][p]
    BY <1>2 DEF Source
  <1>3. CASE programs[a][p] # programs[i][p] /\ programs[a][p] # programs[j][p]
    <2>1. q \in {i, j}  BY <1>3 DEF Source
    <2> QED  BY <1>3, <2>1
  <1>4. CASE programs[a][p] = programs[i][p] /\ programs[i][p] = programs[j][p]
    BY <1>4 DEF Source
  <1> QED  BY <1>1, <1>2, <1>3, <1>4

LEMMA MixInherits ==
    ASSUME NEW x \in Mixtures
    PROVE  Inherits(x[1], x[2], x[3], Mix(x[4]))
  <1>1. PICK ij \in Pairs : x \in {<<ij[1], ij[2], a, s>> : a \in Weighted(ij[1], ij[2]),
                                                          s \in [Preds -> {ij[1], ij[2]}]}
    BY DEF Mixtures
  <1>2. PICK a \in Weighted(ij[1], ij[2]), s \in [Preds -> {ij[1], ij[2]}] :
            x = <<ij[1], ij[2], a, s>>
    BY <1>1
  <1> DEFINE i == ij[1]
             j == ij[2]
  <1>3. x[1] = i /\ x[2] = j /\ x[3] = a /\ x[4] = s  BY <1>2
  <1>4. s \in Sources(i, j, a)  BY <1>3 DEF Mixtures
  <1>5. Desirable(a, i, j)  BY <1>2 DEF Weighted, CommonAncestors
  <1> HIDE DEF i, j
  <1>6. \A p \in Preds : s[p] \in Source(p, i, j, a)  BY <1>4 DEF Sources
  <1>7. \A p \in Preds : Mix(s)[p] = programs[s[p]][p]  BY DEF Mix
  <1>8. \A p \in Preds : Mix(s)[p] = programs[a][p] =>
            programs[i][p] = programs[a][p] /\ programs[j][p] = programs[a][p]
    BY <1>6, <1>7, SourceChanged
  <1>9. \A p \in Preds : Mix(s)[p] \in {programs[i][p], programs[j][p]}
    <2> TAKE p \in Preds
    <2>1. s[p] \in {i, j}  BY <1>6, SourceChanged
    <2> QED  BY <2>1, <1>7
  <1>10. Mix(s) # programs[a]
    <2>1. PICK p \in Preds : /\ programs[i][p] # programs[j][p]
                             /\ programs[a][p] \in {programs[i][p], programs[j][p]}
      BY <1>5 DEF Desirable
    <2>2. programs[s[p]][p] # programs[a][p]  BY <2>1, <1>6, SourceChanged
    <2> QED  BY <2>2, <1>7
  <1> QED  BY <1>3, <1>8, <1>9, <1>10 DEF Inherits

\* Between iterations no merge is pending.
Pending ==
    /\ pc # "judge" => proposal = None
    /\ NothingLost

THEOREM MergesLoseNothing == Spec => []NothingLost
  <1>1. Init => Pending
    BY DEF Init, Pending, NothingLost
  <1>2. Pending /\ [Next]_vars => Pending'
    <2> SUFFICES ASSUME Pending, [Next]_vars PROVE Pending'
      OBVIOUS
    <2>1. CASE \E x \in Mixtures : Propose(x[1], x[2], x[3], x[4])
      <3>1. PICK x \in Mixtures : Propose(x[1], x[2], x[3], x[4])  BY <2>1
      <3>2. Inherits(x[1], x[2], x[3], Mix(x[4]))  BY MixInherits
      <3>3. /\ proposal'.i = x[1] /\ proposal'.j = x[2] /\ proposal'.ancestor = x[3]
            /\ proposal'.program = Mix(x[4])
            /\ pc' = "judge" /\ programs' = programs
        BY <3>1 DEF Propose, pool
      <3> QED  BY <3>2, <3>3 DEF Inherits, Pending, NothingLost
    <2>2. CASE Accept \/ Reject
      BY <2>2 DEF Accept, Reject, Pending, NothingLost
    <2>3. ASSUME NEW k \in Pool, NEW p \in Preds, NEW t \in Texts, Reflect(k, p, t)
          PROVE  Pending'
      BY <2>3 DEF Reflect, Reflecting, Pending, NothingLost
    <2>4. CASE \E x \in Mixtures : RefuseLong(x[1], x[2], x[4])
      BY <2>4 DEF RefuseLong, Build, Pending, NothingLost, pool
    <2>5. CASE FindNothing \/ FindRaises \/ ReflectInVain \/ Restart
      BY <2>5 DEF FindNothing, FindRaises, ReflectInVain, Reflecting, Restart, Pending,
                  NothingLost, pool
    <2>6. CASE UNCHANGED vars
      BY <2>6 DEF vars, pool, Pending, NothingLost
    <2> QED  BY <2>1, <2>2, <2>3, <2>4, <2>5, <2>6 DEF Next
  <1>3. Pending => NothingLost  BY DEF Pending
  <1> QED  BY <1>1, <1>2, <1>3, PTL DEF Spec
(***************************************************************************)
(* An accepted merge enters the pool with the scores it was judged by: the  *)
(* evaluation of the subsample was cached under the split of the validation *)
(* set, and nothing happens between the judgement and the validation.       *)
(***************************************************************************)
Scored == UNION {[S -> Scores] : S \in SUBSET Vals}

PoolTyped ==
    /\ programs \in Seq(Candidates)
    /\ subscores \in Seq(Scored)
    /\ Len(subscores) = Len(programs)

\* What the pending merge is judged by is what the validation will find.
JudgedFromCache ==
    pc = "judge" =>
        /\ proposal.program \in Candidates
        /\ \A v \in DOMAIN proposal.scores :
              LET k == Key(proposal.program, ValSplit, v)
              IN  k \in DOMAIN cache /\ cache[k] = proposal.scores[v]

JudgeInv == PoolTyped /\ JudgedFromCache

LEMMA ResultsTyped ==
    ASSUME NEW c, NEW split, NEW S \in SUBSET Vals, NEW f \in Results(c, split, S)
    PROVE  f \in Scored /\ DOMAIN f = S
  <1>1. f \in [S -> Scores]  BY DEF Results
  <1> QED  BY <1>1 DEF Scored

LEMMA AddKeepsPool ==
    ASSUME PoolTyped, NEW c \in Candidates, NEW from, NEW f \in Scored,
           AddProgram(c, from, f)
    PROVE  PoolTyped' /\ subscores'[Len(programs')] = f
  BY DEF PoolTyped, AddProgram

LEMMA MixIsCandidate ==
    ASSUME PoolTyped, NEW x \in Mixtures
    PROVE  Mix(x[4]) \in Candidates
  <1>1. PICK ij \in Pairs : x \in {<<ij[1], ij[2], a, s>> : a \in Weighted(ij[1], ij[2]),
                                                          s \in [Preds -> {ij[1], ij[2]}]}
    BY DEF Mixtures
  <1>2. x[4] \in [Preds -> {ij[1], ij[2]}]  BY <1>1
  <1>3. ij[1] \in Pool /\ ij[2] \in Pool  BY DEF Pairs
  <1>4. \A q \in Pool : programs[q] \in [Preds -> Texts]  BY DEF PoolTyped, Pool, Candidates
  <1>5. \A p \in Preds : programs[x[4][p]][p] \in Texts  BY <1>2, <1>3, <1>4
  <1> QED  BY <1>5 DEF Mix, Candidates

LEMMA PutIsFound ==
    ASSUME NEW known, NEW c, NEW split, NEW f, NEW v \in DOMAIN f
    PROVE  LET k == Key(c, split, v)
           IN  k \in DOMAIN Put(known, c, split, f) /\ Put(known, c, split, f)[k] = f[v]
  BY DEF Put, Key

LEMMA ReflectKeepsPool ==
    ASSUME PoolTyped, NEW k \in Pool, NEW p \in Preds, NEW t \in Texts, Reflect(k, p, t)
    PROVE  PoolTyped' /\ pc' # "judge" /\ pc # "judge"
  <1> DEFINE child == [programs[k] EXCEPT ![p] = t]
  <1>1. child \in Candidates
    BY DEF PoolTyped, Pool, Candidates
  <1>2. PICK f : (\E S \in Supports : f \in [S -> Scores]) /\ AddProgram(child, {k}, f)
    BY DEF Reflect
  <1>3. f \in Scored  BY <1>2, MergeAssumption DEF MergeAssumption, Scored
  <1>4. PoolTyped'  BY <1>1, <1>2, <1>3, AddKeepsPool
  <1> QED  BY <1>4 DEF Reflect, Reflecting

LEMMA AcceptAdds ==
    ASSUME JudgeInv, Accept
    PROVE  /\ PoolTyped' /\ pc' # "judge"
           /\ LET added == subscores'[Len(programs')]
              IN  \A v \in DOMAIN added \intersect DOMAIN proposal.scores :
                     added[v] = proposal.scores[v]
  <1>1. PICK S \in Supports : \E f \in Results(proposal.program, ValSplit, S) :
            AddProgram(proposal.program, {proposal.i, proposal.j}, f)
    BY DEF Accept
  <1> PICK f \in Results(proposal.program, ValSplit, S) :
            AddProgram(proposal.program, {proposal.i, proposal.j}, f)
    BY <1>1
  <1>2. f \in Scored /\ DOMAIN f = S
    BY ResultsTyped, MergeAssumption DEF MergeAssumption
  <1>3. proposal.program \in Candidates  BY DEF JudgeInv, JudgedFromCache, Accept
  <1>4. PoolTyped' /\ subscores'[Len(programs')] = f
    BY <1>2, <1>3, AddKeepsPool DEF JudgeInv
  <1>5. \A v \in S \intersect DOMAIN proposal.scores : f[v] = proposal.scores[v]
    BY DEF Results, JudgeInv, JudgedFromCache, Accept
  <1> QED  BY <1>2, <1>4, <1>5 DEF Accept

LEMMA StepJudges ==
    ASSUME JudgeInv, [Next]_vars
    PROVE  JudgeInv'
  <1>1. CASE \E x \in Mixtures : Propose(x[1], x[2], x[3], x[4])
    <2>1. PICK x \in Mixtures : Propose(x[1], x[2], x[3], x[4])  BY <1>1
    <2> DEFINE c == Mix(x[4])
    <2>2. c \in Candidates  BY MixIsCandidate DEF JudgeInv
    <2>3. PICK sample, f :
              /\ proposal' = [i |-> x[1], j |-> x[2], ancestor |-> x[3], program |-> c,
                              sample |-> sample, scores |-> f]
              /\ cache' = Put(cache, c, ValSplit, f)
      BY <2>1 DEF Propose, MergeSplit
    <2>4. UNCHANGED <<shared, programs, subscores>>  BY <2>1 DEF Propose, pool
    <2>5. ValSplit' = ValSplit  BY <2>4 DEF ValSplit
    <2>6. proposal'.program = c /\ proposal'.scores = f  BY <2>3
    <2> HIDE DEF c
    <2>7. \A v \in DOMAIN f : LET k == Key(c, ValSplit, v)
                              IN  k \in DOMAIN cache' /\ cache'[k] = f[v]
      BY <2>3, PutIsFound
    <2>8. JudgedFromCache'  BY <2>2, <2>5, <2>6, <2>7 DEF JudgedFromCache, Key
    <2>9. PoolTyped'  BY <2>4 DEF JudgeInv, PoolTyped
    <2> QED  BY <2>8, <2>9 DEF JudgeInv
  <1>2. CASE Accept
    BY <1>2, AcceptAdds DEF JudgeInv, JudgedFromCache
  <1>3. ASSUME NEW k \in Pool, NEW p \in Preds, NEW t \in Texts, Reflect(k, p, t)
        PROVE  JudgeInv'
    BY <1>3, ReflectKeepsPool DEF JudgeInv, JudgedFromCache
  <1>4. ASSUME NEW x \in Mixtures, RefuseLong(x[1], x[2], x[4])
        PROVE  JudgeInv'
    BY <1>4 DEF RefuseLong, JudgeInv, PoolTyped, JudgedFromCache, pool
  <1>5. CASE FindNothing \/ FindRaises \/ Reject \/ ReflectInVain \/ Restart
    BY <1>5 DEF FindNothing, FindRaises, Reject, ReflectInVain, Restart, JudgeInv, PoolTyped,
                JudgedFromCache, pool
  <1>6. CASE UNCHANGED vars
    BY <1>6 DEF vars, pool, JudgeInv, PoolTyped, JudgedFromCache, ValSplit
  <1> QED  BY <1>1, <1>2, <1>3, <1>4, <1>5, <1>6 DEF Next

LEMMA JudgeInit == ASSUME Init PROVE JudgeInv
  <1>1. PICK f \in [Vals -> Scores] : subscores = <<f>>  BY DEF Init
  <1>2. f \in Scored  BY DEF Scored
  <1>3. [p \in Preds |-> SeedText] \in Candidates
    BY MergeAssumption DEF MergeAssumption, Candidates
  <1> QED  BY <1>1, <1>2, <1>3 DEF Init, JudgeInv, PoolTyped, JudgedFromCache

THEOREM MergesEnterAsJudged == Spec => JudgedAsAdded
  <1>1. Init => JudgeInv  BY JudgeInit
  <1>2. JudgeInv /\ [Next]_vars =>
            [pc = "judge" /\ programs' # programs =>
                LET added == subscores'[Len(programs')]
                IN  \A v \in DOMAIN added \intersect DOMAIN proposal.scores :
                       added[v] = proposal.scores[v]]_vars
    <2> SUFFICES ASSUME JudgeInv, Next, pc = "judge", programs' # programs
                 PROVE  LET added == subscores'[Len(programs')]
                        IN  \A v \in DOMAIN added \intersect DOMAIN proposal.scores :
                               added[v] = proposal.scores[v]
      OBVIOUS
    <2>1. ASSUME NEW x, Build(x[1], x[2], x[4]) PROVE FALSE
      BY <2>1 DEF Build
    <2>2. Accept
      BY <2>1 DEF Next, FindNothing, FindRaises, RefuseLong, Propose, Reject, Reflect,
                  ReflectInVain, Reflecting, Restart, pool
    <2> QED  BY <2>2, AcceptAdds
  <1> QED  BY <1>1, <1>2, StepJudges, PTL DEF Spec, JudgedAsAdded

-----------------------------------------------------------------------------
(* Descent.                                                                  *)

\* Induction over the naturals: a set of numbers that is not empty has a least.
LEMMA LeastOf ==
  ASSUME NEW Bad, Bad \subseteq Nat, Bad # {}
  PROVE  \E n \in Bad : \A m \in Nat : m < n => m \notin Bad
<1>1. PICK b \in Bad : TRUE
  OBVIOUS
<1> DEFINE Below == {0..m : m \in {i \in Bad : i <= b}}
<1>2. IsFiniteSet(0..b) /\ Below \subseteq FiniteSubsetsOf(0..b) /\ Below # {}
  <2>1. IsFiniteSet(0..b)
    BY FS_Interval
  <2>2. ASSUME NEW s \in Below PROVE s \in FiniteSubsetsOf(0..b)
    <3>1. s \subseteq 0..b
      OBVIOUS
    <3> QED
      BY <2>1, <3>1, FS_Subset DEF FiniteSubsetsOf
  <2>3. 0..b \in Below
    OBVIOUS
  <2> QED
    BY <2>1, <2>2, <2>3
<1>3. IsWellFoundedOn(StrictSubsetOrdering(0..b), FiniteSubsetsOf(0..b))
  BY <1>2, FS_StrictSubsetOrderingWellFounded
<1>4. PICK s \in Below : \A t \in Below : <<t, s>> \notin StrictSubsetOrdering(0..b)
  <2> HIDE DEF Below
  <2> QED
    BY <1>2, <1>3, WFMin
<1>5. PICK n \in Bad : n <= b /\ s = 0..n
  OBVIOUS
<1>6. ASSUME NEW m \in Nat, m < n PROVE m \notin Bad
  <2>1. 0..m \subseteq 0..n /\ 0..m # 0..n /\ 0..n \subseteq 0..b /\ m <= b
    BY <1>5, <1>6
  <2>2. <<0..m, 0..n>> \in StrictSubsetOrdering(0..b)
    BY <2>1 DEF StrictSubsetOrdering
  <2> QED
    BY <1>4, <1>5, <2>1, <2>2
<1> QED
  BY <1>5, <1>6

\* A set of programs with all their ancestors; j descends from no program
\* outside one that holds its parents.
Closed(S) == \A r \in S : parents[r] \subseteq S
Clear(i, j) == \E S \in SUBSET Pool : parents[j] \subseteq S /\ Closed(S) /\ i \notin S
Apart(D) == D \subseteq Pool /\ \A i \in D : \A j \in D : Clear(i, j)

\* A program is younger than its parents, and no two that were joined, or are
\* about to be, descend from one another.
Older == DOMAIN parents = Pool /\ \A p \in Pool : parents[p] \subseteq 1..(p - 1)
DescentInv ==
    /\ Older
    /\ \A p \in Pool : Apart(parents[p])
    /\ (pc = "judge" \/ proposal # None) => Apart({proposal.i, proposal.j})

LEMMA PoolIsRange ==
    ASSUME PoolTyped
    PROVE  Len(programs) \in Nat /\ Pool = 1..Len(programs)
  BY DEF PoolTyped, Pool

\* The recursion of the ancestors has a solution, for descent is a closure.
LEMMA AncestorsExist ==
    ASSUME PoolTyped, Older
    PROVE  Ancestors = [p \in Pool |-> parents[p] \union UNION {Ancestors[q] : q \in parents[p]}]
  <1> DEFINE Step(h) == [p \in Pool |-> parents[p] \union UNION {h[q] : q \in parents[p]}]
             Lines(p) == {S \in SUBSET Pool : parents[p] \subseteq S /\ Closed(S)}
             anc == [p \in Pool |-> {q \in Pool : \A S \in Lines(p) : q \in S}]
  <1>1. Ancestors = CHOOSE h : h = Step(h)
    BY DEF Ancestors
  <1>2. \A p \in Pool : parents[p] \subseteq Pool
    BY PoolIsRange DEF Older
  <1>a. \A p \in Pool : \A x : x \in anc[p] <=> x \in Pool /\ \A S \in Lines(p) : x \in S
    OBVIOUS
  <1>b. \A p, S : S \in Lines(p) <=> S \subseteq Pool /\ parents[p] \subseteq S /\ \A r \in S : parents[r] \subseteq S
    BY DEF Closed
  <1>c. \A q \in Pool : Step(anc)[q] = parents[q] \union UNION {anc[r] : r \in parents[q]}
    OBVIOUS
  <1>d. DOMAIN anc = Pool /\ anc = [p \in Pool |-> anc[p]]
    OBVIOUS
  <1> HIDE DEF anc, Lines
  <1>3. ASSUME NEW p \in Pool PROVE parents[p] \subseteq anc[p]
    BY <1>2, <1>3, <1>a, <1>b
  <1>4. ASSUME NEW p \in Pool, NEW r \in anc[p] PROVE parents[r] \subseteq anc[p]
    <2>1. ASSUME NEW x \in parents[r], NEW S \in Lines(p) PROVE x \in S
      BY <1>4, <1>a, <1>b
    <2>2. r \in Pool
      BY <1>4, <1>a
    <2> QED
      BY <1>2, <1>a, <2>1, <2>2
  <1>5. ASSUME NEW p \in Pool PROVE anc[p] = parents[p] \union UNION {anc[q] : q \in parents[p]}
    <2> DEFINE T == parents[p] \union UNION {anc[q] : q \in parents[p]}
    <2>1. ASSUME NEW q \in parents[p] PROVE anc[q] \subseteq anc[p]
      <3>1. q \in Pool
        BY <1>2, <2>1
      <3>2. ASSUME NEW S \in Lines(p) PROVE S \in Lines(q)
        BY <1>b, <2>1
      <3> QED
        BY <1>a, <3>1, <3>2
    <2>2. T \subseteq Pool
      BY <1>2, <1>a
    <2>3. ASSUME NEW r \in T PROVE parents[r] \subseteq T
      <3>1. CASE r \in parents[p]
        <4>1. parents[r] \subseteq anc[r]
          BY <1>2, <1>3, <3>1
        <4> QED
          BY <3>1, <4>1
      <3>2. CASE \E q \in parents[p] : r \in anc[q]
        <4>1. PICK q \in parents[p] : r \in anc[q]
          BY <3>2
        <4>2. parents[r] \subseteq anc[q]
          BY <1>2, <1>4, <4>1
        <4> QED
          BY <4>1, <4>2
      <3> QED
        BY <2>3, <3>1, <3>2
    <2>4. parents[p] \subseteq T
      OBVIOUS
    <2>5. T \in Lines(p)
      <3> HIDE DEF T
      <3> QED
        BY <1>b, <2>2, <2>3, <2>4
    <2>6. anc[p] \subseteq T
      <3> HIDE DEF T
      <3> QED
        BY <1>a, <2>5
    <2>7. T \subseteq anc[p]
      BY <1>3, <2>1
    <2>8. anc[p] = T
      <3> HIDE DEF T
      <3> QED
        BY <2>6, <2>7
    <2> QED
      BY <2>8
  <1>6. anc = Step(anc)
    BY <1>5, <1>d
  <1>7. \E h : h = Step(h)
    BY <1>6
  <1>8. Ancestors = Step(Ancestors)
    <2> HIDE DEF Step
    <2> QED
      BY <1>1, <1>7
  <1> QED
    BY <1>8

\* By induction over the pool: a program's ancestors hold their ancestors.
LEMMA AncestorsClosed ==
    ASSUME PoolTyped, Older, NEW p \in Pool
    PROVE  /\ parents[p] \subseteq Ancestors[p] \intersect Pool
           /\ Closed(Ancestors[p] \intersect Pool)
  <1>1. \A q \in Pool : Ancestors[q] = parents[q] \union UNION {Ancestors[r] : r \in parents[q]}
    BY AncestorsExist
  <1>2. Len(programs) \in Nat /\ Pool = 1..Len(programs)
    BY PoolIsRange
  <1>3. \A q \in Pool : parents[q] \subseteq Pool /\ \A r \in parents[q] : r \in Nat /\ r < q
    BY <1>2 DEF Older
  <1> DEFINE Bad == {q \in Pool : ~Closed(Ancestors[q] \intersect Pool)}
  <1>4. Bad = {}
    <2> SUFFICES ASSUME Bad # {} PROVE FALSE
      OBVIOUS
    <2>1. Bad \subseteq Nat
      BY <1>2
    <2>2. PICK q \in Bad : \A m \in Nat : m < q => m \notin Bad
      <3> HIDE DEF Bad
      <3> QED
        BY <2>1, LeastOf
    <2>3. q \in Pool
      OBVIOUS
    <2>4. ASSUME NEW r \in Ancestors[q] \intersect Pool, NEW x \in parents[r]
          PROVE  x \in Ancestors[q] \intersect Pool
      <3>1. x \in Pool
        BY <1>3
      <3>2. CASE r \in parents[q]
        <4>1. x \in Ancestors[r]
          BY <1>1
        <4> QED
          BY <1>1, <2>3, <3>1, <3>2, <4>1
      <3>3. CASE r \notin parents[q]
        <4>1. PICK y \in parents[q] : r \in Ancestors[y]
          BY <1>1, <2>3, <3>3
        <4>2. y \in Pool /\ y \notin Bad
          BY <1>3, <2>2, <2>3, <4>1
        <4>3. x \in Ancestors[y]
          BY <4>1, <4>2 DEF Closed
        <4> QED
          BY <1>1, <2>3, <3>1, <4>1, <4>3
      <3> QED
        BY <3>2, <3>3
    <2>5. Closed(Ancestors[q] \intersect Pool)
      BY <2>4 DEF Closed
    <2> QED
      BY <2>2, <2>5
  <1>5. Closed(Ancestors[p] \intersect Pool)
    BY <1>4
  <1> QED
    BY <1>1, <1>3, <1>5

\* No program is its own ancestor.
LEMMA ClearOfItself ==
    ASSUME PoolTyped, Older, NEW i \in Pool
    PROVE  Clear(i, i)
  <1>1. Len(programs) \in Nat /\ Pool = 1..Len(programs)
    BY PoolIsRange
  <1>2. parents[i] \subseteq 1..(i - 1) /\ 1..(i - 1) \subseteq Pool /\ i \notin 1..(i - 1)
    BY <1>1 DEF Older
  <1>3. Closed(1..(i - 1))
    <2> SUFFICES ASSUME NEW r \in 1..(i - 1) PROVE parents[r] \subseteq 1..(i - 1)
      BY DEF Closed
    <2>1. parents[r] \subseteq 1..(r - 1)
      BY <1>2 DEF Older
    <2>2. 1..(r - 1) \subseteq 1..(i - 1)
      BY <1>1
    <2> QED
      BY <2>1, <2>2
  <1> QED
    BY <1>2, <1>3 DEF Clear

\* What find_common_ancestor_pair draws are programs of two lines.
LEMMA PairIsApart ==
    ASSUME PoolTyped, Older, NEW ij \in Pairs
    PROVE  Apart({ij[1], ij[2]})
  <1>1. /\ ij[1] \in Pool /\ ij[2] \in Pool
        /\ ij[1] \notin Ancestors[ij[2]] /\ ij[2] \notin Ancestors[ij[1]]
    BY DEF Pairs
  <1>2. ASSUME NEW i \in Pool, NEW j \in Pool, i \notin Ancestors[j] PROVE Clear(i, j)
    <2>1. Ancestors[j] \intersect Pool \in SUBSET Pool /\ i \notin Ancestors[j] \intersect Pool
      BY <1>2
    <2> QED
      BY <2>1, AncestorsClosed DEF Clear
  <1>3. Clear(ij[1], ij[2]) /\ Clear(ij[2], ij[1])
    BY <1>1, <1>2
  <1>4. Clear(ij[1], ij[1]) /\ Clear(ij[2], ij[2])
    BY <1>1, ClearOfItself
  <1> QED
    BY <1>1, <1>3, <1>4 DEF Apart

\* A program more takes no two programs of the pool out of their lines.
LEMMA PoolGrows ==
    ASSUME PoolTyped, Older, NEW c, NEW from, Apart(from), NEW f, AddProgram(c, from, f)
    PROVE  /\ Older'
           /\ \A D : Apart(D) => Apart(D)'
           /\ (\A p \in Pool : Apart(parents[p])) => (\A p \in Pool : Apart(parents[p]))'
  <1> DEFINE n == Len(programs)
  <1>1. n \in Nat /\ Pool = 1..n /\ DOMAIN parents = 1..n /\ DOMAIN programs = 1..n
    BY PoolIsRange DEF Older, Pool
  <1>2. Pool' = 1..(n + 1)
    BY <1>1 DEF AddProgram, PoolTyped, Pool
  <1>3. /\ DOMAIN parents' = 1..(n + 1)
        /\ \A p \in 1..n : parents'[p] = parents[p]
        /\ parents'[n + 1] = from
    BY <1>1 DEF AddProgram
  <1> HIDE DEF n
  <1>4. ASSUME NEW D, Apart(D) PROVE Apart(D)'
    <2>1. ASSUME NEW i \in D, NEW j \in D PROVE Clear(i, j)'
      <3>1. PICK S \in SUBSET Pool : parents[j] \subseteq S /\ Closed(S) /\ i \notin S
        BY <1>4, <2>1 DEF Apart, Clear
      <3>2. j \in 1..n /\ S \subseteq 1..n
        BY <1>1, <1>4 DEF Apart
      <3>3. parents'[j] \subseteq S /\ \A r \in S : parents'[r] \subseteq S
        BY <1>3, <3>1, <3>2 DEF Closed
      <3>4. S \in SUBSET Pool'
        BY <1>1, <1>2, <3>2
      <3> QED
        BY <3>1, <3>3, <3>4 DEF Clear, Closed
    <2>2. D \subseteq Pool'
      BY <1>1, <1>2, <1>4 DEF Apart
    <2> QED
      BY <2>1, <2>2 DEF Apart
  <1>5. Older'
    <2>1. \A p \in 1..n : parents'[p] \subseteq 1..(p - 1)
      BY <1>1, <1>3 DEF Older
    <2>2. from \subseteq 1..((n + 1) - 1)
      BY <1>1 DEF Apart
    <2>3. \A p \in 1..(n + 1) : p \in 1..n \/ p = n + 1
      BY <1>1
    <2>4. \A p \in 1..(n + 1) : parents'[p] \subseteq 1..(p - 1)
      BY <1>3, <2>1, <2>2, <2>3
    <2> QED
      BY <1>2, <1>3, <2>4 DEF Older
  <1>6. ASSUME \A p \in Pool : Apart(parents[p]) PROVE (\A p \in Pool : Apart(parents[p]))'
    <2>1. ASSUME NEW p \in 1..(n + 1) PROVE Apart(parents'[p])
      <3>1. CASE p = n + 1
        BY <1>3, <3>1
      <3>2. CASE p \in 1..n
        BY <1>1, <1>3, <1>6, <3>2
      <3> QED
        BY <1>1, <3>1, <3>2
    <2>2. ASSUME NEW p \in 1..(n + 1), NEW D, D = parents'[p] PROVE (Apart(D))'
      BY <1>4, <2>1, <2>2
    <2> QED
      BY <1>2, <2>2
  <1> QED
    BY <1>4, <1>5, <1>6

LEMMA DescentKept ==
    ASSUME JudgeInv, DescentInv, [Next]_vars
    PROVE  DescentInv'
  <1>0. PoolTyped /\ Older
    BY DEF JudgeInv, DescentInv
  <1>1. ASSUME UNCHANGED <<programs, parents>> PROVE Older' /\ (\A p \in Pool : Apart(parents[p]))' /\ \A D : Apart(D) => Apart(D)'
    BY <1>1 DEF DescentInv, Older, Apart, Clear, Closed, Pool
  <1>2. ASSUME UNCHANGED <<programs, parents, proposal>>, pc' # "judge" \/ pc' = pc PROVE DescentInv'
    BY <1>1, <1>2 DEF DescentInv
  <1>3. CASE \E x \in Mixtures : Propose(x[1], x[2], x[3], x[4])
    <2>1. PICK x \in Mixtures : Propose(x[1], x[2], x[3], x[4])  BY <1>3
    <2>2. PICK ij \in Pairs : x[1] = ij[1] /\ x[2] = ij[2]  BY DEF Mixtures
    <2>3. Apart({x[1], x[2]})  BY <1>0, <2>2, PairIsApart
    <2>4. proposal'.i = x[1] /\ proposal'.j = x[2] /\ UNCHANGED <<programs, parents>>
      BY <2>1 DEF Propose, pool
    <2> QED  BY <1>1, <2>3, <2>4 DEF DescentInv
  <1>4. CASE Accept
    <2>1. PICK f : AddProgram(proposal.program, {proposal.i, proposal.j}, f)
      BY <1>4 DEF Accept
    <2>2. Apart({proposal.i, proposal.j}) /\ pc' = "head" /\ proposal' = None
      BY <1>4 DEF Accept, DescentInv
    <2>3. Older' /\ (\A p \in Pool : Apart(parents[p]))'
      BY <1>0, <2>1, <2>2, PoolGrows DEF DescentInv
    <2> QED  BY <2>2, <2>3 DEF DescentInv
  <1>5. ASSUME NEW k \in Pool, NEW p \in Preds, NEW t \in Texts, Reflect(k, p, t)
        PROVE  DescentInv'
    <2>1. PICK c, f : AddProgram(c, {k}, f)  BY <1>5 DEF Reflect
    <2>2. Apart({k})  BY <1>0, ClearOfItself DEF Apart
    <2>3. Older' /\ (\A q \in Pool : Apart(parents[q]))' /\ \A D : Apart(D) => Apart(D)'
      BY <1>0, <2>1, <2>2, PoolGrows DEF DescentInv
    <2>4. pc # "judge" /\ pc' = "head" /\ UNCHANGED proposal
      BY <1>5 DEF Reflect, Reflecting
    <2> QED  BY <2>3, <2>4 DEF DescentInv
  <1>6. ASSUME NEW x \in Mixtures, RefuseLong(x[1], x[2], x[4]) PROVE DescentInv'
    BY <1>2, <1>6 DEF RefuseLong, pool
  <1>7. CASE FindNothing \/ FindRaises \/ ReflectInVain \/ Restart
    BY <1>2, <1>7 DEF FindNothing, FindRaises, ReflectInVain, Restart, pool
  <1>8. CASE Reject
    <2>1. UNCHANGED <<programs, parents>> /\ pc' = "head" /\ proposal' = None
      BY <1>8 DEF Reject, pool
    <2> QED  BY <1>1, <2>1 DEF DescentInv
  <1>9. CASE UNCHANGED vars
    BY <1>2, <1>9 DEF vars, pool
  <1> QED  BY <1>3, <1>4, <1>5, <1>6, <1>7, <1>8, <1>9 DEF Next

(***************************************************************************)
(* A merge joins two lines of descent: whatever was merged before, neither  *)
(* parent of a merge, accepted or pending, descends from the other.         *)
(***************************************************************************)
THEOREM LinesAreJoined == Spec => []MergesJoinLines
  <1>1. Init => JudgeInv /\ DescentInv
    <2> SUFFICES ASSUME Init PROVE DescentInv
      BY JudgeInit
    <2>1. Pool = {1} /\ parents[1] = {} /\ DOMAIN parents = {1}
      BY DEF Init, Pool
    <2>2. Apart({})
      BY DEF Apart
    <2> QED  BY <2>1, <2>2 DEF Init, DescentInv, Older
  <1>2. JudgeInv /\ DescentInv /\ [Next]_vars => JudgeInv' /\ DescentInv'
    BY StepJudges, DescentKept
  <1>3. JudgeInv /\ DescentInv => MergesJoinLines
    <2> SUFFICES ASSUME JudgeInv, DescentInv PROVE MergesJoinLines
      OBVIOUS
    <2>1. ASSUME NEW D, Apart(D), NEW i \in D, NEW j \in D
          PROVE  j \in Pool /\ ~ \A S \in SUBSET Pool :
                    (parents[j] \subseteq S /\ \A r \in S : parents[r] \subseteq S) => i \in S
      BY <2>1 DEF Apart, Clear, Closed
    <2>2. \A p \in Pool : Apart(parents[p])
      BY DEF DescentInv
    <2>3. proposal # None => Apart({proposal.i, proposal.j})
      BY DEF DescentInv
    <2> DEFINE anc == [p \in Pool |->
                         {q \in Pool : \A S \in SUBSET Pool :
                            (parents[p] \subseteq S /\ \A r \in S : parents[r] \subseteq S) => q \in S}]
               joined == {parents[p] : p \in Pool} \union
                         (IF proposal = None THEN {} ELSE {{proposal.i, proposal.j}})
    <2>4. ASSUME NEW D, Apart(D), NEW i \in D, NEW j \in D PROVE i \notin anc[j]
      BY <2>1, <2>4
    <2>5. \A pair \in joined : Apart(pair)
      BY <2>2, <2>3
    <2> HIDE DEF anc, joined
    <2>6. \A pair \in joined : \A i \in pair, j \in pair : i \notin anc[j]
      BY <2>4, <2>5
    <2> QED  BY <2>6 DEF MergesJoinLines, anc, joined
  <1> QED  BY <1>1, <1>2, <1>3, PTL DEF Spec
=============================================================================
