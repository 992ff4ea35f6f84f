--------------------------- MODULE GEPAState_proofs ---------------------------
(***************************************************************************)
(* The incremental frontiers of GEPAState are exact, and their outputs are *)
(* retained, for every set of examples, objectives, scores and evaluation  *)
(* policies, as long as no evaluator returns float("-inf") itself. That    *)
(* frontiers only improve and discoveries are in order holds even then.    *)
(***************************************************************************)
EXTENDS GEPAState, TLAPS, FiniteSetTheorems

\* The pool as the proofs need it.
PoolShape ==
    /\ pool = [i \in 1..Len(pool) |-> pool[i]]
    /\ Len(pool) \in Nat \ {0}
    /\ \A i \in 1..Len(pool) : pool[i].eval \in Evaluations

\* What makes FrontExact inductive: a recorded score belongs to somebody, and
\* nothing recorded on an example lacks its retained output.
FrontInv ==
    /\ PoolShape
    /\ KeysAgree
    /\ FrontExact
    /\ \A k \in DOMAIN front : front[k] # {}
    /\ TrackOutputs => \A k \in DOMAIN best : Kind(k) = "val" => k \in DOMAIN bestOutputs

LEMMA EvaluationScores ==
  ASSUME NegInf \notin Scores, NEW e \in Evaluations, NEW k \in DOMAIN e
  PROVE  k \in Keys /\ e[k] \in Int /\ e[k] > NegInf
<1>1. k \in Keys /\ e[k] \in Scores
  BY EvaluationsAssumption
<1>2. e[k] \in Int /\ NegInf \in Int /\ NegInf <= e[k] /\ NegInf # e[k]
  BY <1>1, ScoresAssumption
<1> QED
  BY <1>1, <1>2

\* The seed's frontiers are the seed alone.
LEMMA InitInv ==
  ASSUME Init
  PROVE  FrontInv
<1>1. PICK e \in Evaluations :
        /\ pool = <<[eval |-> e, discovery |-> 0, cost |-> Cardinality(ValKeys(e))]>>
        /\ best = [k \in FrontKeys(e) |-> e[k]]
        /\ front = [k \in FrontKeys(e) |-> {1}]
        /\ bestOutputs = [k \in {v \in ValKeys(e) : TrackOutputs} |-> <<1>>]
  BY DEF Init
<1>2. Len(pool) = 1 /\ DOMAIN pool = {1} /\ pool[1].eval = e
  BY <1>1
<1>3. PoolShape
  BY <1>1, <1>2 DEF PoolShape
<1>4. \A k : EvaluatedOn(k) = IF k \in FrontKeys(e) THEN {1} ELSE {}
  BY <1>2 DEF EvaluatedOn
<1>5. \A k \in FrontKeys(e) : k \in Keys /\ e[k] \in Int
  BY EvaluationsAssumption, ScoresAssumption DEF FrontKeys
<1>6. \A k \in FrontKeys(e) : Argmax(k) = {1}
  BY <1>2, <1>4, <1>5 DEF Argmax, ScoreOn
<1>7. FrontExact
  BY <1>1, <1>2, <1>4, <1>5, <1>6 DEF FrontExact, ScoreOn
<1>8. TrackOutputs => \A k \in DOMAIN best : Kind(k) = "val" => k \in DOMAIN bestOutputs
  BY <1>1 DEF FrontKeys, ValKeys
<1> QED
  BY <1>1, <1>3, <1>7, <1>8 DEF FrontInv, KeysAgree

\* A recorded score is attained and bounds every score of the pool.
LEMMA RecordedIsMax ==
  ASSUME FrontInv, NEW k \in DOMAIN front
  PROVE  /\ best[k] \in Int
         /\ EvaluatedOn(k) # {}
         /\ \A j \in EvaluatedOn(k) : ScoreOn(j, k) \in Int /\ ScoreOn(j, k) <= best[k]
         /\ front[k] = {j \in EvaluatedOn(k) : ScoreOn(j, k) = best[k]}
<1>1. \A j \in EvaluatedOn(k) : ScoreOn(j, k) \in Int
  BY EvaluationsAssumption, ScoresAssumption DEF FrontInv, PoolShape, EvaluatedOn, ScoreOn, FrontKeys
<1>2. front[k] = Argmax(k) /\ \A i \in front[k] : best[k] = ScoreOn(i, k)
  BY DEF FrontInv, FrontExact
<1>3. PICK i \in front[k] : TRUE
  BY DEF FrontInv
<1>4. i \in EvaluatedOn(k) /\ best[k] = ScoreOn(i, k) /\ \A j \in EvaluatedOn(k) : ScoreOn(j, k) <= best[k]
  BY <1>2, <1>3 DEF Argmax
<1> QED
  BY <1>1, <1>2, <1>4 DEF Argmax

\* Without -inf scores, only a recorded key can tie.
LEMMA TiesAreRecorded ==
  ASSUME NegInf \notin Scores, FrontInv, NEW e \in Evaluations,
         NEW ks, ks \subseteq DOMAIN e, NEW k \in Ties(e, ks)
  PROVE  k \in DOMAIN best
<1>1. k \in DOMAIN e /\ e[k] = Prev(k)
  BY DEF Ties
<1> QED
  BY <1>1, EvaluationScores DEF Prev

LEMMA NoOutputFaults ==
  ASSUME NegInf \notin Scores, FrontInv, NEW e \in Evaluations
  PROVE  OutputFaults(e) = {}
<1> SUFFICES ASSUME NEW k \in Ties(e, ValKeys(e)), TrackOutputs, k \notin DOMAIN bestOutputs
             PROVE  FALSE
  BY DEF OutputFaults
<1>1. k \in DOMAIN best
  BY TiesAreRecorded DEF ValKeys
<1>2. Kind(k) = "val"
  BY DEF Ties, ValKeys
<1> QED
  BY <1>1, <1>2 DEF FrontInv

\* One more program: who is evaluated on a key afterwards, and how it scored.
LEMMA PoolGrows ==
  ASSUME PoolShape, NEW e \in Evaluations, NEW n, Enlist(e, n),
         NEW idx, idx = Len(pool) + 1
  PROVE  /\ PoolShape'
         /\ idx \notin DOMAIN pool
         /\ \A k : EvaluatedOn(k)' = EvaluatedOn(k) \union (IF k \in FrontKeys(e) THEN {idx} ELSE {})
         /\ \A k : \A j \in EvaluatedOn(k) : ScoreOn(j, k)' = ScoreOn(j, k)
         /\ \A k : ScoreOn(idx, k)' = e[k]
<1> DEFINE r == [eval |-> e, discovery |-> Discovery(n), cost |-> n]
<1>1. pool' = Append(pool, r)
  BY DEF Enlist
<1>2. DOMAIN pool = 1..Len(pool) /\ Len(pool) \in Nat
  BY DEF PoolShape
<1>3. DOMAIN pool' = 1..(Len(pool) + 1) /\ Len(pool') = Len(pool) + 1
  BY <1>1, <1>2 DEF PoolShape
<1>4. (\A j \in DOMAIN pool : pool'[j] = pool[j]) /\ pool'[idx] = r
  BY <1>1, <1>2 DEF PoolShape
<1>5. PoolShape'
  <2>1. pool' = [i \in 1..(Len(pool) + 1) |-> pool'[i]]
    BY <1>1, <1>2
  <2>2. \A i \in 1..(Len(pool) + 1) : pool'[i].eval \in Evaluations
    BY <1>2, <1>4 DEF PoolShape
  <2> QED
    BY <1>2, <1>3, <2>1, <2>2 DEF PoolShape
<1>6. r.eval = e
  OBVIOUS
<1> HIDE DEF r
<1>7. \A k : EvaluatedOn(k)' = EvaluatedOn(k) \union (IF k \in FrontKeys(e) THEN {idx} ELSE {})
  BY <1>2, <1>3, <1>4, <1>6 DEF EvaluatedOn, FrontKeys
<1>8. (\A k : \A j \in EvaluatedOn(k) : ScoreOn(j, k)' = ScoreOn(j, k)) /\ \A k : ScoreOn(idx, k)' = e[k]
  BY <1>4, <1>6 DEF ScoreOn, EvaluatedOn
<1> QED
  BY <1>2, <1>5, <1>7, <1>8

\* The step at one key: the new program wins it, joins it, or leaves it alone.
LEMMA KeyStep ==
  ASSUME NegInf \notin Scores, FrontInv, NEW e \in Evaluations, NEW n,
         Enlist(e, n), UpdateFronts(e, Len(pool) + 1, FrontKeys(e)),
         NEW idx, idx = Len(pool) + 1, NEW k
  PROVE  /\ k \in DOMAIN front' <=> (k \in Keys /\ EvaluatedOn(k)' # {})
         /\ k \in DOMAIN front' => /\ front'[k] = Argmax(k)'
                                   /\ \A i \in front'[k] : best'[k] = ScoreOn(i, k)'
                                   /\ front'[k] # {}
<1> DEFINE ks == FrontKeys(e)
<1>1. PoolShape
  BY DEF FrontInv
<1>2. /\ idx \notin DOMAIN pool
      /\ EvaluatedOn(k)' = EvaluatedOn(k) \union (IF k \in ks THEN {idx} ELSE {})
      /\ \A j \in EvaluatedOn(k) : ScoreOn(j, k)' = ScoreOn(j, k)
      /\ ScoreOn(idx, k)' = e[k]
  BY <1>1, PoolGrows
<1>3. idx \notin EvaluatedOn(k)
  BY <1>2 DEF EvaluatedOn
<1>4. DOMAIN best = DOMAIN front
  BY DEF FrontInv, KeysAgree
<1>5. k \in DOMAIN front <=> (k \in Keys /\ EvaluatedOn(k) # {})
  BY DEF FrontInv, FrontExact
<1>6. k \in ks => k \in Keys /\ e[k] \in Int /\ e[k] > NegInf
  BY EvaluationScores DEF FrontKeys
<1>7. Argmax(k)' = {i \in EvaluatedOn(k)' : \A j \in EvaluatedOn(k)' : ScoreOn(j, k)' <= ScoreOn(i, k)'}
  BY DEF Argmax
<1>8. /\ DOMAIN front' = DOMAIN front \union Gains(e, ks) \union Ties(e, ks)
      /\ k \in Gains(e, ks) => front'[k] = {idx} /\ best'[k] = e[k]
      /\ k \in Ties(e, ks) /\ k \notin Gains(e, ks) /\ k \in DOMAIN front =>
            front'[k] = front[k] \union {idx} /\ best'[k] = best[k]
      /\ k \in DOMAIN front /\ k \notin Gains(e, ks) \union Ties(e, ks) =>
            front'[k] = front[k] /\ best'[k] = best[k]
  BY <1>4 DEF UpdateFronts
<1>9. CASE k \in Gains(e, ks)
  <2>1. k \in ks /\ e[k] > Prev(k)
    BY <1>9 DEF Gains
  <2>2. \A j \in EvaluatedOn(k) : ScoreOn(j, k) \in Int /\ ScoreOn(j, k) < e[k]
    <3>1. CASE k \in DOMAIN front
      BY <2>1, <3>1, <1>4, <1>6, RecordedIsMax DEF Prev
    <3>2. CASE k \notin DOMAIN front
      BY <2>1, <3>2, <1>5, <1>6
    <3> QED
      BY <3>1, <3>2
  <2>3. EvaluatedOn(k)' = EvaluatedOn(k) \union {idx}
    BY <1>2, <2>1
  <2>4. Argmax(k)' = {idx}
    <3>1. \A j \in EvaluatedOn(k) : ScoreOn(j, k)' \in Int /\ ScoreOn(j, k)' < ScoreOn(idx, k)'
      BY <1>2, <2>2
    <3>2. ScoreOn(idx, k)' \in Int
      BY <1>2, <1>6, <2>1
    <3> QED
      BY <1>7, <2>3, <3>1, <3>2
  <2> QED
    BY <1>2, <1>6, <1>8, <1>9, <2>1, <2>3, <2>4
<1>10. CASE k \in Ties(e, ks)
  <2>1. k \in ks /\ e[k] = Prev(k)
    BY <1>10 DEF Ties
  <2>2. k \in DOMAIN front
    BY <1>4, <1>10, TiesAreRecorded DEF FrontKeys
  <2>3. e[k] = best[k]
    BY <1>4, <2>1, <2>2 DEF Prev
  <2>4. k \notin Gains(e, ks)
    BY <1>6, <2>1 DEF Gains
  <2>5. EvaluatedOn(k)' = EvaluatedOn(k) \union {idx}
    BY <1>2, <2>1
  <2>6. /\ \A j \in EvaluatedOn(k) : ScoreOn(j, k) \in Int /\ ScoreOn(j, k) <= e[k]
        /\ front[k] = {j \in EvaluatedOn(k) : ScoreOn(j, k) = e[k]}
    BY <2>2, <2>3, RecordedIsMax
  <2>7. Argmax(k)' = {i \in EvaluatedOn(k)' : ScoreOn(i, k)' = e[k]}
    <3>1. \A i \in EvaluatedOn(k)' : ScoreOn(i, k)' \in Int /\ ScoreOn(i, k)' <= e[k]
      BY <1>2, <1>6, <2>1, <2>5, <2>6
    <3>2. idx \in EvaluatedOn(k)' /\ ScoreOn(idx, k)' = e[k]
      BY <1>2, <2>5
    <3>3. ASSUME NEW i \in EvaluatedOn(k)', ScoreOn(i, k)' = e[k]
          PROVE  \A j \in EvaluatedOn(k)' : ScoreOn(j, k)' <= ScoreOn(i, k)'
      BY <3>1, <3>3
    <3>4. ASSUME NEW i \in EvaluatedOn(k)',
                 \A j \in EvaluatedOn(k)' : ScoreOn(j, k)' <= ScoreOn(i, k)'
          PROVE  ScoreOn(i, k)' = e[k]
      <4>1. e[k] <= ScoreOn(i, k)' /\ ScoreOn(i, k)' <= e[k]
        BY <3>1, <3>2, <3>4
      <4>2. e[k] \in Int /\ ScoreOn(i, k)' \in Int
        BY <1>6, <2>1, <3>1
      <4> QED
        BY <4>1, <4>2
    <3> QED
      BY <1>7, <3>3, <3>4, Zenon
  <2>8. front'[k] = Argmax(k)'
    BY <1>2, <1>8, <1>10, <2>2, <2>4, <2>5, <2>6, <2>7
  <2>9. best'[k] = e[k] /\ front'[k] # {} /\ k \in DOMAIN front'
    BY <1>8, <1>10, <2>2, <2>3, <2>4
  <2> QED
    BY <1>6, <2>1, <2>5, <2>7, <2>8, <2>9
<1>11. CASE k \notin Gains(e, ks) \union Ties(e, ks) /\ k \in ks
  <2>1. k \in DOMAIN front /\ e[k] < best[k]
    BY <1>4, <1>6, <1>11, RecordedIsMax DEF Gains, Ties, Prev
  <2>2. EvaluatedOn(k)' = EvaluatedOn(k) \union {idx}
    BY <1>2, <1>11
  <2>3. /\ best[k] \in Int
        /\ \A j \in EvaluatedOn(k) : ScoreOn(j, k) \in Int /\ ScoreOn(j, k) <= best[k]
        /\ front[k] = {j \in EvaluatedOn(k) : ScoreOn(j, k) = best[k]}
    BY <2>1, RecordedIsMax
  <2>4. front[k] # {}
    BY <2>1 DEF FrontInv
  <2>5. PICK w \in EvaluatedOn(k) : ScoreOn(w, k) = best[k]
    BY <2>3, <2>4
  <2>6. Argmax(k)' = front[k]
    <3>1. \A i \in EvaluatedOn(k)' : ScoreOn(i, k)' \in Int /\ ScoreOn(i, k)' <= best[k]
      BY <1>2, <1>6, <1>11, <2>1, <2>2, <2>3
    <3>2. w \in EvaluatedOn(k)' /\ ScoreOn(w, k)' = best[k]
      BY <1>2, <2>2, <2>5
    <3>3. Argmax(k)' = {i \in EvaluatedOn(k)' : ScoreOn(i, k)' = best[k]}
      BY <1>7, <2>3, <3>1, <3>2
    <3>4. \A i \in EvaluatedOn(k)' : ScoreOn(i, k)' = best[k] => i \in EvaluatedOn(k)
      BY <1>2, <1>6, <1>11, <2>1, <2>2, <2>3
    <3> QED
      BY <1>2, <2>2, <2>3, <3>3, <3>4
  <2>7. front'[k] = front[k] /\ best'[k] = best[k] /\ k \in DOMAIN front'
    BY <1>8, <1>11, <2>1
  <2>8. \A i \in front[k] : best[k] = ScoreOn(i, k)'
    BY <1>2, <2>3
  <2> QED
    BY <1>6, <1>11, <2>2, <2>4, <2>6, <2>7, <2>8
<1>12. CASE k \notin ks
  <2>1. k \notin Gains(e, ks) \union Ties(e, ks)
    BY <1>12 DEF Gains, Ties
  <2>2. EvaluatedOn(k)' = EvaluatedOn(k)
    BY <1>2, <1>12
  <2>3. Argmax(k)' = Argmax(k)
    BY <1>2, <1>7, <2>2 DEF Argmax
  <2>4. k \in DOMAIN front =>
          /\ front[k] = Argmax(k) /\ front[k] # {}
          /\ \A i \in front[k] : best[k] = ScoreOn(i, k) /\ i \in EvaluatedOn(k)
    BY DEF FrontInv, FrontExact, Argmax
  <2> QED
    BY <1>2, <1>5, <1>8, <2>1, <2>2, <2>3, <2>4
<1> QED
  BY <1>9, <1>10, <1>11, <1>12

LEMMA AddKeepsInv ==
  ASSUME NegInf \notin Scores, FrontInv, NEW e \in Evaluations, NEW n, AddProgram(e, n)
  PROVE  FrontInv'
<1>0. PICK idx : idx = Len(pool) + 1
  OBVIOUS
<1>1. Enlist(e, n) /\ UpdateFronts(e, Len(pool) + 1, FrontKeys(e))
  BY DEF AddProgram
<1>2. PoolShape'
  BY <1>1, <1>0, PoolGrows DEF FrontInv
<1>3. FrontExact'
  <2>1. DOMAIN front' = {k \in Keys : EvaluatedOn(k)' # {}}
    BY <1>1, <1>0, KeyStep
  <2>2. \A k \in DOMAIN front' : front'[k] = Argmax(k)' /\ \A i \in front'[k] : best'[k] = ScoreOn(i, k)'
    BY <1>1, <1>0, KeyStep
  <2> QED
    BY <2>1, <2>2 DEF FrontExact
<1>4. \A k \in DOMAIN front' : front'[k] # {}
  BY <1>1, <1>0, KeyStep
<1>5. KeysAgree'
  <2>1. Ties(e, FrontKeys(e)) \subseteq DOMAIN best
    BY TiesAreRecorded DEF FrontKeys
  <2> QED
    BY <1>1, <2>1 DEF UpdateFronts, KeysAgree, FrontInv
<1>6. ASSUME TrackOutputs, NEW k \in DOMAIN best', Kind(k) = "val"
      PROVE  k \in DOMAIN bestOutputs'
  <2>1. DOMAIN bestOutputs' = DOMAIN bestOutputs \union Gains(e, ValKeys(e))
    BY <1>6 DEF AddProgram, UpdateBestOutputs
  <2>2. CASE k \in DOMAIN best
    BY <1>6, <2>1, <2>2 DEF FrontInv
  <2>3. CASE k \in Gains(e, FrontKeys(e))
    BY <1>6, <2>1, <2>3 DEF Gains, FrontKeys, ValKeys
  <2> QED
    BY <1>1, <2>2, <2>3 DEF UpdateFronts
<1> QED
  BY <1>2, <1>3, <1>4, <1>5, <1>6 DEF FrontInv

\* A step that changes no frontier keeps the invariant.
LEMMA QuietKeepsInv ==
  ASSUME FrontInv, UNCHANGED <<pool, best, front, bestOutputs>>
  PROVE  FrontInv'
<1>1. (\A k : EvaluatedOn(k)' = EvaluatedOn(k)) /\ (\A k : \A i : ScoreOn(i, k)' = ScoreOn(i, k))
  BY DEF EvaluatedOn, ScoreOn
<1>2. \A k : Argmax(k)' = Argmax(k)
  BY <1>1 DEF Argmax
<1>3. PoolShape' /\ KeysAgree'
  BY DEF FrontInv, PoolShape, KeysAgree
<1>4. FrontExact'
  BY <1>1, <1>2 DEF FrontInv, FrontExact
<1> QED
  BY <1>3, <1>4 DEF FrontInv

\* Every frontier is exactly the argmax of the whole pool and every recorded
\* score is attained, whatever examples each program was evaluated on, provided
\* the evaluator never returns -inf.
THEOREM FrontsAreExact ==
  ASSUME NegInf \notin Scores
  PROVE  Spec => [](FrontExact /\ KeysAgree)
<1>1. Init => FrontInv
  BY InitInv
<1>2. FrontInv /\ [Next]_vars => FrontInv'
  <2> SUFFICES ASSUME FrontInv, [Next]_vars PROVE FrontInv'
    OBVIOUS
  <2>1. ASSUME NEW n \in 1..MaxEvals, IncrementEvals(n) PROVE FrontInv'
    BY <2>1, QuietKeepsInv DEF IncrementEvals
  <2>2. ASSUME NEW e \in Evaluations, NEW n, AddProgram(e, n) PROVE FrontInv'
    BY <2>2, AddKeepsInv
  <2>3. ASSUME NEW e \in Evaluations, NEW fault \in OutputFaults(e) PROVE FALSE
    BY <2>3, NoOutputFaults
  <2>4. CASE UNCHANGED vars
    BY <2>4, QuietKeepsInv DEF vars
  <2> QED
    BY <2>1, <2>2, <2>3, <2>4 DEF Next
<1>3. FrontInv => FrontExact /\ KeysAgree
  BY DEF FrontInv
<1> QED
  BY <1>1, <1>2, <1>3, PTL DEF Spec

-----------------------------------------------------------------------------
(* What no score can spoil, -inf included: frontiers only improve.         *)

ImproveInv ==
    /\ PoolShape
    /\ \A k \in DOMAIN best : best[k] \in Int

\* What the update of any set of an evaluation's keys does to the frontiers.
LEMMA UpdateImproves ==
  ASSUME ImproveInv, NEW e \in Evaluations, NEW n, Enlist(e, n),
         NEW ks, ks \subseteq DOMAIN e, UpdateFronts(e, Len(pool) + 1, ks)
  PROVE  /\ ImproveInv'
         /\ DOMAIN front \subseteq DOMAIN front'
         /\ \A k \in DOMAIN best : best'[k] >= best[k]
         /\ \A k \in DOMAIN front : front'[k] \ front[k] \subseteq {Len(pool')} \ DOMAIN pool
<1>1. /\ PoolShape'
      /\ Len(pool) + 1 \notin DOMAIN pool
  BY PoolGrows DEF ImproveInv
<1>2. Len(pool') = Len(pool) + 1
  BY DEF Enlist, ImproveInv, PoolShape
<1>3. \A k \in ks : e[k] \in Int
  BY EvaluationsAssumption, ScoresAssumption
<1>4. /\ DOMAIN best' = DOMAIN best \union Gains(e, ks)
      /\ \A k \in DOMAIN best' : best'[k] = IF k \in Gains(e, ks) THEN e[k] ELSE best[k]
  BY DEF UpdateFronts
<1>5. \A k \in DOMAIN best' : best'[k] \in Int
  BY <1>3, <1>4 DEF Gains, ImproveInv
<1>6. ASSUME NEW k \in DOMAIN best
      PROVE  best'[k] >= best[k]
  <2>1. CASE k \in Gains(e, ks)
    BY <1>3, <1>4, <2>1 DEF Gains, Prev, ImproveInv
  <2>2. CASE k \notin Gains(e, ks)
    BY <1>4, <2>2 DEF ImproveInv
  <2> QED
    BY <2>1, <2>2
<1>7. /\ DOMAIN front \subseteq DOMAIN front'
      /\ \A k \in DOMAIN front : front'[k] \subseteq front[k] \union {Len(pool) + 1}
  BY DEF UpdateFronts
<1> QED
  BY <1>1, <1>2, <1>5, <1>6, <1>7 DEF ImproveInv

\* Whatever the scores, a displaced program never returns to a frontier and no
\* frontier score drops, in the updates cut short by an exception as well.
THEOREM FrontsOnlyImprove == Spec => FrontOnlyImproves
<1> DEFINE Improves ==
             /\ DOMAIN front \subseteq DOMAIN front'
             /\ \A k \in DOMAIN best : best'[k] >= best[k]
             /\ \A k \in DOMAIN front : front'[k] \ front[k] \subseteq {Len(pool')} \ DOMAIN pool
<1>1. Init => ImproveInv
  <2> SUFFICES ASSUME Init PROVE ImproveInv
    OBVIOUS
  <2>1. PoolShape
    BY InitInv DEF FrontInv
  <2>2. \A k \in DOMAIN best : best[k] \in Int
    BY EvaluationsAssumption, ScoresAssumption DEF Init, FrontKeys
  <2> QED
    BY <2>1, <2>2 DEF ImproveInv
<1>2. ImproveInv /\ [Next]_vars => ImproveInv' /\ Improves
  <2> SUFFICES ASSUME ImproveInv, [Next]_vars PROVE ImproveInv' /\ Improves
    OBVIOUS
  <2>1. CASE UNCHANGED <<pool, best, front>>
    BY <2>1 DEF ImproveInv, PoolShape
  <2>2. ASSUME NEW n \in 1..MaxEvals, IncrementEvals(n) PROVE UNCHANGED <<pool, best, front>>
    BY <2>2 DEF IncrementEvals
  <2>3. ASSUME NEW e \in Evaluations, NEW n, AddProgram(e, n) PROVE ImproveInv' /\ Improves
    BY <2>3, UpdateImproves DEF AddProgram, FrontKeys
  <2>4. ASSUME NEW e \in Evaluations, NEW n, NEW fault \in OutputFaults(e),
               NEW done \in SUBSET (ValKeys(e) \ OutputFaults(e)),
               AddProgramFaults(e, n, done, fault)
        PROVE  ImproveInv' /\ Improves
    <3>1. done \union {fault} \subseteq DOMAIN e
      BY DEF OutputFaults, Ties, ValKeys
    <3> QED
      BY <2>4, <3>1, UpdateImproves DEF AddProgramFaults
  <2>5. CASE UNCHANGED vars
    BY <2>1, <2>5 DEF vars
  <2> HIDE DEF Improves
  <2> QED
    BY <2>1, <2>2, <2>3, <2>4, <2>5 DEF Next
<1> QED
  BY <1>1, <1>2, PTL DEF Spec, FrontOnlyImproves

-----------------------------------------------------------------------------
(* The retained outputs are those of the per-example frontiers.            *)

OutInv ==
    /\ FrontInv
    /\ BestOutputsMatchFront
    /\ \A k \in DOMAIN bestOutputs : bestOutputs[k] \in Seq(Nat) /\ IsFiniteSet(front[k])

LEMMA AppendAdds ==
  ASSUME NEW s \in Seq(Nat), NEW x \in Nat
  PROVE  /\ Len(Append(s, x)) = Len(s) + 1
         /\ Append(s, x) \in Seq(Nat)
         /\ {Append(s, x)[j] : j \in DOMAIN Append(s, x)} = {s[j] : j \in DOMAIN s} \union {x}
<1> DEFINE t == Append(s, x)
<1>1. Len(t) = Len(s) + 1 /\ t \in Seq(Nat)
  OBVIOUS
<1>2. DOMAIN s = 1..Len(s) /\ Len(s) \in Nat /\ DOMAIN t = 1..(Len(s) + 1)
  OBVIOUS
<1>3. (\A j \in DOMAIN s : t[j] = s[j]) /\ t[Len(s) + 1] = x
  OBVIOUS
<1> HIDE DEF t
<1>4. DOMAIN t = DOMAIN s \union {Len(s) + 1}
  BY <1>2
<1>5. {t[j] : j \in DOMAIN t} = {s[j] : j \in DOMAIN s} \union {x}
  BY <1>3, <1>4, Zenon
<1> QED
  BY <1>1, <1>5 DEF t

LEMMA AddKeepsOutputs ==
  ASSUME NegInf \notin Scores, OutInv, NEW e \in Evaluations, NEW n, AddProgram(e, n)
  PROVE  OutInv'
<1> DEFINE idx == Len(pool) + 1
           fs == FrontKeys(e)
           vs == {k \in ValKeys(e) : TrackOutputs}
<1>1. FrontInv' /\ FrontInv
  BY AddKeepsInv DEF OutInv
<1>2. UpdateFronts(e, idx, fs) /\ UpdateBestOutputs(e, idx, vs)
  BY DEF AddProgram
<1>3. idx \in Nat /\ \A k \in DOMAIN front : idx \notin front[k]
  BY <1>1 DEF FrontInv, FrontExact, Argmax, EvaluatedOn, PoolShape
<1>4. Ties(e, fs) \subseteq DOMAIN front /\ DOMAIN best = DOMAIN front
  BY <1>1, TiesAreRecorded DEF FrontKeys, FrontInv, KeysAgree
<1>5. /\ Gains(e, vs) = {k \in Gains(e, fs) : Kind(k) = "val" /\ TrackOutputs}
      /\ Ties(e, vs) = {k \in Ties(e, fs) : Kind(k) = "val" /\ TrackOutputs}
  BY DEF Gains, Ties, ValKeys, FrontKeys
<1>6. DOMAIN bestOutputs = {k \in DOMAIN front : Kind(k) = "val" /\ TrackOutputs}
  BY DEF OutInv, BestOutputsMatchFront
<1>7. /\ DOMAIN front' = DOMAIN front \union Gains(e, fs) \union Ties(e, fs)
      /\ DOMAIN bestOutputs' = DOMAIN bestOutputs \union Gains(e, vs)
  BY <1>2 DEF UpdateFronts, UpdateBestOutputs
<1>8. DOMAIN bestOutputs' = {k \in DOMAIN front' : Kind(k) = "val" /\ TrackOutputs}
  BY <1>4, <1>5, <1>6, <1>7
<1>9. ASSUME NEW k \in DOMAIN bestOutputs'
      PROVE  /\ front'[k] = {bestOutputs'[k][j] : j \in DOMAIN bestOutputs'[k]}
             /\ Len(bestOutputs'[k]) = Cardinality(front'[k])
             /\ bestOutputs'[k] \in Seq(Nat)
             /\ IsFiniteSet(front'[k])
  <2>1. k \in DOMAIN front' /\ Kind(k) = "val" /\ TrackOutputs
    BY <1>8
  <2>2. CASE k \in Gains(e, vs)
    <3>1. front'[k] = {idx} /\ bestOutputs'[k] = <<idx>>
      BY <1>2, <1>5, <1>7, <2>1, <2>2 DEF UpdateFronts, UpdateBestOutputs
    <3>2. IsFiniteSet({idx}) /\ Cardinality({idx}) = 1
      BY FS_Singleton
    <3> HIDE DEF idx
    <3> QED
      BY <1>3, <3>1, <3>2
  <2>3. CASE k \in Ties(e, vs) /\ k \notin Gains(e, vs)
    <3>1. k \in DOMAIN front /\ k \in DOMAIN bestOutputs
      BY <1>4, <1>5, <1>6, <2>1, <2>3
    <3>2. front'[k] = front[k] \union {idx} /\ bestOutputs'[k] = Append(bestOutputs[k], idx)
      BY <1>2, <1>5, <1>7, <2>1, <2>3, <3>1 DEF UpdateFronts, UpdateBestOutputs
    <3>3. /\ front[k] = {bestOutputs[k][j] : j \in DOMAIN bestOutputs[k]}
          /\ Len(bestOutputs[k]) = Cardinality(front[k])
          /\ bestOutputs[k] \in Seq(Nat) /\ IsFiniteSet(front[k])
      BY <3>1 DEF OutInv, BestOutputsMatchFront
    <3>4. idx \notin front[k]
      BY <1>3, <3>1
    <3> HIDE DEF idx
    <3>5. /\ IsFiniteSet(front[k] \union {idx})
          /\ Cardinality(front[k] \union {idx}) = Cardinality(front[k]) + 1
      BY <3>3, <3>4, FS_AddElement
    <3>6. /\ Len(bestOutputs'[k]) = Len(bestOutputs[k]) + 1
          /\ bestOutputs'[k] \in Seq(Nat)
          /\ {bestOutputs'[k][j] : j \in DOMAIN bestOutputs'[k]}
                = {bestOutputs[k][j] : j \in DOMAIN bestOutputs[k]} \union {idx}
      <4> DEFINE t == bestOutputs'[k]
                 u == bestOutputs[k]
      <4>1. idx \in Nat /\ u \in Seq(Nat) /\ t = Append(u, idx)
        BY <1>3, <3>2, <3>3
      <4> HIDE DEF t, u
      <4>2. /\ Len(Append(u, idx)) = Len(u) + 1
            /\ Append(u, idx) \in Seq(Nat)
            /\ {Append(u, idx)[j] : j \in DOMAIN Append(u, idx)} = {u[j] : j \in DOMAIN u} \union {idx}
        BY <4>1, AppendAdds
      <4>3. /\ Len(t) = Len(u) + 1
            /\ t \in Seq(Nat)
            /\ {t[j] : j \in DOMAIN t} = {u[j] : j \in DOMAIN u} \union {idx}
        BY <4>1, <4>2, Zenon
      <4> QED
        BY <4>3 DEF t, u
    <3>7. Len(bestOutputs'[k]) = Cardinality(front'[k])
      BY <3>2, <3>3, <3>5, <3>6, Zenon
    <3>8. front'[k] = {bestOutputs'[k][j] : j \in DOMAIN bestOutputs'[k]}
      BY <3>2, <3>3, <3>6, Zenon
    <3> QED
      BY <3>2, <3>5, <3>6, <3>7, <3>8, Zenon
  <2>4. CASE k \notin Gains(e, vs) \union Ties(e, vs)
    <3>1. k \in DOMAIN front /\ k \in DOMAIN bestOutputs
      BY <1>6, <1>7, <2>1, <2>4
    <3>2. front'[k] = front[k] /\ bestOutputs'[k] = bestOutputs[k]
      BY <1>2, <1>5, <1>7, <2>1, <2>4, <3>1 DEF UpdateFronts, UpdateBestOutputs
    <3> QED
      BY <3>1, <3>2 DEF OutInv, BestOutputsMatchFront
  <2> QED
    BY <2>2, <2>3, <2>4
<1> QED
  BY <1>1, <1>8, <1>9 DEF OutInv, BestOutputsMatchFront

\* Every program on a per-example frontier has its output retained there, once,
\* and nobody else's is, provided the evaluator never returns -inf.
THEOREM OutputsFollowFront ==
  ASSUME NegInf \notin Scores
  PROVE  Spec => []BestOutputsMatchFront
<1>1. Init => OutInv
  <2> SUFFICES ASSUME Init PROVE OutInv
    OBVIOUS
  <2>1. PICK e \in Evaluations :
          /\ front = [k \in FrontKeys(e) |-> {1}]
          /\ bestOutputs = [k \in {v \in ValKeys(e) : TrackOutputs} |-> <<1>>]
    BY DEF Init
  <2>2. IsFiniteSet({1}) /\ Cardinality({1}) = 1
    BY FS_Singleton
  <2>3. DOMAIN bestOutputs = {k \in DOMAIN front : Kind(k) = "val" /\ TrackOutputs}
    BY <2>1 DEF ValKeys, FrontKeys
  <2>4. \A k \in DOMAIN bestOutputs : front[k] = {1} /\ bestOutputs[k] = <<1>>
    BY <2>1, <2>3
  <2>5. \A k \in DOMAIN bestOutputs :
          /\ front[k] = {bestOutputs[k][j] : j \in DOMAIN bestOutputs[k]}
          /\ Len(bestOutputs[k]) = Cardinality(front[k])
          /\ bestOutputs[k] \in Seq(Nat) /\ IsFiniteSet(front[k])
    <3>1. {<<1>>[j] : j \in DOMAIN <<1>>} = {1} /\ Len(<<1>>) = 1 /\ <<1>> \in Seq(Nat)
      OBVIOUS
    <3> QED
      BY <2>2, <2>4, <3>1, Zenon
  <2> QED
    BY <2>3, <2>5, InitInv DEF OutInv, BestOutputsMatchFront
<1>2. OutInv /\ [Next]_vars => OutInv'
  <2> SUFFICES ASSUME OutInv, [Next]_vars PROVE OutInv'
    OBVIOUS
  <2>1. ASSUME UNCHANGED <<pool, best, front, bestOutputs>> PROVE OutInv'
    BY <2>1, QuietKeepsInv DEF OutInv, BestOutputsMatchFront
  <2>2. ASSUME NEW n \in 1..MaxEvals, IncrementEvals(n) PROVE OutInv'
    BY <2>1, <2>2 DEF IncrementEvals
  <2>3. ASSUME NEW e \in Evaluations, NEW n, AddProgram(e, n) PROVE OutInv'
    BY <2>3, AddKeepsOutputs
  <2>4. ASSUME NEW e \in Evaluations, NEW fault \in OutputFaults(e) PROVE FALSE
    BY <2>4, NoOutputFaults DEF OutInv
  <2>5. CASE UNCHANGED vars
    BY <2>1, <2>5 DEF vars
  <2> QED
    BY <2>2, <2>3, <2>4, <2>5 DEF Next
<1>3. OutInv => BestOutputsMatchFront
  BY DEF OutInv
<1> QED
  BY <1>1, <1>2, <1>3, PTL DEF Spec

-----------------------------------------------------------------------------
(* The discovery budgets.                                                  *)

\* All that is recorded has been spent.
DiscoveryInv ==
    /\ PoolShape
    /\ DiscoveryOrdered
    /\ totalEvals \in Nat
    /\ \A j \in 1..Len(pool) : pool[j].discovery \in Nat /\ pool[j].cost \in Nat

LEMMA EnlistKeepsDiscovery ==
  ASSUME DiscoveryInv, NEW e \in Evaluations, NEW n \in Nat, Enlist(e, n)
  PROVE  DiscoveryInv'
<1> DEFINE r == [eval |-> e, discovery |-> totalEvals, cost |-> n]
<1>1. PoolShape' /\ PoolShape
  BY PoolGrows DEF DiscoveryInv
<1>2. pool' = Append(pool, r) /\ totalEvals' = totalEvals + n
  BY DEF Enlist, Discovery
<1>3. /\ DOMAIN pool = 1..Len(pool) /\ Len(pool) \in Nat \ {0}
      /\ DOMAIN pool' = 1..(Len(pool) + 1) /\ Len(pool') = Len(pool) + 1
      /\ \A j \in 1..Len(pool) : pool'[j] = pool[j]
      /\ pool'[Len(pool) + 1] = r
  BY <1>1, <1>2 DEF PoolShape
<1>4. r.discovery = totalEvals /\ r.cost = n
  OBVIOUS
<1> HIDE DEF r
<1>5. totalEvals \in Nat /\ totalEvals' \in Nat /\ totalEvals + n = totalEvals'
  BY <1>2 DEF DiscoveryInv
<1>6. \A j \in 1..Len(pool) :
        /\ pool'[j].discovery = pool[j].discovery /\ pool'[j].cost = pool[j].cost
        /\ pool[j].discovery \in Nat /\ pool[j].cost \in Nat
        /\ pool[j].discovery + pool[j].cost <= totalEvals
  BY <1>3 DEF DiscoveryInv, DiscoveryOrdered
<1>7. pool'[Len(pool) + 1].discovery = totalEvals /\ pool'[Len(pool) + 1].cost = n
  BY <1>3, <1>4
<1>8. ASSUME NEW j \in DOMAIN pool'
      PROVE  /\ pool'[j].discovery \in Nat /\ pool'[j].cost \in Nat
             /\ pool'[j].discovery + pool'[j].cost <= totalEvals'
  <2>1. CASE j \in 1..Len(pool)
    BY <1>5, <1>6, <2>1
  <2>2. CASE j = Len(pool) + 1
    BY <1>5, <1>7, <2>2
  <2> QED
    BY <1>3, <1>8, <2>1, <2>2
<1>9. ASSUME NEW i \in DOMAIN pool', NEW j \in DOMAIN pool', i < j
      PROVE  pool'[i].discovery + pool'[i].cost <= pool'[j].discovery
  <2>1. i \in 1..Len(pool)
    BY <1>3, <1>9
  <2>2. CASE j \in 1..Len(pool)
    <3>1. pool[i].discovery + pool[i].cost <= pool[j].discovery
      BY <1>3, <1>9, <2>1, <2>2 DEF DiscoveryInv, DiscoveryOrdered
    <3> QED
      BY <1>6, <2>1, <2>2, <3>1
  <2>3. CASE j = Len(pool) + 1
    BY <1>6, <1>7, <2>1, <2>3
  <2> QED
    BY <1>3, <2>2, <2>3
<1>10. DiscoveryOrdered'
  BY <1>8, <1>9 DEF DiscoveryOrdered
<1> QED
  BY <1>1, <1>3, <1>5, <1>8, <1>10 DEF DiscoveryInv

\* The discovery budget of a program leaves out its own validation and counts
\* that of every program before it, for any finite set of examples, whatever
\* the scores, the cache and the exceptions.
THEOREM DiscoveriesAreOrdered ==
  ASSUME IsFiniteSet(Keys)
  PROVE  Spec => []DiscoveryOrdered
<1>1. \A e \in Evaluations : Cardinality(ValKeys(e)) \in Nat
  <2> SUFFICES ASSUME NEW e \in Evaluations PROVE Cardinality(ValKeys(e)) \in Nat
    OBVIOUS
  <2>1. ValKeys(e) \subseteq Keys
    BY EvaluationsAssumption DEF ValKeys
  <2> QED
    BY <2>1, FS_Subset, FS_CardinalityType
<1>2. Init => DiscoveryInv
  <2> SUFFICES ASSUME Init PROVE DiscoveryInv
    OBVIOUS
  <2>1. PoolShape
    BY InitInv DEF FrontInv
  <2>2. PICK e \in Evaluations :
          /\ pool = <<[eval |-> e, discovery |-> 0, cost |-> Cardinality(ValKeys(e))]>>
          /\ totalEvals = Cardinality(ValKeys(e))
    BY DEF Init
  <2>3. /\ Len(pool) = 1 /\ DOMAIN pool = {1}
        /\ pool[1].discovery = 0 /\ pool[1].cost = totalEvals /\ totalEvals \in Nat
    BY <1>1, <2>2
  <2>4. DiscoveryOrdered
    BY <2>3 DEF DiscoveryOrdered
  <2> QED
    BY <2>1, <2>3, <2>4 DEF DiscoveryInv
<1>3. DiscoveryInv /\ [Next]_vars => DiscoveryInv'
  <2> SUFFICES ASSUME DiscoveryInv, [Next]_vars PROVE DiscoveryInv'
    OBVIOUS
  <2>1. ASSUME NEW n \in 1..MaxEvals, IncrementEvals(n) PROVE DiscoveryInv'
    <3>1. pool' = pool /\ totalEvals' = totalEvals + n /\ n \in Nat
      BY <2>1, BoundsAssumption DEF IncrementEvals
    <3>2. totalEvals \in Nat /\ totalEvals' \in Nat /\ totalEvals <= totalEvals'
      BY <3>1 DEF DiscoveryInv
    <3>3. \A j \in 1..Len(pool) : pool[j].discovery \in Nat /\ pool[j].cost \in Nat
      BY DEF DiscoveryInv
    <3>4. DOMAIN pool = 1..Len(pool)
      BY DEF DiscoveryInv, PoolShape
    <3>5. DiscoveryOrdered'
      BY <3>1, <3>2, <3>3, <3>4 DEF DiscoveryInv, DiscoveryOrdered
    <3> QED
      BY <3>1, <3>2, <3>3, <3>5 DEF DiscoveryInv, PoolShape
  <2>2. ASSUME NEW e \in Evaluations, NEW n \in 0..Cardinality(ValKeys(e)), Enlist(e, n)
        PROVE  DiscoveryInv'
    BY <1>1, <2>2, EnlistKeepsDiscovery
  <2>3. CASE UNCHANGED vars
    BY <2>3 DEF vars, DiscoveryInv, DiscoveryOrdered, PoolShape
  <2>4. ASSUME NEW e \in Evaluations, NEW n \in 0..Cardinality(ValKeys(e)),
               \/ AddProgram(e, n)
               \/ \E fault \in OutputFaults(e) : \E done \in SUBSET (ValKeys(e) \ OutputFaults(e)) :
                    AddProgramFaults(e, n, done, fault)
        PROVE  Enlist(e, n)
    BY <2>4 DEF AddProgram, AddProgramFaults
  <2> QED
    BY <2>1, <2>2, <2>3, <2>4 DEF Next
<1>4. DiscoveryInv => DiscoveryOrdered
  BY DEF DiscoveryInv
<1> QED
  BY <1>2, <1>3, <1>4, PTL DEF Spec

=============================================================================
