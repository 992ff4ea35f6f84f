----------------------- MODULE AdaptiveSequential_proofs -----------------------
(***************************************************************************)
(* The shared budget, the task that is given back, and the candidate that   *)
(* each slice starts from, for any engines, scores and arguments.           *)
(***************************************************************************)
EXTENDS AdaptiveSequential, TLAPS

\* The limit in force never exceeds the one that the server was given, and
\* no more is charged than that.
BudgetInv ==
    /\ c \in Settings
    /\ used \in Nat /\ before \in Nat
    /\ remaining \in Nat \union {None}
    /\ cap \in Nat \union {None}
    /\ c.budget # None => cap # None /\ cap <= c.budget /\ used <= c.budget

\* The limit and the task are those of the caller outside of a slice.
GivenBackInv == pc = "done" => cap = c.budget /\ seed = Seed

\* The best result so far, and the highest score so far, relate to the seed.
BestInv ==
    /\ c \in Settings
    /\ pc \in {"restore", "judge"} => result \in Scores /\ top >= result
    /\ best \in Scores \union {Nobody}
    /\ top \in Int
    /\ best = Nobody /\ pc \notin {"restore", "judge", "done"} => top = NegInf
    /\ best = Nobody /\ pc \in {"restore", "judge"} => top \in {result, NegInf}
    /\ best # Nobody /\ pc \notin {"restore", "judge", "done"} =>
          seed = best /\ top <= best + c.epsilon
    /\ best # Nobody /\ pc \in {"restore", "judge"} =>
          seed = best /\ (top <= best + c.epsilon \/ top = result)

\* What the assumption says of the arguments of one call.
LEMMA Arguments ==
    ASSUME c \in Settings
    PROVE  /\ c.budget \in Nat \union {None}
           /\ c.plateau \in Nat \ {0} /\ c.epsilon \in Nat
           /\ \A s \in Scores \ {NegInf} : NegInf + c.epsilon < s
           /\ Scores \subseteq Int /\ NegInf \in Int /\ Nobody \notin Scores
  BY SettingsAssumption

-----------------------------------------------------------------------------
(* The budget.                                                               *)

\* Whatever has been charged since remaining was read, the lowered limit is a
\* limit, and no higher than the server's.
LEMMA LoweredFits ==
    ASSUME BudgetInv
    PROVE  /\ Lowered \in Nat
           /\ c.budget # None => Lowered <= c.budget
  <1>1. c.budget \in Nat \union {None} /\ c.plateau \in Nat  BY Arguments DEF BudgetInv
  <1>2. SliceEvals \in Nat  BY <1>1 DEF SliceEvals, Smaller, BudgetInv, None
  <1> QED  BY <1>1, <1>2 DEF Lowered, Smaller, BudgetInv, None

LEMMA BudgetStep == BudgetInv /\ [Next]_vars => BudgetInv'
  <1> SUFFICES ASSUME BudgetInv, [Next]_vars PROVE BudgetInv'
    OBVIOUS
  <1>0. c.budget \in Nat \union {None}  BY Arguments DEF BudgetInv
  <1>1. CASE TopOfLoop
    <2>1. c' = c /\ used' = used /\ before' = before  BY <1>1 DEF TopOfLoop
    <2>2. cap' = cap \/ cap' = c.budget  BY <1>1 DEF TopOfLoop, Leave
    <2>3. remaining' \in Nat \union {None}
      <3>1. remaining' = IF cap = None THEN None ELSE IF used < cap THEN cap - used ELSE 0
        BY <1>1 DEF TopOfLoop
      <3> QED  BY <3>1 DEF BudgetInv, None
    <2> QED  BY <2>1, <2>2, <2>3, <1>0 DEF BudgetInv
  <1>2. CASE LowerCap
    BY <1>2, <1>0, LoweredFits DEF LowerCap, BudgetInv, None
  <1>3. CASE ReadBefore
    BY <1>3 DEF ReadBefore, BudgetInv, budget
  <1>4. CASE Evaluate
    BY <1>4, <1>0 DEF Evaluate, Full, BudgetInv, None
  <1>5. CASE StartStray
    BY <1>5 DEF StartStray, BudgetInv
  <1>6. CASE StrayEnds
    BY <1>6, <1>0 DEF StrayEnds, Full, BudgetInv, None
  <1>7. CASE \E score \in Scores : EngineReturns(score)
    BY <1>7 DEF EngineReturns, BudgetInv, budget
  <1>8. CASE EngineRaises
    <2>1. cap' = c.budget /\ UNCHANGED <<c, used, remaining, before>>
      BY <1>8 DEF EngineRaises, Leave
    <2> QED  BY <2>1, <1>0 DEF BudgetInv
  <1>9. CASE RestoreCap
    BY <1>9, <1>0 DEF RestoreCap, BudgetInv
  <1>10. CASE JudgeAndStop
    <2>1. cap' = c.budget /\ UNCHANGED <<c, used, remaining, before>>
      BY <1>10 DEF JudgeAndStop, Stops, Leave
    <2> QED  BY <2>1, <1>0 DEF BudgetInv
  <1>11. CASE JudgeAndSwitch
    BY <1>11 DEF JudgeAndSwitch, BudgetInv, budget
  <1>12. CASE JudgeAndStay
    BY <1>12 DEF JudgeAndStay, BudgetInv, budget
  <1>13. CASE UNCHANGED vars
    BY <1>13 DEF vars, budget, BudgetInv
  <1> QED
    BY <1>1, <1>2, <1>3, <1>4, <1>5, <1>6, <1>7, <1>8, <1>9, <1>10, <1>11, <1>12, <1>13
    DEF Next, Schedule

(***************************************************************************)
(* All slices share one hard budget: late evaluations, slices that a charge *)
(* overtook and limits put back in between never spend more than it.        *)
(***************************************************************************)
THEOREM OneHardBudget == Spec => []BudgetKept
  <1>1. Init => BudgetInv
    BY Arguments DEF Init, BudgetInv, None
  <1>2. BudgetInv => BudgetKept
    BY DEF BudgetInv, BudgetKept
  <1> QED  BY <1>1, <1>2, BudgetStep, PTL DEF Spec

-----------------------------------------------------------------------------
(* The server is given back.                                                 *)

LEMMA GivenBackStep == GivenBackInv /\ [Next]_vars => GivenBackInv'
  <1> SUFFICES ASSUME GivenBackInv, [Next]_vars PROVE GivenBackInv'
    OBVIOUS
  <1>1. CASE TopOfLoop
    BY <1>1 DEF TopOfLoop, Leave, GivenBackInv
  <1>2. CASE LowerCap \/ ReadBefore \/ RestoreCap
    BY <1>2 DEF LowerCap, ReadBefore, RestoreCap, GivenBackInv
  <1>3. CASE Evaluate \/ StartStray \/ StrayEnds
    BY <1>3 DEF Evaluate, StartStray, StrayEnds, GivenBackInv
  <1>4. CASE (\E score \in Scores : EngineReturns(score)) \/ EngineRaises
    BY <1>4 DEF EngineReturns, EngineRaises, Leave, GivenBackInv
  <1>5. CASE JudgeAndStop
    BY <1>5 DEF JudgeAndStop, Stops, Leave, GivenBackInv
  <1>6. CASE JudgeAndSwitch \/ JudgeAndStay
    BY <1>6 DEF JudgeAndSwitch, JudgeAndStay, GivenBackInv
  <1>7. CASE UNCHANGED vars
    BY <1>7 DEF vars, budget, GivenBackInv
  <1> QED  BY <1>1, <1>2, <1>3, <1>4, <1>5, <1>6, <1>7 DEF Next, Schedule

(***************************************************************************)
(* However the scheduler ends, its caller has its limit and its task again. *)
(***************************************************************************)
THEOREM ServerIsGivenBack == Spec => []ServerGivenBack
  <1>1. Init => GivenBackInv
    BY DEF Init, GivenBackInv
  <1>2. GivenBackInv => ServerGivenBack
    BY DEF GivenBackInv, ServerGivenBack
  <1> QED  BY <1>1, <1>2, GivenBackStep, PTL DEF Spec

-----------------------------------------------------------------------------
(* The best result.                                                          *)

\* The best result after a slice is near the highest score so far, and no
\* worse than the best result before it.
LEMMA BestIsHighest ==
    ASSUME BestInv, pc = "judge"
    PROVE  /\ Best \in Scores /\ Best # Nobody
           /\ top <= Best + c.epsilon
           /\ best # Nobody => Best >= best
  <1>1. /\ c.epsilon \in Nat /\ Scores \subseteq Int /\ NegInf \in Int
        /\ Nobody \notin Scores
        /\ \A s \in Scores \ {NegInf} : NegInf + c.epsilon < s
    BY Arguments DEF BestInv
  <1>2. result \in Scores /\ result \in Int /\ top \in Int /\ top >= result
    BY <1>1 DEF BestInv
  <1>3. CASE best = Nobody
    <2>1. Best = result  BY <1>3 DEF Best
    <2>2. top \in {result, NegInf}  BY <1>3 DEF BestInv
    <2>3. top = result
      <3>1. CASE result = NegInf  BY <3>1, <2>2
      <3>2. CASE result # NegInf
        <4>1. NegInf + c.epsilon < result  BY <3>2, <1>1, <1>2
        <4> QED  BY <4>1, <2>2, <1>1, <1>2
      <3> QED  BY <3>1, <3>2
    <2> QED  BY <2>1, <2>3, <1>1, <1>2, <1>3
  <1>4. CASE best # Nobody
    <2>1. best \in Scores /\ best \in Int  BY <1>1, <1>4 DEF BestInv
    <2>2. top <= best + c.epsilon \/ top = result  BY <1>4 DEF BestInv
    <2>3. Improved <=> result > best + c.epsilon  BY <1>4 DEF Improved
    <2>4. CASE Improved
      <3>1. Best = result  BY <2>4 DEF Best
      <3> QED  BY <3>1, <2>1, <2>2, <2>3, <2>4, <1>1, <1>2
    <2>5. CASE ~Improved
      <3>1. Best = best  BY <2>5, <1>4 DEF Best
      <3> QED  BY <3>1, <2>1, <2>2, <2>3, <2>5, <1>1, <1>2
    <2> QED  BY <2>4, <2>5
  <1> QED  BY <1>3, <1>4

LEMMA BestStep == BestInv /\ [Next]_vars => BestInv'
  <1> SUFFICES ASSUME BestInv, [Next]_vars PROVE BestInv'
    OBVIOUS
  <1>0. Scores \subseteq Int /\ Nobody \notin Scores  BY Arguments DEF BestInv
  <1>1. CASE TopOfLoop
    <2>1. pc = "head" /\ pc' \in {"cap", "done"}  BY <1>1 DEF TopOfLoop, Leave
    <2>2. pc' = "cap" => seed' = seed  BY <1>1 DEF TopOfLoop, Leave
    <2>3. UNCHANGED <<c, result, best, top>>  BY <1>1 DEF TopOfLoop
    <2> QED  BY <2>1, <2>2, <2>3 DEF BestInv
  <1>2. CASE LowerCap
    BY <1>2 DEF LowerCap, BestInv
  <1>3. CASE ReadBefore
    BY <1>3 DEF ReadBefore, BestInv
  <1>4. CASE Evaluate \/ StartStray \/ StrayEnds
    BY <1>4 DEF Evaluate, StartStray, StrayEnds, BestInv
  <1>5. CASE \E score \in Scores : EngineReturns(score)
    <2> PICK score \in Scores : EngineReturns(score)  BY <1>5
    <2>1. /\ pc = "run" /\ pc' = "restore" /\ result' = score
          /\ top' = IF score > top THEN score ELSE top
          /\ UNCHANGED <<c, best, seed>>
      BY DEF EngineReturns
    <2>2. score \in Int /\ top \in Int  BY <1>0 DEF BestInv
    <2>3. top' \in Int /\ top' >= score /\ top' \in {score, top}  BY <2>1, <2>2
    <2>4. best = Nobody => top = NegInf  BY <2>1 DEF BestInv
    <2>5. best # Nobody => seed = best /\ top <= best + c.epsilon  BY <2>1 DEF BestInv
    <2> QED  BY <2>1, <2>3, <2>4, <2>5 DEF BestInv
  <1>6. CASE EngineRaises
    BY <1>6 DEF EngineRaises, Leave, BestInv
  <1>7. CASE RestoreCap
    BY <1>7 DEF RestoreCap, BestInv
  <1>8. CASE JudgeAndStop
    <2>1. /\ pc = "judge" /\ pc' = "done" /\ best' = Best
          /\ UNCHANGED <<c, result, top>>
      BY <1>8 DEF JudgeAndStop, Stops, Leave
    <2> QED  BY <2>1, BestIsHighest DEF BestInv
  <1>9. CASE JudgeAndSwitch \/ JudgeAndStay
    <2>1. /\ pc = "judge" /\ pc' = "head" /\ best' = Best /\ seed' = Best
          /\ UNCHANGED <<c, result, top>>
      BY <1>9 DEF JudgeAndSwitch, JudgeAndStay, Carry
    <2> QED  BY <2>1, BestIsHighest DEF BestInv
  <1>10. CASE UNCHANGED vars
    BY <1>10 DEF vars, BestInv
  <1> QED
    BY <1>1, <1>2, <1>3, <1>4, <1>5, <1>6, <1>7, <1>8, <1>9, <1>10 DEF Next, Schedule

LEMMA BestInit == Init => BestInv
  BY Arguments DEF Init, BestInv

(***************************************************************************)
(* A slice starts from the best result so far, whatever the slices before   *)
(* it returned and in whatever order: no earlier result beats it by more    *)
(* than improvement_epsilon.                                                *)
(***************************************************************************)
THEOREM SlicesStartFromBest == Spec => []SeededByBest
  <1>1. BestInv => SeededByBest
    BY SettingsAssumption DEF BestInv, SeededByBest
  <1> QED  BY <1>1, BestInit, BestStep, PTL DEF Spec

(***************************************************************************)
(* The best result only gets better.                                        *)
(***************************************************************************)
THEOREM BestImproves == Spec => BestOnlyImproves
  <1>1. BestInv /\ [Next]_vars => [best # Nobody => best' # Nobody /\ best' >= best]_vars
    <2> SUFFICES ASSUME BestInv, Next, best # Nobody
                 PROVE  best' # Nobody /\ best' >= best
      OBVIOUS
    <2>1. best \in Int  BY SettingsAssumption DEF BestInv
    <2>2. CASE JudgeAndStop \/ JudgeAndSwitch \/ JudgeAndStay
      <3>1. pc = "judge" /\ best' = Best
        BY <2>2 DEF JudgeAndStop, JudgeAndSwitch, JudgeAndStay
      <3> QED  BY <3>1, BestIsHighest
    <2>3. CASE ~(JudgeAndStop \/ JudgeAndSwitch \/ JudgeAndStay)
      <3>1. best' = best
        BY <2>3 DEF Next, Schedule, TopOfLoop, LowerCap, ReadBefore, RestoreCap, EngineReturns,
                    Evaluate, StartStray, StrayEnds, EngineRaises
      <3> QED  BY <3>1, <2>1
    <2> QED  BY <2>2, <2>3
  <1> QED  BY <1>1, BestInit, BestStep, PTL DEF Spec, BestOnlyImproves
(***************************************************************************)
(* The server's budget is lent, not given away: the slices together keep    *)
(* within it, and the caller finds its own limit and task in place again.   *)
(***************************************************************************)
THEOREM BudgetIsLent == Spec => []BudgetLent
  <1>1. BudgetKept /\ ServerGivenBack => BudgetLent  BY DEF BudgetLent
  <1> QED  BY <1>1, OneHardBudget, ServerIsGivenBack, PTL
=============================================================================
