--------------------------- MODULE GEPAEngine_proofs ---------------------------
(***************************************************************************)
(* The optimization loop implements the durable pool of DurableRun, loses  *)
(* at most one iteration to a death, honours a stop request, overruns its  *)
(* budget by less than one iteration, and judges only merges that the      *)
(* discoveries of the process pay for, right after one: for every budget,  *)
(* batch size, cost, fault point and number of deaths.                     *)
(***************************************************************************)
EXTENDS GEPAEngine, FiniteSetTheorems, TLAPS

\* What an optimizer state is made of, as far as the pool and the budget go.
StateShape(s) ==
    /\ DOMAIN s = {"i", "pool", "evals"}
    /\ s.i \in Nat /\ s.evals \in Nat /\ s.pool \in Seq(Nat)

\* t continues s: the same iteration, no fewer calls, at most one program more.
Continues(s, t) ==
    /\ StateShape(t) /\ t.i = s.i /\ t.evals >= s.evals
    /\ t.pool = s.pool \/ t.pool = Append(s.pool, s.i)

LEMMA Shapes ==
  /\ StateShape(NoState) /\ NoState.i = 0 /\ NoState.pool = <<>> /\ NoState.evals = 0
  /\ StateShape(SeedState) /\ SeedState.i = 0 /\ SeedState.pool = <<0>>
  BY EngineAssumption DEF StateShape, NoState, SeedState

LEMMA SpendContinues ==
  ASSUME StateShape(st), NEW n \in Nat
  PROVE  Continues(st, Spend(n)) /\ Spend(n).pool = st.pool
  BY DEF StateShape, Continues, Spend

LEMMA AddContinues ==
  ASSUME StateShape(st), NEW n \in Nat, NEW stage
  PROVE  Continues(st, AddUpTo(n, stage))
  BY DEF StateShape, Continues, AddUpTo

LEMMA AddAppends ==
  ASSUME StateShape(st), NEW n \in Nat
  PROVE  AddUpTo(n, "done").pool = Append(st.pool, st.i)
  BY DEF StateShape, AddUpTo

\* Phases of an iteration in which every program it may add is still to come.
Early == {"merge", "mergeAdd", "reflect", "propose"}
Busy == Early \union {"val", "add", "end"}

\* Programs the iteration under way may still add.
ToAdd == IF pc \in Early THEN BatchSize ELSE IF pc \in {"val", "add"} THEN queue ELSE 0

Shaped ==
    /\ pc \in Phases
    /\ StateShape(st) /\ StateShape(disk)
    /\ pc # "off" => st.pool # <<>>
    /\ disk.pool = <<>> => disk = NoState
    /\ pc = "off" => ~stopReq
    /\ pc \in {"val", "add"} => queue \in 1..BatchSize

\* What the process has that the disk has not.
Ahead ==
    /\ pc \in Busy => st.i = disk.i + 1
    /\ pc \in Busy \union {"head"} /\ st.i > 0 =>
            /\ st.i <= disk.i + 1
            /\ Len(st.pool) + ToAdd <= Len(disk.pool) + BatchSize
            /\ disk.evals <= st.evals

EngineInv == Shaped /\ Ahead

\* What every step of a running process comes down to: it saves, it continues
\* the state within an iteration, or it dies.
Opens ==
    /\ pc = "off" /\ pc' = "head"
    /\ st' = Loaded /\ UNCHANGED <<disk, stopReq>>
Persists ==
    /\ pc = "head" /\ disk' = st /\ UNCHANGED stopReq
    /\ \/ pc' = "done" /\ st' = st
       \/ /\ pc' = "merge" /\ ~ShouldStop /\ StateShape(st')
          /\ st'.i = st.i + 1 /\ st'.pool = st.pool /\ st'.evals = st.evals
Works ==
    /\ pc \in Busy /\ pc' \in Busy
    /\ UNCHANGED <<disk, stopReq>>
    /\ Continues(st, st')
    /\ pc' \in {"val", "add"} => queue' \in 1..BatchSize
    /\ ToAdd' + (IF st'.pool = st.pool THEN 0 ELSE 1) <= ToAdd
Closes == pc = "end" /\ pc' = "head" /\ UNCHANGED <<st, disk, stopReq>>
Hears == pc # "off" /\ stopReq' /\ UNCHANGED <<pc, st, disk, queue>>

LEMMA Same ==
  ASSUME StateShape(st)
  PROVE  Continues(st, st)
  BY DEF StateShape, Continues

\* Appending really changes the pool, once and by one.
LEMMA Longer ==
  ASSUME NEW s \in Seq(Nat), NEW x \in Nat
  PROVE  Append(s, x) # s /\ Len(Append(s, x)) = Len(s) + 1 /\ Append(s, x) \in Seq(Nat) /\ Append(s, x) # <<>>
  OBVIOUS

LEMMA CatchCases ==
  ASSUME Shaped, pc \in Busy, NEW s, NEW fatal, Catch(s, fatal), Continues(st, s),
         s.pool = st.pool \/ pc \in {"mergeAdd", "add"}
  PROVE  Works \/ Die
<1>1. CASE st' = s /\ pc' = "end" /\ UNCHANGED <<disk, stopReq>>
  <2>1. ToAdd' = 0
    BY <1>1 DEF ToAdd, Early
  <2>2. ToAdd >= IF st'.pool = st.pool THEN 0 ELSE 1
    <3>1. CASE pc \in {"val", "add"}
      BY <3>1 DEF ToAdd, Early, Shaped
    <3>2. CASE pc \in Early
      BY <3>2, EngineAssumption DEF ToAdd
    <3>3. CASE pc = "end"
      <4>1. st'.pool = st.pool /\ ToAdd = 0
        BY <1>1, <3>3 DEF ToAdd, Early
      <4> QED
        BY <4>1
    <3> QED
      BY <3>1, <3>2, <3>3 DEF Busy
  <2>3. ToAdd \in Nat
    BY EngineAssumption DEF ToAdd, Shaped
  <2>4. ToAdd' + (IF st'.pool = st.pool THEN 0 ELSE 1) <= ToAdd
    BY <2>1, <2>2, <2>3
  <2> QED
    BY <1>1, <2>4 DEF Works, Busy
<1> QED
  BY <1>1 DEF Catch

\* One step of the loop: which of the cases each action is.
LEMMA StepCases ==
  ASSUME Shaped, Next
  PROVE  Opens \/ Persists \/ Works \/ Closes \/ Hears \/ Die
<1>0. /\ BatchSize \in Nat \ {0} /\ MiniCost \in Nat /\ ValCost \in Nat
      /\ SubsampleCost \in Nat /\ StateShape(st) /\ pc \in Phases
  BY EngineAssumption DEF Shaped
<1>1. CASE Start
  BY <1>1 DEF Start, Opens
<1>2. CASE Finish
  BY <1>2 DEF Finish, Save, Persists
<1>3. CASE Begin
  <2>1. st' = [st EXCEPT !.i = @ + 1]
    BY <1>3 DEF Begin
  <2>2. StateShape(st') /\ st'.i = st.i + 1 /\ st'.pool = st.pool /\ st'.evals = st.evals
    BY <1>0, <2>1 DEF StateShape
  <2> QED
    BY <1>3, <2>2 DEF Begin, Save, Persists
<1>4. CASE SkipMerge
  BY <1>0, <1>4, Same DEF SkipMerge, Works, ToAdd, Early, Busy
<1>5. ASSUME NEW n \in 0..SubsampleCost, NEW verdict \in BOOLEAN, ProposeMerge(n, verdict) PROVE Works
  <2>1. n \in Nat
    BY <1>0
  <2> QED
    BY <1>0, <1>5, <2>1, SpendContinues DEF ProposeMerge, Works, ToAdd, Early, Busy
<1>6. ASSUME NEW n \in 0..ValCost, AddMerge(n) PROVE Works
  <2>1. n \in Nat
    BY <1>0
  <2> QED
    BY <1>0, <1>6, <2>1, AddContinues DEF AddMerge, Works, ToAdd, Early, Busy
<1>7. ASSUME NEW k \in 1..BatchSize, EvaluateParents(k) PROVE Works
  <2>1. k * MiniCost \in Nat
    BY <1>0
  <2> QED
    BY <1>0, <1>7, <2>1, SpendContinues DEF EvaluateParents, Works, ToAdd, Early, Busy
<1>8. CASE ProposeNothing
  BY <1>0, <1>8, Same DEF ProposeNothing, Works, ToAdd, Early, Busy
<1>9. ASSUME NEW k \in 1..BatchSize, NEW sel \in 0..k, EvaluateChildren(k, sel) PROVE Works
  <2>1. k * MiniCost \in Nat /\ sel \in 0..BatchSize
    BY <1>0
  <2>2. pc = "propose" /\ queue' = sel /\ pc' = (IF sel = 0 THEN "end" ELSE "val")
    BY <1>9 DEF EvaluateChildren
  <2>3. ToAdd = BatchSize /\ ToAdd' = sel
    BY <2>1, <2>2 DEF ToAdd, Early
  <2> QED
    BY <1>0, <1>9, <2>1, <2>2, <2>3, SpendContinues DEF EvaluateChildren, Works, Early, Busy
<1>10. CASE EvaluateOnValset
  BY <1>0, <1>10, Same DEF EvaluateOnValset, Works, ToAdd, Early, Busy, Shaped
<1>11. ASSUME NEW n \in 0..ValCost, AddSelected(n) PROVE Works
  <2>1. n \in Nat
    BY <1>0
  <2>2. pc = "add" /\ queue \in 1..BatchSize /\ queue' = queue - 1
        /\ pc' = (IF queue = 1 THEN "end" ELSE "add")
    BY <1>11 DEF AddSelected, Shaped
  <2>3. ToAdd = queue /\ ToAdd' = queue - 1
    BY <2>2 DEF ToAdd, Early
  <2> QED
    BY <1>0, <1>11, <2>1, <2>2, <2>3, AddContinues DEF AddSelected, Works, Early, Busy
<1>12. ASSUME NEW k \in 0..BatchSize, NEW fatal \in BOOLEAN, FailEvaluation(k * MiniCost, fatal)
       PROVE  Works \/ Die
  <2>1. k * MiniCost \in Nat
    BY <1>0
  <2>2. pc \in Busy
    BY <1>12 DEF FailEvaluation, Busy, Early
  <2>3. Catch(Spend(k * MiniCost), fatal)
    BY <1>12 DEF FailEvaluation
  <2> QED
    BY <1>0, <2>1, <2>2, <2>3, SpendContinues, CatchCases
<1>13. ASSUME NEW n \in 0..ValCost, NEW stage \in AddFaults, FailAdd(n, stage) PROVE Works \/ Die
  <2>1. n \in Nat
    BY <1>0
  <2>2. pc \in Busy /\ pc \in {"mergeAdd", "add"} /\ Catch(AddUpTo(n, stage), FALSE)
    BY <1>13 DEF FailAdd, Busy, Early
  <2> QED
    BY <1>0, <2>1, <2>2, AddContinues, CatchCases
<1>14. CASE End
  BY <1>14 DEF End, Closes
<1>15. CASE RequestStop
  BY <1>15 DEF RequestStop, Hears
<1>16. CASE Crash
  BY <1>16 DEF Crash
<1> QED
  BY <1>1, <1>2, <1>3, <1>4, <1>5, <1>6, <1>7, <1>8, <1>9, <1>10, <1>11, <1>12, <1>13,
     <1>14, <1>15, <1>16 DEF Next, Step

LEMMA WorkKeepsPool ==
  ASSUME Shaped, Works
  PROVE  /\ StateShape(st') /\ st'.pool # <<>> /\ st'.i = st.i /\ st'.evals >= st.evals
         /\ Len(st'.pool) = Len(st.pool) + (IF st'.pool = st.pool THEN 0 ELSE 1)
<1>1. st.pool \in Seq(Nat) /\ st.i \in Nat /\ st.pool # <<>> /\ Continues(st, st')
  BY DEF Shaped, StateShape, Works, Busy, Early
<1>2. CASE st'.pool = st.pool
  BY <1>1, <1>2 DEF Continues, StateShape
<1>3. CASE st'.pool = Append(st.pool, st.i)
  BY <1>1, <1>3, Longer DEF Continues
<1> QED
  BY <1>1, <1>2, <1>3 DEF Continues

LEMMA InitEngineInv == Init => EngineInv
  BY Shapes DEF Init, EngineInv, Shaped, Ahead, Phases, Busy, Early

LEMMA StepShaped ==
  ASSUME Shaped, Next
  PROVE  Shaped'
<1>1. CASE Opens
  <2>1. StateShape(st') /\ st'.pool # <<>>
    <3>1. CASE disk = NoState
      <4>1. st' = SeedState
        BY <1>1, <3>1 DEF Opens, Loaded
      <4>2. SeedState.pool # <<>>
        BY DEF SeedState
      <4> QED
        BY <4>1, <4>2, Shapes
    <3>2. CASE disk # NoState
      BY <1>1, <3>2 DEF Opens, Loaded, Shaped
    <3> QED
      BY <3>1, <3>2
  <2> QED
    BY <1>1, <2>1 DEF Opens, Shaped, Phases
<1>2. CASE Persists
  <2>1. StateShape(disk') /\ disk'.pool # <<>> /\ StateShape(st') /\ st'.pool # <<>>
    BY <1>2 DEF Persists, Shaped
  <2> QED
    BY <1>2, <2>1 DEF Persists, Shaped, Phases
<1>3. CASE Works
  <2>1. pc' \in Phases /\ pc' # "off"
    BY <1>3 DEF Works, Busy, Early, Phases
  <2>2. UNCHANGED disk /\ (pc' \in {"val", "add"} => queue' \in 1..BatchSize)
    BY <1>3 DEF Works
  <2> QED
    BY <1>3, <2>1, <2>2, WorkKeepsPool DEF Shaped
<1>4. CASE Closes
  BY <1>4 DEF Closes, Shaped, Phases
<1>5. CASE Hears
  BY <1>5 DEF Hears, Shaped, Phases
<1>6. CASE Die
  BY <1>6, Shapes DEF Die, Shaped, Phases
<1> QED
  BY <1>1, <1>2, <1>3, <1>4, <1>5, <1>6, StepCases

LEMMA Trade ==
  ASSUME NEW l \in Int, NEW m \in Int, NEW d \in {0, 1}, NEW t \in Int, NEW u \in Int, NEW b \in Int,
         m = l + d, u + d <= t, l + t <= b
  PROVE  m + u <= b
  OBVIOUS

LEMMA StepAhead ==
  ASSUME EngineInv, Next
  PROVE  Ahead'
<1>0. /\ BatchSize \in Nat \ {0}
      /\ st.i \in Nat /\ st.evals \in Nat /\ Len(st.pool) \in Nat
      /\ disk.i \in Nat /\ disk.evals \in Nat /\ Len(disk.pool) \in Nat
  BY EngineAssumption DEF EngineInv, Shaped, StateShape
<1>1. CASE Opens
  <2>1. ToAdd' = 0 /\ disk' = disk /\ pc' = "head"
    BY <1>1 DEF Opens, ToAdd, Early
  <2>2. st' = disk \/ st'.i = 0
    BY <1>1, Shapes DEF Opens, Loaded
  <2> QED
    BY <1>0, <2>1, <2>2 DEF Ahead, Busy, Early
<1>2. CASE Persists
  <2>1. CASE pc' = "done"
    BY <2>1 DEF Ahead, Busy, Early
  <2>2. CASE pc' # "done"
    <3>1. /\ pc' = "merge" /\ disk' = st /\ st'.i = st.i + 1
          /\ st'.pool = st.pool /\ st'.evals = st.evals
      BY <1>2, <2>2 DEF Persists
    <3>2. ToAdd' = BatchSize
      BY <3>1 DEF ToAdd, Early
    <3> QED
      BY <1>0, <3>1, <3>2 DEF Ahead
  <2> QED
    BY <2>1, <2>2
<1>3. CASE Works
  <2>1. /\ st'.i = st.i /\ st'.evals >= st.evals /\ st'.evals \in Nat
        /\ Len(st'.pool) = Len(st.pool) + (IF st'.pool = st.pool THEN 0 ELSE 1)
    BY <1>3, WorkKeepsPool DEF EngineInv, StateShape
  <2>2. /\ disk' = disk /\ pc \in Busy /\ pc' \in Busy
        /\ ToAdd' + (IF st'.pool = st.pool THEN 0 ELSE 1) <= ToAdd
    BY <1>3 DEF Works
  <2>3. ToAdd \in Nat /\ ToAdd' \in Nat
    BY <1>0, <1>3 DEF ToAdd, Works, EngineInv, Shaped
  <2>4. /\ st.i = disk.i + 1
        /\ Len(st.pool) + ToAdd <= Len(disk.pool) + BatchSize
        /\ disk.evals <= st.evals
    BY <1>0, <2>2 DEF EngineInv, Ahead
  <2>5. PICK d \in {0, 1} : d = (IF st'.pool = st.pool THEN 0 ELSE 1)
    OBVIOUS
  <2>6. Len(st'.pool) \in Nat /\ Len(st'.pool) = Len(st.pool) + d /\ ToAdd' + d <= ToAdd
    <3>1. Len(st'.pool) = Len(st.pool) + d
      BY <2>1, <2>5
    <3>2. ToAdd' + d <= ToAdd
      BY <2>2, <2>5
    <3> QED
      BY <1>0, <3>1, <3>2
  <2>7. /\ st'.i = disk'.i + 1
        /\ Len(st'.pool) + ToAdd' <= Len(disk'.pool) + BatchSize
        /\ disk'.evals <= st'.evals
    <3>1. st'.i = disk'.i + 1
      BY <2>1, <2>2, <2>4
    <3>2. disk'.evals <= st'.evals
      BY <1>0, <2>1, <2>2, <2>4
    <3>3. Len(st'.pool) + ToAdd' <= Len(disk.pool) + BatchSize
      <4>1. PICK l \in Int : l = Len(st.pool)
        BY <1>0
      <4>2. PICK m \in Int : m = Len(st'.pool)
        BY <2>6
      <4>3. PICK t \in Int : t = ToAdd
        BY <2>3
      <4>4. PICK u \in Int : u = ToAdd'
        BY <2>3
      <4>5. PICK b \in Int : b = Len(disk.pool) + BatchSize
        BY <1>0
      <4>6. m = l + d /\ u + d <= t /\ l + t <= b
        BY <2>4, <2>6, <4>1, <4>2, <4>3, <4>4, <4>5
      <4>7. m + u <= b
        BY <2>5, <4>6, Trade
      <4> QED
        BY <4>2, <4>4, <4>5, <4>7
    <3> QED
      BY <2>2, <3>1, <3>2, <3>3
  <2> QED
    BY <1>0, <2>2, <2>7 DEF Ahead
<1>4. CASE Closes
  <2>1. ToAdd' = 0 /\ ToAdd = 0
    BY <1>4 DEF Closes, ToAdd, Early
  <2> QED
    BY <1>4, <2>1 DEF Closes, EngineInv, Ahead, Busy, Early
<1>5. CASE Hears
  <2>1. ToAdd' = ToAdd
    BY <1>5 DEF Hears, ToAdd
  <2> QED
    BY <1>5, <2>1 DEF Hears, EngineInv, Ahead
<1>6. CASE Die
  BY <1>6 DEF Die, Ahead, Busy, Early
<1> QED
  BY <1>1, <1>2, <1>3, <1>4, <1>5, <1>6, StepCases DEF EngineInv

\* Shaped and Ahead hold throughout.
LEMMA EngineInvariant == Spec => []EngineInv
<1>1. EngineInv /\ [Next]_vars => EngineInv'
  <2> SUFFICES ASSUME EngineInv, [Next]_vars PROVE EngineInv'
    OBVIOUS
  <2>1. CASE Next
    BY <2>1, StepShaped, StepAhead DEF EngineInv
  <2>2. CASE UNCHANGED vars
    BY <2>2 DEF vars, EngineInv, Shaped, Ahead, ToAdd
  <2> QED
    BY <2>1, <2>2
<1> QED
  BY <1>1, InitEngineInv, PTL DEF Spec

\* A death costs at most the iteration under way.
THEOREM LossStaysBounded == Spec => []LossBounded
<1>1. EngineInv => LossBounded
  <2> SUFFICES ASSUME EngineInv, pc \notin {"off", "done"}, st.i > 0
               PROVE  /\ st.i <= disk.i + 1
                      /\ Len(st.pool) <= Len(disk.pool) + BatchSize
                      /\ disk.evals <= st.evals
    BY DEF LossBounded
  <2>1. pc \in Busy \union {"head"}
    BY DEF EngineInv, Shaped, Phases, Busy, Early
  <2>2. ToAdd \in Nat /\ Len(st.pool) \in Nat /\ Len(disk.pool) \in Nat /\ BatchSize \in Nat
    BY EngineAssumption DEF ToAdd, EngineInv, Shaped, StateShape
  <2> QED
    BY <2>1, <2>2 DEF EngineInv, Ahead
<1> QED
  BY <1>1, EngineInvariant, PTL

\* Once a stop is requested no iteration begins, in this process or a later one.
THEOREM StopIsHonored == Spec => StopHonored
<1>1. EngineInv /\ [Next]_vars => (stopReq => st'.i <= st.i)
  <2> SUFFICES ASSUME EngineInv, [Next]_vars, stopReq PROVE st'.i <= st.i
    OBVIOUS
  <2>0. st.i \in Nat
    BY DEF EngineInv, Shaped, StateShape
  <2>1. CASE Next
    <3>1. CASE Opens
      BY <3>1 DEF Opens, EngineInv, Shaped
    <3>2. CASE Persists
      BY <2>0, <3>2 DEF Persists, ShouldStop
    <3>3. CASE Works
      BY <2>0, <3>3 DEF Works, Continues
    <3>4. CASE Closes \/ Hears
      <4>1. st' = st
        BY <3>4 DEF Closes, Hears
      <4> QED
        BY <2>0, <4>1
    <3>5. CASE Die
      BY <2>0, <3>5, Shapes DEF Die
    <3> QED
      BY <2>1, <3>1, <3>2, <3>3, <3>4, <3>5, StepCases DEF EngineInv
  <2>2. CASE UNCHANGED vars
    BY <2>0, <2>2 DEF vars
  <2> QED
    BY <2>1, <2>2
<1>2. EngineInv /\ [Next]_vars => [stopReq => st'.i <= st.i]_vars
  BY <1>1
<1> QED
  BY <1>2, EngineInvariant, PTL DEF Spec, StopHonored

-----------------------------------------------------------------------------
(* The refinement.                                                         *)

\* DurableRun's log and saved pool, as PoolIsDurable maps them.
Log == IF pc = "off" THEN <<>> ELSE st.pool

LEMMA InitDurable == Init => Durable!Init
  BY Shapes DEF Init, Durable!Init

\* Every step opens, grows, saves or loses the pool, or leaves it alone.
LEMMA StepDurable ==
  ASSUME Shaped, [Next]_vars
  PROVE  [Durable!Next]_(Durable!vars)
<1>1. CASE Opens
  <2>1. Log = <<>> /\ Log' = st'.pool /\ UNCHANGED disk
    BY <1>1 DEF Opens, Log
  <2>2. CASE disk.pool = <<>>
    <3>1. st'.pool = <<0>>
      BY <1>1, <2>2, Shapes DEF Opens, Loaded, Shaped
    <3> QED
      BY <2>1, <2>2, <3>1 DEF Log, Durable!Next, Durable!Open
  <2>3. CASE disk.pool # <<>>
    <3>1. st'.pool = disk.pool
      BY <1>1, <2>3, Shapes DEF Opens, Loaded
    <3> QED
      BY <2>1, <2>3, <3>1 DEF Log, Durable!Next, Durable!Open
  <2> QED
    BY <2>2, <2>3
<1>2. CASE Persists
  <2>1. Log = st.pool /\ Log' = st.pool /\ disk' = st /\ st.pool # <<>>
    BY <1>2 DEF Persists, Log, Shaped
  <2> QED
    BY <2>1 DEF Log, Durable!Next, Durable!Save
<1>3. CASE Works
  <2>1. Log = st.pool /\ Log' = st'.pool /\ UNCHANGED disk /\ st.pool # <<>>
    BY <1>3 DEF Works, Busy, Early, Log, Shaped
  <2>2. CASE st'.pool = st.pool
    BY <2>1, <2>2 DEF Log, Durable!vars
  <2>3. CASE st'.pool = Append(st.pool, st.i)
    <3>1. st.pool \in Seq(Nat) /\ st.i \in Nat
      BY DEF Shaped, StateShape
    <3>2. Len(Log') = Len(Log) + 1 /\ Log'[Len(Log')] = st.i /\ Log' = Append(Log, st.i)
      BY <2>1, <2>3, <3>1
    <3> QED
      BY <2>1, <3>1, <3>2 DEF Log, Durable!Next, Durable!Grow
  <2> QED
    BY <1>3, <2>2, <2>3 DEF Works, Continues
<1>4. CASE Closes \/ Hears \/ UNCHANGED vars
  BY <1>4 DEF Closes, Hears, vars, Durable!vars
<1>5. CASE Die
  BY <1>5 DEF Die, Durable!Next, Durable!Lose
<1> QED
  BY <1>1, <1>2, <1>3, <1>4, <1>5, StepCases

\* The pool across deaths and resumes is the durable log of DurableRun.
THEOREM EngineImplementsDurableRun == Spec => PoolIsDurable
<1>1. EngineInv /\ [Next]_vars => [Durable!Next]_(Durable!vars)
  BY StepDurable DEF EngineInv
<1> QED
  BY <1>1, InitDurable, EngineInvariant, PTL DEF Spec, PoolIsDurable, Durable!Spec

-----------------------------------------------------------------------------
(* The budget.                                                             *)

Mini == BatchSize * MiniCost
Vals == BatchSize * ValCost

\* The most that the iteration under way may still spend.
Left ==
    CASE pc = "merge"           -> IterationCost
      [] pc = "mergeAdd"        -> ValCost
      [] pc = "reflect"         -> Mini + Mini + Vals
      [] pc = "propose"         -> Mini + Vals
      [] pc \in {"val", "add"} -> queue * ValCost
      [] OTHER                  -> 0

Within(s) == s.evals <= ValCost \/ s.evals < MaxMetricCalls + IterationCost

BudgetInv ==
    /\ Within(disk)
    /\ pc \notin Busy => Within(st)
    /\ pc \in Busy =>
          /\ disk.evals < MaxMetricCalls
          /\ st.evals + Left <= disk.evals + IterationCost

LEMMA Multiples ==
  ASSUME NEW k \in Nat, NEW b \in Nat, NEW c \in Nat, k <= b
  PROVE  k * c \in Nat /\ b * c \in Nat /\ k * c <= b * c
<1>1. PICK d \in Nat : b = k + d
  <2>1. b - k \in Nat /\ b = k + (b - k)  OBVIOUS
  <2> QED  BY <2>1
<1>2. b * c = k * c + d * c  BY <1>1
<1>3. k * c \in Nat /\ d * c \in Nat  OBVIOUS
<1> QED  BY <1>2, <1>3

LEMMA OneLess ==
  ASSUME NEW q \in Nat \ {0}, NEW c \in Nat
  PROVE  (q - 1) * c + c = q * c /\ c <= q * c /\ q * c \in Nat /\ (q - 1) * c \in Nat
<1>1. PICK p \in Nat : q = p + 1
  <2>1. q - 1 \in Nat /\ q = (q - 1) + 1  OBVIOUS
  <2> QED  BY <2>1
<1>2. q - 1 = p /\ q * c = p * c + c  BY <1>1
<1>3. p * c \in Nat  OBVIOUS
<1> QED  BY <1>2, <1>3

LEMMA Costs ==
  /\ Mini \in Nat /\ Vals \in Nat /\ MiniCost \in Nat /\ ValCost \in Nat /\ IterationCost \in Nat
  /\ SubsampleCost \in Nat /\ SubsampleCost + ValCost <= IterationCost /\ Mini + Mini + Vals <= IterationCost
  /\ MaxMetricCalls \in Nat
<1>1. BatchSize * MiniCost \in Nat /\ BatchSize * ValCost \in Nat
  BY EngineAssumption, Multiples
<1>2. MergeCost = SubsampleCost + ValCost /\ BatchCost = Mini + Mini + Vals
  BY DEF MergeCost, BatchCost, Mini, Vals
<1>3. Mini \in Nat /\ Vals \in Nat  BY <1>1 DEF Mini, Vals
<1>4. MergeCost \in Nat /\ BatchCost \in Nat  BY <1>2, <1>3, EngineAssumption
<1> QED  BY <1>2, <1>3, <1>4, EngineAssumption DEF IterationCost

LEMMA Spent ==
  ASSUME StateShape(st), NEW n \in Nat, NEW stage
  PROVE  Spend(n).evals = st.evals + n /\ AddUpTo(n, stage).evals = st.evals + n
  BY DEF StateShape, Spend, AddUpTo

LEMMA LeftIsNat ==
  ASSUME Shaped
  PROVE  Left \in Nat
<1>1. pc \in {"val", "add"} => queue * ValCost \in Nat
  BY Multiples, EngineAssumption DEF Shaped
<1> QED  BY <1>1, Costs DEF Left

\* The same of the next state.
LEMMA LeftNext == Shaped' => Left' \in Nat
<1> SUFFICES ASSUME Shaped' PROVE Left' \in Nat
  OBVIOUS
<1>1. pc' \in {"val", "add"} => queue' * ValCost \in Nat
  BY Multiples, EngineAssumption DEF Shaped
<1> QED  BY <1>1, Costs DEF Left

\* What an iteration spends in a step, its allowance for later steps gives up.
Spends == pc' \in Busy /\ disk' = disk /\ st'.evals + Left' <= st.evals + Left

LEMMA CatchSpends ==
  ASSUME Shaped, pc \in Busy, NEW s, NEW fatal, Catch(s, fatal), NEW n \in Nat,
         s.evals = st.evals + n, n <= Left
  PROVE  Spends \/ Die
<1>1. CASE st' = s /\ pc' = "end" /\ UNCHANGED disk
  <2>1. Left' = 0  BY <1>1 DEF Left
  <2>2. Left \in Nat /\ st.evals \in Nat  BY LeftIsNat DEF Shaped, StateShape
  <2>3. st'.evals = st.evals + n  BY <1>1
  <2> QED  BY <1>1, <2>1, <2>2, <2>3 DEF Spends, Busy
<1> QED  BY <1>1 DEF Catch

LEMMA StepSpends ==
  ASSUME Shaped, Next, pc \in Busy
  PROVE  Spends \/ Closes \/ Hears \/ Die
<1>0. /\ BatchSize \in Nat \ {0} /\ StateShape(st) /\ st.evals \in Nat
      /\ Left \in Nat
  BY EngineAssumption, LeftIsNat DEF Shaped, StateShape
<1>1. ~Start /\ ~Finish /\ ~Begin
  BY DEF Start, Finish, Begin, Busy, Early
<1>4. CASE SkipMerge
  <2>1. pc' = "reflect" /\ pc = "merge" /\ UNCHANGED <<st, disk>>  BY <1>4 DEF SkipMerge
  <2>2. Left' = Mini + Mini + Vals /\ Left = IterationCost  BY <2>1 DEF Left
  <2> QED  BY <1>0, <2>1, <2>2, Costs DEF Spends, Busy, Early
<1>5. ASSUME NEW n \in 0..SubsampleCost, NEW verdict \in BOOLEAN, ProposeMerge(n, verdict) PROVE Spends
  <2>0. n \in Nat /\ n <= SubsampleCost  BY Costs
  <2>1. /\ n \in Nat /\ n <= SubsampleCost /\ pc = "merge" /\ pc' \in {"mergeAdd", "end"}
        /\ st'.evals = st.evals + n /\ UNCHANGED disk
    BY <1>0, <1>5, <2>0, Spent DEF ProposeMerge
  <2>2. Left' <= ValCost /\ Left' \in Nat /\ Left = IterationCost  BY <2>1, Costs DEF Left
  <2> QED  BY <1>0, <2>1, <2>2, Costs DEF Spends, Busy, Early
<1>6. ASSUME NEW n \in 0..ValCost, AddMerge(n) PROVE Spends
  <2>1. /\ n \in Nat /\ n <= ValCost /\ pc = "mergeAdd" /\ pc' = "end"
        /\ st'.evals = st.evals + n /\ UNCHANGED disk
    BY <1>0, <1>6, Spent, Costs DEF AddMerge
  <2>2. Left' = 0 /\ Left = ValCost  BY <2>1 DEF Left
  <2> QED  BY <1>0, <2>1, <2>2, Costs DEF Spends, Busy, Early
<1>7. ASSUME NEW k \in 1..BatchSize, EvaluateParents(k) PROVE Spends
  <2>0. k * MiniCost \in Nat /\ k * MiniCost <= Mini
    BY <1>0, Multiples, Costs DEF Mini
  <2>1. /\ pc = "reflect" /\ pc' = "propose"
        /\ st'.evals = st.evals + k * MiniCost /\ UNCHANGED disk
    BY <1>0, <1>7, <2>0, Spent DEF EvaluateParents
  <2>2. Left' = Mini + Vals /\ Left = Mini + Mini + Vals  BY <2>1 DEF Left
  <2>3. PICK m \in Nat : m = k * MiniCost  BY <2>0
  <2> QED  BY <1>0, <2>0, <2>1, <2>2, <2>3, Costs DEF Spends, Busy, Early
<1>8. CASE ProposeNothing
  <2>1. pc = "propose" /\ pc' = "end" /\ UNCHANGED <<st, disk>>  BY <1>8 DEF ProposeNothing
  <2>2. Left' = 0  BY <2>1 DEF Left
  <2> QED  BY <1>0, <2>1, <2>2 DEF Spends, Busy, Early
<1>9. ASSUME NEW k \in 1..BatchSize, NEW sel \in 0..k, EvaluateChildren(k, sel) PROVE Spends
  <2>0. /\ k * MiniCost \in Nat /\ k * MiniCost <= Mini
        /\ sel * ValCost \in Nat /\ sel * ValCost <= Vals
    BY <1>0, Multiples, Costs DEF Mini, Vals
  <2>1. /\ pc = "propose" /\ pc' \in {"val", "end"} /\ queue' = sel
        /\ st'.evals = st.evals + k * MiniCost /\ UNCHANGED disk
    BY <1>0, <1>9, <2>0, Spent DEF EvaluateChildren
  <2>2. Left' \in {0, sel * ValCost} /\ Left = Mini + Vals  BY <2>1 DEF Left
  <2>3. PICK m \in Nat : m = k * MiniCost  BY <2>0
  <2>4. Left' \in Nat /\ Left' <= Vals  BY <2>0, <2>2, Costs
  <2> QED  BY <1>0, <2>0, <2>1, <2>2, <2>3, <2>4, Costs DEF Spends, Busy
<1>10. CASE EvaluateOnValset
  <2>1. pc = "val" /\ pc' = "add" /\ UNCHANGED <<st, disk, queue>>  BY <1>10 DEF EvaluateOnValset
  <2>2. Left' = Left  BY <2>1 DEF Left
  <2> QED  BY <1>0, <2>1, <2>2 DEF Spends, Busy
<1>11. ASSUME NEW n \in 0..ValCost, AddSelected(n) PROVE Spends
  <2>1. /\ n \in Nat /\ n <= ValCost /\ pc = "add" /\ pc' = (IF queue = 1 THEN "end" ELSE "add")
        /\ st'.evals = st.evals + n /\ UNCHANGED disk
        /\ queue' = queue - 1 /\ queue \in Nat \ {0}
    BY <1>0, <1>11, Spent, Costs DEF AddSelected, Shaped
  <2>2. Left = queue * ValCost /\ Left' \in {0, (queue - 1) * ValCost}  BY <2>1 DEF Left
  <2>3. /\ (queue - 1) * ValCost + ValCost = queue * ValCost /\ (queue - 1) * ValCost \in Nat
        /\ ValCost <= queue * ValCost
    BY <2>1, OneLess, Costs
  <2>4. PICK v \in Nat : v = ValCost  BY Costs
  <2>5. PICK p \in Nat : p = (queue - 1) * v  BY <2>3, <2>4
  <2>6. Left = p + v  BY <2>2, <2>3, <2>4, <2>5, Zenon
  <2>7. Left' \in {0, p}  BY <2>2, <2>4, <2>5, Zenon
  <2>8. n <= v  BY <2>1, <2>4
  <2>9. PICK l \in Nat : l = Left'  BY <2>7
  <2>10. st'.evals + Left' <= st.evals + Left
    <3>1. n \in Nat /\ st'.evals = st.evals + n  BY <2>1
    <3>2. l \in {0, p}  BY <2>7, <2>9, Zenon
    <3>3. n + l <= p + v  BY <3>1, <3>2, <2>8
    <3>4. st.evals + n + l <= st.evals + (p + v)  BY <1>0, <3>1, <3>3
    <3> QED  BY <2>6, <2>9, <3>1, <3>4, Zenon
  <2>11. pc' \in Busy /\ disk' = disk  BY <2>1 DEF Busy, Early
  <2> QED  BY <2>10, <2>11 DEF Spends
<1>12. ASSUME NEW k \in 0..BatchSize, NEW fatal \in BOOLEAN, FailEvaluation(k * MiniCost, fatal)
       PROVE  Spends \/ Die
  <2>1. k * MiniCost \in Nat /\ k * MiniCost <= Mini
    BY <1>0, Multiples, Costs DEF Mini
  <2>2. k * MiniCost <= Left
    <3>1. CASE pc = "propose"
      <4>1. Left = Mini + Vals  BY <3>1 DEF Left
      <4> QED  BY <4>1, <2>1, Costs
    <3>2. CASE pc # "propose"
      BY <3>2, <1>12, <1>0 DEF FailEvaluation
    <3> QED  BY <3>1, <3>2
  <2>3. Catch(Spend(k * MiniCost), fatal) /\ Spend(k * MiniCost).evals = st.evals + k * MiniCost
    BY <1>0, <1>12, <2>1, Spent DEF FailEvaluation
  <2> QED  BY <2>1, <2>2, <2>3, CatchSpends
<1>13. ASSUME NEW n \in 0..ValCost, NEW stage \in AddFaults, FailAdd(n, stage) PROVE Spends \/ Die
  <2>1. n \in Nat /\ n <= ValCost  BY Costs
  <2>2. n <= Left
    <3>1. CASE pc = "mergeAdd"
      BY <3>1, <2>1 DEF Left
    <3>2. CASE pc = "add"
      <4>1. Left = queue * ValCost /\ ValCost <= queue * ValCost /\ queue * ValCost \in Nat
        BY <3>2, <1>0, OneLess, Costs DEF Left, Shaped
      <4> QED  BY <4>1, <2>1, Costs
    <3> QED  BY <3>1, <3>2, <1>13 DEF FailAdd
  <2>3. Catch(AddUpTo(n, stage), FALSE) /\ AddUpTo(n, stage).evals = st.evals + n
    BY <1>0, <1>13, <2>1, Spent DEF FailAdd
  <2> QED  BY <2>1, <2>2, <2>3, CatchSpends
<1>14. CASE End
  BY <1>14 DEF End, Closes
<1>15. CASE RequestStop
  BY <1>15 DEF RequestStop, Hears
<1>16. CASE Crash
  BY <1>16 DEF Crash
<1> QED
  BY <1>1, <1>4, <1>5, <1>6, <1>7, <1>8, <1>9, <1>10, <1>11, <1>12, <1>13,
     <1>14, <1>15, <1>16 DEF Next, Step

LEMMA StepBudget ==
  ASSUME Shaped, BudgetInv, [Next]_vars
  PROVE  BudgetInv'
<1>0. /\ st.evals \in Nat /\ disk.evals \in Nat /\ Left \in Nat
  BY LeftIsNat DEF Shaped, StateShape
<1>1. CASE UNCHANGED vars
  BY <1>1 DEF vars, BudgetInv, Within, Left
<1>2. CASE Hears
  <2>1. Left' = Left  BY <1>2 DEF Hears, Left
  <2> QED  BY <1>2, <2>1 DEF Hears, BudgetInv, Within
<1>3. CASE Die
  <2>1. st'.evals = 0 /\ pc' = "off" /\ disk' = disk  BY <1>3, Shapes DEF Die
  <2> QED  BY <2>1, Costs DEF BudgetInv, Within, Busy, Early
<1>4. CASE Closes
  <2>1. Left = 0 /\ pc \in Busy /\ pc' \notin Busy /\ UNCHANGED <<st, disk>>
    BY <1>4 DEF Closes, Left, Busy, Early
  <2>2. disk.evals < MaxMetricCalls /\ st.evals <= disk.evals + IterationCost
    BY <1>0, <2>1 DEF BudgetInv
  <2>3. st.evals < MaxMetricCalls + IterationCost  BY <1>0, <2>2, Costs
  <2> QED  BY <2>1, <2>3 DEF BudgetInv, Within
<1>5. CASE pc \in Busy /\ Spends /\ Next
  <2>1. pc' \in Busy /\ disk' = disk /\ st'.evals + Left' <= st.evals + Left
    BY <1>5 DEF Spends
  <2>2. disk.evals < MaxMetricCalls /\ st.evals + Left <= disk.evals + IterationCost
    BY <1>5 DEF BudgetInv
  <2>3. Shaped'
    BY StepShaped, <1>5, <1>1
  <2>4. Left' \in Nat /\ st'.evals \in Nat  BY <2>3, LeftNext DEF Shaped, StateShape
  <2>5. st'.evals + Left' <= disk.evals + IterationCost  BY <1>0, <2>1, <2>2, <2>4, Costs
  <2> QED  BY <2>1, <2>2, <2>5 DEF BudgetInv, Within
<1>6. CASE Opens
  <2>1. st' = SeedState \/ st' = disk  BY <1>6 DEF Opens, Loaded
  <2>2. SeedState.evals = ValCost  BY DEF SeedState
  <2>3. pc' \notin Busy /\ disk' = disk  BY <1>6 DEF Opens, Busy, Early
  <2> QED  BY <2>1, <2>2, <2>3, Costs DEF BudgetInv, Within
<1>7. CASE Persists
  <2>1. disk' = st /\ Within(st)  BY <1>7 DEF Persists, BudgetInv, Busy, Early
  <2>2. CASE pc' = "done"
    <3>1. st' = st  BY <1>7, <2>2 DEF Persists
    <3> QED  BY <2>1, <2>2, <3>1 DEF BudgetInv, Busy, Early, Within
  <2>3. CASE pc' = "merge" /\ ~ShouldStop /\ st'.evals = st.evals
    <3>1. st.evals < MaxMetricCalls  BY <1>0, <2>3, Costs DEF ShouldStop
    <3>2. Left' = IterationCost  BY <2>3 DEF Left
    <3> QED  BY <1>0, <2>1, <2>3, <3>1, <3>2, Costs DEF BudgetInv, Busy, Early, Within
  <2> QED  BY <1>7, <2>2, <2>3 DEF Persists
<1>8. CASE pc \in Busy /\ ~UNCHANGED vars
  BY <1>8, <1>2, <1>3, <1>4, <1>5, StepSpends
<1>9. CASE pc \notin Busy /\ ~UNCHANGED vars
  <2>1. ~Works  BY <1>9 DEF Works
  <2> QED  BY <1>9, <2>1, <1>2, <1>3, <1>4, <1>6, <1>7, StepCases
<1> QED  BY <1>1, <1>8, <1>9

(***************************************************************************)
(* max_metric_calls is looked at between iterations only; whatever fails,   *)
(* dies and resumes, it is overrun by less than the dearest iteration.      *)
(***************************************************************************)
THEOREM OvershootStaysBounded == Spec => []OvershootBounded
<1>1. Init => BudgetInv
  BY Shapes, Costs DEF Init, BudgetInv, Within, Busy, Early
<1>2. EngineInv /\ BudgetInv /\ [Next]_vars => BudgetInv'
  BY StepBudget DEF EngineInv
<1>3. EngineInv /\ BudgetInv => OvershootBounded
  <2> SUFFICES ASSUME EngineInv, BudgetInv PROVE OvershootBounded
    OBVIOUS
  <2>1. st.evals \in Nat /\ disk.evals \in Nat /\ Left \in Nat
    BY LeftIsNat DEF EngineInv, Shaped, StateShape
  <2>2. CASE pc \in Busy
    <3>1. disk.evals < MaxMetricCalls /\ st.evals + Left <= disk.evals + IterationCost
      BY <2>2 DEF BudgetInv
    <3>2. st.evals < MaxMetricCalls + IterationCost  BY <2>1, <3>1, Costs
    <3> QED  BY <3>2 DEF OvershootBounded
  <2>3. CASE pc \notin Busy
    BY <2>3 DEF BudgetInv, Within, OvershootBounded
  <2> QED  BY <2>2, <2>3
<1> QED  BY <1>1, <1>2, <1>3, EngineInvariant, PTL DEF Spec

-----------------------------------------------------------------------------
(* The credit of merges.                                                   *)

\* The programs that pay are of the pool, each once; merges cost one each.
CreditInv ==
    /\ mp \in [due : Int, tested : Int, found : BOOLEAN]
    /\ announced \subseteq DOMAIN st.pool /\ discovered \subseteq DOMAIN st.pool
    /\ disk = NoState \/ disk.pool # <<>>
    /\ pc = "off" => discovered = {}
    /\ mp.due + mp.tested <= Cardinality(discovered)

LEMMA Discovers ==
  ASSUME Shaped, CreditInv
  PROVE  /\ IsFiniteSet(discovered) /\ Cardinality(discovered) \in Nat
         /\ Cardinality(discovered \union {Len(st.pool) + 1}) = Cardinality(discovered) + 1
<1>1. Len(st.pool) \in Nat /\ DOMAIN st.pool = 1..Len(st.pool)
  BY DEF Shaped, StateShape
<1>2. IsFiniteSet(1..Len(st.pool))
  BY <1>1, FS_Interval
<1>3. IsFiniteSet(discovered)
  BY <1>1, <1>2, FS_Subset DEF CreditInv
<1>4. Len(st.pool) + 1 \notin discovered
  BY <1>1 DEF CreditInv
<1> QED  BY <1>3, <1>4, FS_AddElement, FS_CardinalityType

LEMMA StepCredit ==
  ASSUME Shaped, CreditInv, Next
  PROVE  CreditInv'
<1>0. /\ st.pool \in Seq(Nat) /\ Len(st.pool) \in Nat /\ DOMAIN st.pool = 1..Len(st.pool)
      /\ StateShape(st)
      /\ mp \in [due : Int, tested : Int, found : BOOLEAN]
      /\ announced \subseteq DOMAIN st.pool /\ discovered \subseteq DOMAIN st.pool
      /\ disk = NoState \/ disk.pool # <<>>
      /\ mp.due + mp.tested <= Cardinality(discovered)
  BY DEF Shaped, StateShape, CreditInv
<1>1. ASSUME discovered' = {}, mp' = FreshMerge, disk' = disk, announced' \subseteq DOMAIN st'.pool
      PROVE  CreditInv'
  <2>1. Cardinality(discovered') = 0  BY <1>1, FS_EmptySet
  <2> QED  BY <1>0, <1>1, <2>1 DEF CreditInv, FreshMerge
<1>2. CASE Start \/ Die
  BY <1>1, <1>2 DEF Start, Die, CreditInv
<1>3. ASSUME NEW n \in 0..ValCost, AddMerge(n) \/ AddSelected(n) PROVE CreditInv'
  <2>0. n \in Nat /\ n <= ValCost /\ pc # "off" /\ pc' # "off"
    BY <1>3, Costs DEF AddMerge, AddSelected
  <2>1. st'.pool = Append(st.pool, st.i) /\ Announce /\ disk' = disk
    <3>1. AddUpTo(n, "done").pool = Append(st.pool, st.i)  BY <1>0, <2>0, AddAppends
    <3>2. st' = AddUpTo(n, "done")  BY <1>3 DEF AddMerge, AddSelected
    <3> QED  BY <1>3, <3>1, <3>2 DEF AddMerge, AddSelected
  <2>2. /\ st.i \in Nat /\ DOMAIN st'.pool = 1..(Len(st.pool) + 1)
        /\ announced' \subseteq DOMAIN st'.pool
        /\ discovered \union {Len(st.pool) + 1} \subseteq DOMAIN st'.pool
    <3>1. st.i \in Nat /\ DOMAIN st'.pool = 1..(Len(st.pool) + 1)
      BY <1>0, <2>1, Longer DEF StateShape
    <3> QED  BY <1>0, <2>1, <3>1 DEF Announce
  <2>3. mp.due \in Int /\ mp.tested \in Int  BY <1>0
  <2>4. CASE AddMerge(n)
    <3>1. mp' = [due |-> mp.due - 1, tested |-> mp.tested + 1, found |-> mp.found]
      BY <1>0, <2>4 DEF AddMerge, ConsumeMerge
    <3>2. mp'.due + mp'.tested = mp.due + mp.tested  BY <2>3, <3>1
    <3>3. discovered' = discovered  BY <2>4 DEF AddMerge
    <3> QED  BY <1>0, <2>0, <2>1, <2>2, <2>3, <3>1, <3>2, <3>3 DEF CreditInv
  <2>5. CASE AddSelected(n)
    <3>1. PICK due \in {mp.due, mp.due + 1} :
            mp' = [due |-> due, tested |-> mp.tested, found |-> TRUE]
      BY <1>0, <2>5 DEF AddSelected, ScheduleMerge
    <3>2. discovered' = discovered \union {Len(st.pool) + 1}  BY <2>5 DEF AddSelected
    <3>3. Cardinality(discovered) \in Nat /\ Cardinality(discovered') = Cardinality(discovered) + 1
      BY <3>2, Discovers
    <3>4. mp'.due + mp'.tested <= Cardinality(discovered')  BY <1>0, <2>3, <3>1, <3>3
    <3> QED  BY <1>0, <2>0, <2>1, <2>2, <2>3, <3>1, <3>2, <3>4 DEF CreditInv
  <2> QED  BY <1>3, <2>4, <2>5
<1>4. CASE /\ UNCHANGED <<announced, discovered>> /\ pc # "off" /\ pc' # "off"
           /\ mp' \in {mp, ClearFound} /\ DOMAIN st.pool \subseteq DOMAIN st'.pool
           /\ disk' \in {disk, st}
  <2>1. /\ mp' \in [due : Int, tested : Int, found : BOOLEAN]
        /\ mp'.due = mp.due /\ mp'.tested = mp.tested
    BY <1>0, <1>4 DEF ClearFound
  <2>2. st.pool # <<>>  BY <1>4 DEF Shaped
  <2> QED  BY <1>0, <1>4, <2>1, <2>2 DEF CreditInv
<1>5. ASSUME NEW s, NEW fatal, Catch(s, fatal), pc \notin {"off"}, DOMAIN st.pool \subseteq DOMAIN s.pool
      PROVE  CreditInv'
  BY <1>2, <1>4, <1>5 DEF Catch
<1>6. CASE Finish \/ SkipMerge \/ ProposeNothing \/ EvaluateOnValset \/ End \/ RequestStop
  <2>1. /\ UNCHANGED <<announced, discovered, st>> /\ pc # "off" /\ pc' # "off"
        /\ mp' \in {mp, ClearFound} /\ disk' \in {disk, st}
    BY <1>6 DEF Finish, Save, SkipMerge, ProposeNothing, EvaluateOnValset, End, RequestStop
  <2> QED  BY <1>4, <2>1
<1>7. CASE Begin
  <2>1. st'.pool = st.pool  BY <1>0, <1>7 DEF Begin, StateShape
  <2>2. UNCHANGED <<announced, discovered, mp>> /\ pc # "off" /\ pc' # "off" /\ disk' = st
    BY <1>7 DEF Begin, Save
  <2> QED  BY <1>4, <2>1, <2>2
<1>8. ASSUME NEW n \in Nat, st' = Spend(n), UNCHANGED <<announced, discovered, disk>>,
             pc # "off", pc' # "off", mp' \in {mp, ClearFound}
      PROVE  CreditInv'
  <2>1. st'.pool = st.pool  BY <1>0, <1>8, SpendContinues
  <2> QED  BY <1>4, <1>8, <2>1
<1>9. ASSUME NEW n \in 0..SubsampleCost, NEW verdict \in BOOLEAN, ProposeMerge(n, verdict)
      PROVE  CreditInv'
  <2>1. n \in Nat  BY Costs
  <2> QED  BY <1>8, <1>9, <2>1 DEF ProposeMerge
<1>10. ASSUME NEW k \in 1..BatchSize, EvaluateParents(k) PROVE CreditInv'
  <2>1. k * MiniCost \in Nat  BY EngineAssumption, Multiples
  <2> QED  BY <1>8, <1>10, <2>1 DEF EvaluateParents
<1>11. ASSUME NEW k \in 1..BatchSize, NEW sel \in 0..k, EvaluateChildren(k, sel) PROVE CreditInv'
  <2>1. k * MiniCost \in Nat  BY EngineAssumption, Multiples
  <2> QED  BY <1>8, <1>11, <2>1 DEF EvaluateChildren
<1>12. ASSUME NEW k \in 0..BatchSize, NEW fatal \in BOOLEAN, FailEvaluation(k * MiniCost, fatal)
       PROVE  CreditInv'
  <2>1. k * MiniCost \in Nat  BY EngineAssumption, Multiples
  <2>2. Spend(k * MiniCost).pool = st.pool  BY <1>0, <2>1, SpendContinues
  <2> QED  BY <1>5, <1>12, <2>2 DEF FailEvaluation
<1>13. ASSUME NEW n \in 0..ValCost, NEW stage \in AddFaults, FailAdd(n, stage) PROVE CreditInv'
  <2>1. n \in Nat /\ st.i \in Nat  BY <1>0, Costs DEF StateShape
  <2>2. AddUpTo(n, stage).pool \in {st.pool, Append(st.pool, st.i)}
    BY <1>0, <2>1, AddContinues DEF Continues
  <2>3. DOMAIN st.pool \subseteq DOMAIN AddUpTo(n, stage).pool
    BY <1>0, <2>1, <2>2, Longer
  <2> QED  BY <1>5, <1>13, <2>3 DEF FailAdd
<1>14. CASE Crash
  BY <1>2, <1>14 DEF Crash
<1> QED
  BY <1>2, <1>3, <1>6, <1>7, <1>9, <1>10, <1>11, <1>12, <1>13, <1>14 DEF Next, Step

-----------------------------------------------------------------------------
(* What a merge follows.                                                   *)

\* The iteration whose discovery the flag speaks of: the last one that has
\* been through its merge phase.
LastTurn == IF pc = "merge" THEN st.i - 1 ELSE st.i

\* One merge may still be judged while the flag is up.
Owed == IF UseMerge /\ mp.found THEN 1 ELSE 0

\* The flag is up exactly when reflection found a program in the last turn,
\* and the merges judged, with the one the flag allows, are at most one for
\* each iteration with a discovery.
FollowInv ==
    /\ attempts \in Nat
    /\ pc = "off" \/ ~UseMerge => attempts = 0
    /\ pc = "merge" => before = st.evals
    /\ \A j \in DiscoveryIterations : j <= LastTurn
    /\ UseMerge => (mp.found <=> LastTurn \in DiscoveryIterations)
    /\ attempts + Owed <= Cardinality(DiscoveryIterations)

LEMMA Iterations ==
  ASSUME Shaped, CreditInv, FollowInv
  PROVE  /\ IsFiniteSet(DiscoveryIterations) /\ Cardinality(DiscoveryIterations) \in Nat
         /\ DiscoveryIterations \subseteq Nat
<1>1. st.i \in Nat /\ LastTurn \in Int /\ LastTurn <= st.i
  BY DEF Shaped, StateShape, LastTurn
<1>2. DiscoveryIterations \subseteq Nat
  BY DEF Shaped, StateShape, CreditInv, DiscoveryIterations
<1>3. DiscoveryIterations \subseteq 0..st.i
  BY <1>1, <1>2 DEF FollowInv
<1>4. IsFiniteSet(DiscoveryIterations)
  <2>1. IsFiniteSet(0..st.i)  BY <1>1, FS_Interval
  <2> QED  BY <1>3, <2>1, FS_Subset
<1> QED  BY <1>2, <1>4, FS_CardinalityType

\* A pool that keeps its programs keeps the iterations they are from.
LEMMA SameDiscoveries ==
  ASSUME Shaped, CreditInv, discovered' = discovered,
         st'.pool = st.pool \/ st'.pool = Append(st.pool, st.i)
  PROVE  DiscoveryIterations' = DiscoveryIterations
<1>1. st.pool \in Seq(Nat) /\ st.i \in Nat /\ discovered \subseteq DOMAIN st.pool
  BY DEF Shaped, StateShape, CreditInv
<1>2. \A k \in DOMAIN st.pool : st'.pool[k] = st.pool[k]
  <2>1. CASE st'.pool = st.pool
    BY <2>1
  <2>2. CASE st'.pool = Append(st.pool, st.i)
    <3>1. \A k \in 1..Len(st.pool) : Append(st.pool, st.i)[k] = st.pool[k]
      BY <1>1
    <3> QED  BY <1>1, <2>2, <3>1
  <2> QED  BY <2>1, <2>2
<1> QED  BY <1>1, <1>2 DEF DiscoveryIterations

\* A step that neither opens nor judges anything keeps the invariant.
LEMMA FollowKeeps ==
  ASSUME FollowInv, DiscoveryIterations' = DiscoveryIterations, LastTurn' = LastTurn,
         mp'.found = mp.found, attempts' = attempts, pc' # "off",
         pc' = "merge" => before' = st'.evals
  PROVE  FollowInv'
<1>1. Owed' = Owed  BY DEF Owed
<1> QED  BY <1>1 DEF FollowInv

LEMMA StepFollow ==
  ASSUME Shaped, CreditInv, FollowInv, Next
  PROVE  FollowInv'
<1>0. /\ StateShape(st) /\ st.pool \in Seq(Nat) /\ st.i \in Nat /\ st.evals \in Nat
      /\ mp \in [due : Int, tested : Int, found : BOOLEAN] /\ attempts \in Nat
      /\ UseMerge \in BOOLEAN
      /\ IsFiniteSet(DiscoveryIterations) /\ Cardinality(DiscoveryIterations) \in Nat
      /\ DiscoveryIterations \subseteq Nat
  BY EngineAssumption, Iterations DEF Shaped, StateShape, CreditInv, FollowInv
<1>1. ASSUME discovered' = {}, attempts' = 0, mp' = FreshMerge, pc' # "merge"
      PROVE  FollowInv'
  <2>1. DiscoveryIterations' = {}  BY <1>1 DEF DiscoveryIterations
  <2>2. Cardinality(DiscoveryIterations') = 0  BY <2>1, FS_EmptySet
  <2>3. Owed' = 0  BY <1>1 DEF Owed, FreshMerge
  <2> QED  BY <1>1, <2>1, <2>2, <2>3 DEF FollowInv, FreshMerge
<1>2. CASE Start \/ Die
  BY <1>1, <1>2 DEF Start, Die, FollowInv, CreditInv
<1>3. ASSUME pc \in Phases \ {"off", "merge"}, pc' \in Phases \ {"off", "merge"}, st'.i = st.i,
             st'.pool = st.pool \/ st'.pool = Append(st.pool, st.i),
             mp'.found = mp.found, UNCHANGED <<discovered, attempts>>
      PROVE  FollowInv'
  <2>1. LastTurn' = LastTurn  BY <1>3 DEF LastTurn
  <2> QED  BY <1>3, <2>1, SameDiscoveries, FollowKeeps
<1>4. CASE Begin
  <2>1. st'.i = st.i + 1 /\ st'.pool = st.pool /\ st'.evals = st.evals
    BY <1>0, <1>4 DEF Begin, StateShape
  <2>2. pc = "head" /\ pc' = "merge" /\ before' = st.evals /\ UNCHANGED <<mp, discovered, attempts>>
    BY <1>4 DEF Begin
  <2>3. LastTurn' = LastTurn  BY <1>0, <2>1, <2>2 DEF LastTurn
  <2> QED  BY <2>1, <2>2, <2>3, SameDiscoveries, FollowKeeps
<1>5. CASE SkipMerge \/ \E n \in 0..SubsampleCost, verdict \in BOOLEAN : ProposeMerge(n, verdict)
  <2>1. /\ pc = "merge" /\ pc' \in {"reflect", "mergeAdd", "end"} /\ mp' = ClearFound
        /\ discovered' = discovered
    BY <1>5 DEF SkipMerge, ProposeMerge
  <2>2. st'.i = st.i /\ st'.pool = st.pool
    <3>1. ASSUME NEW n \in 0..SubsampleCost, st' = Spend(n) PROVE st'.i = st.i /\ st'.pool = st.pool
      <4>1. n \in Nat  BY Costs
      <4> QED  BY <1>0, <3>1, <4>1, SpendContinues DEF Continues
    <3> QED  BY <1>5, <3>1 DEF SkipMerge, ProposeMerge
  <2>3. DiscoveryIterations' = DiscoveryIterations  BY <2>1, <2>2, SameDiscoveries
  <2>4. LastTurn = st.i - 1 /\ LastTurn' = st.i  BY <2>1, <2>2 DEF LastTurn
  <2>5. \A j \in DiscoveryIterations' : j <= LastTurn' /\ j # LastTurn'
    BY <1>0, <2>3, <2>4 DEF FollowInv
  <2>6. (UseMerge => mp'.found = FALSE) /\ Owed' = 0
    BY <1>0, <2>1 DEF ClearFound, Owed
  <2>7. attempts' = attempts \/ (attempts' = attempts + 1 /\ UseMerge /\ mp.found)
    BY <1>5 DEF SkipMerge, ProposeMerge, MergeScheduled
  <2>8. /\ attempts' \in Nat /\ (~UseMerge => attempts' = 0)
        /\ attempts' <= Cardinality(DiscoveryIterations)
    BY <1>0, <2>7 DEF FollowInv, Owed
  <2>9. attempts' + Owed' <= Cardinality(DiscoveryIterations')
    BY <2>3, <2>6, <2>8
  <2> QED  BY <2>1, <2>5, <2>6, <2>8, <2>9 DEF FollowInv
<1>6. ASSUME NEW n \in 0..ValCost, AddMerge(n) PROVE FollowInv'
  <2>1. mp'.found = mp.found  BY <1>0, <1>6 DEF AddMerge, ConsumeMerge
  <2>2. n \in Nat  BY Costs
  <2>3. st' = AddUpTo(n, "done")  BY <1>6 DEF AddMerge
  <2>4. st'.i = st.i /\ st'.pool = Append(st.pool, st.i)
    BY <1>0, <2>2, <2>3, AddAppends, AddContinues DEF Continues
  <2> QED  BY <1>3, <1>6, <2>1, <2>4 DEF AddMerge, Phases
<1>7. ASSUME NEW n \in 0..ValCost, AddSelected(n) PROVE FollowInv'
  <2>1. n \in Nat  BY Costs
  <2>2. /\ st' = AddUpTo(n, "done") /\ pc = "add" /\ pc' \in {"add", "end"} /\ attempts' = attempts
        /\ discovered' = discovered \union {Len(st.pool) + 1} /\ mp' = ScheduleMerge
    BY <1>7 DEF AddSelected
  <2>3. st'.pool = Append(st.pool, st.i) /\ st'.i = st.i
    BY <1>0, <2>1, <2>2, AddAppends, AddContinues DEF Continues
  <2>4. LastTurn = st.i /\ LastTurn' = st.i  BY <2>2, <2>3 DEF LastTurn
  <2>5. DiscoveryIterations' = DiscoveryIterations \union {st.i}
    <3>1. discovered \subseteq DOMAIN st.pool  BY DEF CreditInv
    <3>2. /\ \A k \in DOMAIN st.pool : st'.pool[k] = st.pool[k]
          /\ st'.pool[Len(st.pool) + 1] = st.i
      BY <1>0, <2>3
    <3> QED  BY <2>2, <3>1, <3>2 DEF DiscoveryIterations
  <2>6. mp'.found = TRUE  BY <1>0, <2>2 DEF ScheduleMerge
  <2>7. Cardinality(DiscoveryIterations') = IF st.i \in DiscoveryIterations
           THEN Cardinality(DiscoveryIterations) ELSE Cardinality(DiscoveryIterations) + 1
    BY <1>0, <2>5, FS_AddElement
  <2>8. attempts + Owed' <= Cardinality(DiscoveryIterations')
    <3>1. CASE UseMerge
      <4>1. Owed' = 1  BY <2>6, <3>1 DEF Owed
      <4>2. Owed = IF st.i \in DiscoveryIterations THEN 1 ELSE 0
        BY <2>4, <3>1 DEF Owed, FollowInv
      <4>3. attempts + Owed <= Cardinality(DiscoveryIterations)  BY DEF FollowInv
      <4> QED  BY <1>0, <2>7, <4>1, <4>2, <4>3
    <3>2. CASE ~UseMerge
      <4>1. Owed' = 0 /\ attempts = 0  BY <3>2 DEF Owed, FollowInv
      <4> QED  BY <1>0, <2>7, <4>1
    <3> QED  BY <3>1, <3>2
  <2>9. \A j \in DiscoveryIterations' : j <= LastTurn'
    BY <1>0, <2>4, <2>5 DEF FollowInv
  <2>10. LastTurn' \in DiscoveryIterations'  BY <2>4, <2>5
  <2>11. ~UseMerge => attempts' = 0  BY <2>2 DEF FollowInv
  <2> QED  BY <1>0, <2>2, <2>6, <2>8, <2>9, <2>10, <2>11 DEF FollowInv
<1>8. CASE /\ pc \in {"reflect", "propose", "val", "mergeAdd"} /\ pc' \in {"propose", "end", "val", "add"}
           /\ UNCHANGED <<mp, discovered, attempts>>
           /\ st' = st \/ \E n \in Nat : st' = Spend(n)
  <2>1. st'.i = st.i /\ st'.pool = st.pool
    BY <1>0, <1>8, SpendContinues DEF Continues
  <2> QED  BY <1>3, <1>8, <2>1 DEF Phases
<1>9. CASE \/ \E k \in 1..BatchSize : EvaluateParents(k)
           \/ \E k \in 1..BatchSize : \E sel \in 0..k : EvaluateChildren(k, sel)
           \/ ProposeNothing \/ EvaluateOnValset
  <2>1. \A k \in 1..BatchSize : k * MiniCost \in Nat  BY EngineAssumption, Multiples
  <2> QED
    BY <1>8, <1>9, <2>1 DEF EvaluateParents, EvaluateChildren, ProposeNothing, EvaluateOnValset
<1>10. ASSUME NEW k \in 0..BatchSize, NEW fatal \in BOOLEAN, FailEvaluation(k * MiniCost, fatal)
       PROVE  FollowInv'
  <2>0. k * MiniCost \in Nat  BY EngineAssumption, Multiples
  <2>1. Catch(Spend(k * MiniCost), fatal)  BY <1>10 DEF FailEvaluation
  <2>2. CASE pc = "merge"
    <3>1. k * MiniCost = 0  BY <1>10, <2>2 DEF FailEvaluation
    <3>2. Spend(k * MiniCost).evals = before
      <4>1. Spend(0).evals = st.evals + 0  BY <1>0, Spent
      <4>2. Spend(k * MiniCost) = Spend(0)  BY <3>1, Zenon
      <4> QED  BY <1>0, <2>2, <4>1, <4>2 DEF FollowInv
    <3>3. Die  BY <1>0, <2>1, <2>2, <3>2 DEF Catch, WillContinue, FollowInv
    <3> QED  BY <1>2, <3>3
  <2>3. CASE pc # "merge"
    <3>1. pc \in {"reflect", "mergeAdd", "val", "propose"}  BY <1>10, <2>3 DEF FailEvaluation
    <3>2. CASE st' = Spend(k * MiniCost) /\ pc' = "end" /\ UNCHANGED <<mp, discovered, attempts>>
      BY <1>8, <2>0, <3>1, <3>2
    <3> QED  BY <1>2, <2>1, <3>2 DEF Catch
  <2> QED  BY <2>2, <2>3
<1>11. ASSUME NEW n \in 0..ValCost, NEW stage \in AddFaults, FailAdd(n, stage) PROVE FollowInv'
  <2>1. n \in Nat  BY Costs
  <2>2. Catch(AddUpTo(n, stage), FALSE) /\ pc \in {"mergeAdd", "add"}  BY <1>11 DEF FailAdd
  <2>3. CASE st' = AddUpTo(n, stage) /\ pc' = "end" /\ UNCHANGED <<mp, discovered, attempts>>
    <3>1. st'.i = st.i /\ st'.pool \in {st.pool, Append(st.pool, st.i)}
      BY <1>0, <2>1, <2>3, AddContinues DEF Continues
    <3> QED  BY <1>3, <2>2, <2>3, <3>1 DEF Phases
  <2> QED  BY <1>2, <2>2, <2>3 DEF Catch
<1>12. CASE Finish \/ End
  BY <1>3, <1>12 DEF Finish, End, Phases
<1>13. CASE RequestStop
  <2>1. LastTurn' = LastTurn /\ DiscoveryIterations' = DiscoveryIterations
    BY <1>13 DEF RequestStop, LastTurn, DiscoveryIterations
  <2> QED  BY <1>13, <2>1, FollowKeeps DEF RequestStop, FollowInv
<1>14. CASE Crash
  BY <1>2, <1>14 DEF Crash
<1> QED
  BY <1>2, <1>4, <1>5, <1>6, <1>7, <1>9, <1>10, <1>11, <1>12, <1>13, <1>14 DEF Next, Step

LEMMA CreditInvariant == Spec => [](CreditInv /\ FollowInv)
<1>1. Init => CreditInv /\ FollowInv
  <2> SUFFICES ASSUME Init PROVE CreditInv /\ FollowInv
    OBVIOUS
  <2>1. DiscoveryIterations = {} /\ discovered = {}  BY DEF Init, DiscoveryIterations
  <2>2. Cardinality({}) = 0  BY FS_EmptySet
  <2> QED  BY <2>1, <2>2 DEF Init, CreditInv, FollowInv, FreshMerge, Owed
<1>2. EngineInv /\ CreditInv /\ FollowInv /\ [Next]_vars => (CreditInv /\ FollowInv)'
  <2>1. ASSUME CreditInv, FollowInv, UNCHANGED vars PROVE (CreditInv /\ FollowInv)'
    <3>1. DiscoveryIterations' = DiscoveryIterations /\ LastTurn' = LastTurn /\ Owed' = Owed
      BY <2>1 DEF vars, DiscoveryIterations, LastTurn, Owed
    <3> QED  BY <2>1, <3>1 DEF vars, CreditInv, FollowInv
  <2> QED  BY <2>1, StepCredit, StepFollow DEF EngineInv
<1> QED  BY <1>1, <1>2, EngineInvariant, PTL DEF Spec

(***************************************************************************)
(* Merges never outrun reflection: those accepted and those due are paid    *)
(* for by programs that reflection added in this process, and those judged  *)
(* are at most the iterations in which it did.                              *)
(***************************************************************************)
THEOREM MergesArePaidFor == Spec => []MergeCredit
<1>1. EngineInv /\ CreditInv /\ FollowInv => MergeCredit
  <2> SUFFICES ASSUME EngineInv, CreditInv, FollowInv PROVE MergeCredit
    OBVIOUS
  <2>1. Cardinality(DiscoveryIterations) \in Nat  BY Iterations DEF EngineInv
  <2>2. Owed \in {0, 1} /\ attempts \in Nat /\ attempts + Owed <= Cardinality(DiscoveryIterations)
    BY DEF Owed, FollowInv
  <2>3. attempts <= Cardinality(DiscoveryIterations)  BY <2>1, <2>2
  <2> QED  BY <2>3 DEF CreditInv, MergeCredit
<1> QED  BY <1>1, CreditInvariant, EngineInvariant, PTL

(***************************************************************************)
(* A process judges a merge only right after an iteration in which          *)
(* reflection added a program: the flag never outlives the next iteration,  *)
(* and no merge raises it.                                                  *)
(***************************************************************************)
THEOREM MergesFollowDiscoveries == Spec => MergeFollowsDiscovery
<1>1. CreditInv /\ FollowInv /\ [Next]_vars
        => [attempts' = attempts + 1 => st.i - 1 \in DiscoveryIterations]_vars
  <2> SUFFICES ASSUME FollowInv, Next, attempts' = attempts + 1
               PROVE  st.i - 1 \in DiscoveryIterations
    OBVIOUS
  <2>1. attempts \in Nat  BY DEF FollowInv
  <2>2. \E n \in 0..SubsampleCost, verdict \in BOOLEAN : ProposeMerge(n, verdict)
    <3>1. attempts' # attempts /\ attempts' # 0  BY <2>1
    <3>2. ~Die  BY <3>1 DEF Die
    <3> QED
      BY <3>1, <3>2
      DEF Next, Step, Start, Finish, Begin, SkipMerge, AddMerge, EvaluateParents, ProposeNothing,
          EvaluateChildren, EvaluateOnValset, AddSelected, FailEvaluation, FailAdd, Catch, End,
          RequestStop, Crash
  <2>3. pc = "merge" /\ UseMerge /\ mp.found  BY <2>2 DEF ProposeMerge, MergeScheduled
  <2> QED  BY <2>3 DEF FollowInv, LastTurn
<1> QED  BY <1>1, CreditInvariant, PTL DEF Spec, MergeFollowsDiscovery

-----------------------------------------------------------------------------
(* What the callbacks are told.                                            *)

\* Programs carry the iteration that added them. Until the iteration ends all
\* of its programs are announced; of a fault that ends it, the last may not be.
TellInv ==
    /\ accepted => pc = "end"
    /\ \A k \in DOMAIN st.pool : st.pool[k] <= st.i
    /\ \A k \in DOMAIN disk.pool : disk.pool[k] <= disk.i
    /\ pc \in Busy \ {"end"} => \A k \in DOMAIN st.pool : st.pool[k] = st.i => k \in announced
    /\ IterationsTell

\* A step of a running process leaves the pool alone ...
Stays ==
    /\ st'.i = st.i /\ st'.pool = st.pool
    /\ UNCHANGED announced /\ disk' \in {disk, st}
    /\ pc' \in Busy \ {"end"} => pc \in Busy \ {"end"}
    /\ accepted' => accepted /\ pc' = pc

\* ... or opens an iteration, or adds a program of it and tells of it or fails.
OpensIteration ==
    /\ st'.i = st.i + 1 /\ st'.pool = st.pool
    /\ UNCHANGED announced /\ disk' = st
    /\ ~accepted'
Adds(told) ==
    /\ pc \in Busy \ {"end"} /\ pc' \in Busy
    /\ st'.i = st.i /\ st'.pool = Append(st.pool, st.i) /\ disk' = disk
    /\ announced' = IF told THEN announced \union {Len(st.pool) + 1} ELSE announced
    /\ ~told => pc' = "end"
    /\ accepted' => told /\ pc' = "end"

LEMMA TellCases ==
  ASSUME Shaped, TellInv, Next
  PROVE  Start \/ Die \/ Stays \/ OpensIteration \/ \E told \in BOOLEAN : Adds(told)
<1>0. StateShape(st) /\ st.i \in Nat
  BY DEF Shaped, StateShape
<1>1. CASE Finish \/ SkipMerge \/ ProposeNothing \/ EvaluateOnValset \/ End \/ RequestStop
  BY <1>1 DEF Finish, Save, SkipMerge, ProposeNothing, EvaluateOnValset, End, RequestStop,
              Stays, Busy, Early, TellInv
<1>2. CASE Begin
  BY <1>0, <1>2 DEF Begin, Save, StateShape, OpensIteration
<1>3. ASSUME NEW n \in Nat, st' = Spend(n), UNCHANGED <<announced, disk, accepted>>,
             pc \in Busy \ {"end"}
      PROVE  Stays
  <2>1. st'.i = st.i /\ st'.pool = st.pool  BY <1>0, <1>3, SpendContinues DEF Continues
  <2> QED  BY <1>3, <2>1 DEF Stays, TellInv
<1>4. ASSUME NEW n \in 0..SubsampleCost, NEW verdict \in BOOLEAN, ProposeMerge(n, verdict) PROVE Stays
  <2>1. n \in Nat  BY Costs
  <2> QED  BY <1>3, <1>4, <2>1 DEF ProposeMerge, Busy, Early
<1>5. ASSUME NEW k \in 1..BatchSize, EvaluateParents(k) PROVE Stays
  <2>1. k * MiniCost \in Nat  BY EngineAssumption, Multiples
  <2> QED  BY <1>3, <1>5, <2>1 DEF EvaluateParents, Busy, Early
<1>6. ASSUME NEW k \in 1..BatchSize, NEW sel \in 0..k, EvaluateChildren(k, sel) PROVE Stays
  <2>1. k * MiniCost \in Nat  BY EngineAssumption, Multiples
  <2> QED  BY <1>3, <1>6, <2>1 DEF EvaluateChildren, Busy, Early
<1>7. ASSUME NEW n \in 0..ValCost, AddMerge(n) \/ AddSelected(n) PROVE Adds(TRUE)
  <2>1. n \in Nat  BY Costs
  <2>2. st' = AddUpTo(n, "done") /\ Announce /\ disk' = disk /\ pc \in {"mergeAdd", "add"}
    BY <1>7 DEF AddMerge, AddSelected
  <2>3. st'.i = st.i /\ st'.pool = Append(st.pool, st.i)
    BY <1>0, <2>1, <2>2, AddAppends, AddContinues DEF Continues
  <2>4. pc' \in {"add", "end"} /\ (accepted' => pc' = "end")
    BY <1>7 DEF AddMerge, AddSelected
  <2> QED  BY <2>2, <2>3, <2>4 DEF Adds, Announce, Busy, Early
<1>8. ASSUME NEW k \in 0..BatchSize, NEW fatal \in BOOLEAN, FailEvaluation(k * MiniCost, fatal)
      PROVE  Die \/ Stays
  <2>1. k * MiniCost \in Nat  BY EngineAssumption, Multiples
  <2>2. Catch(Spend(k * MiniCost), fatal) /\ pc \in Busy \ {"end"}
    BY <1>8 DEF FailEvaluation, Busy, Early
  <2>3. \/ Die
        \/ st' = Spend(k * MiniCost) /\ UNCHANGED <<announced, disk, accepted>>
    BY <2>2 DEF Catch
  <2> QED  BY <1>3, <2>1, <2>2, <2>3
<1>9. ASSUME NEW n \in 0..ValCost, NEW stage \in AddFaults, FailAdd(n, stage)
      PROVE  Die \/ Stays \/ Adds(FALSE)
  <2>1. n \in Nat  BY Costs
  <2>2. Catch(AddUpTo(n, stage), FALSE) /\ pc \in {"mergeAdd", "add"}  BY <1>9 DEF FailAdd
  <2>3. CASE st' = AddUpTo(n, stage) /\ pc' = "end" /\ UNCHANGED <<announced, disk, accepted>>
    <3>1. st'.i = st.i /\ st'.pool \in {st.pool, Append(st.pool, st.i)}
      BY <1>0, <2>1, <2>3, AddContinues DEF Continues
    <3>2. ~accepted'  BY <2>2, <2>3 DEF TellInv
    <3> QED  BY <2>2, <2>3, <3>1, <3>2 DEF Stays, Adds, Busy, Early
  <2> QED  BY <2>2, <2>3 DEF Catch
<1> QED
  BY <1>1, <1>2, <1>4, <1>5, <1>6, <1>7, <1>8, <1>9 DEF Next, Step, Crash

LEMMA AddsTells ==
  ASSUME Shaped, CreditInv, TellInv, NEW told \in BOOLEAN, Adds(told)
  PROVE  TellInv'
<1> DEFINE n == Len(st.pool) + 1
<1>1. /\ st.i \in Nat /\ Len(st.pool) \in Nat \ {0} /\ DOMAIN st.pool = 1..Len(st.pool)
      /\ DOMAIN st'.pool = 1..n /\ st'.pool[n] = st.i
      /\ \A k \in DOMAIN st.pool : st'.pool[k] = st.pool[k]
  <2>1. st.pool \in Seq(Nat) /\ st.pool # <<>> /\ st.i \in Nat
    BY DEF Shaped, StateShape, Adds, Busy, Early
  <2> QED  BY <2>1 DEF Adds
<1>2. /\ pc \in Busy \ {"end"} /\ st'.i = st.i /\ disk' = disk
      /\ ~told => pc' = "end" /\ announced' = announced
      /\ told => announced' = announced \union {n}
      /\ accepted' => told /\ pc' = "end"
  BY DEF Adds
<1>3. \A k \in DOMAIN st.pool : st.pool[k] = st.i => k \in announced
  BY <1>2 DEF TellInv
<1>4. \A k \in DOMAIN st'.pool : st'.pool[k] <= st'.i
  BY <1>1, <1>2 DEF TellInv
<1>5. pc' \in Busy \ {"end"} => \A k \in DOMAIN st'.pool : st'.pool[k] = st'.i => k \in announced'
  BY <1>1, <1>2, <1>3
<1>6. ASSUME NEW k \in DOMAIN st'.pool, k \notin announced', NEW l \in DOMAIN st'.pool,
             st'.pool[l] = st'.pool[k]
      PROVE  l <= k
  <2>1. CASE k = n
    BY <1>1, <2>1
  <2>2. CASE k # n
    <3>1. k \in DOMAIN st.pool /\ k \notin announced
      BY <1>1, <1>2, <1>6, <2>2
    <3>2. l # n
      BY <1>1, <1>3, <1>6, <3>1
    <3>3. l \in DOMAIN st.pool /\ st.pool[l] = st.pool[k]
      BY <1>1, <1>6, <3>1, <3>2
    <3> QED  BY <3>1, <3>3 DEF TellInv, IterationsTell
  <2> QED  BY <2>1, <2>2
<1>7. accepted' => \E k \in announced' : k > 1 /\ st'.pool[k] = st'.i
  BY <1>1, <1>2
<1> QED  BY <1>2, <1>4, <1>5, <1>6, <1>7 DEF TellInv, IterationsTell

LEMMA StepTells ==
  ASSUME Shaped, CreditInv, TellInv, Next
  PROVE  TellInv'
<1>0. /\ st.i \in Nat /\ \A k \in DOMAIN st.pool : st.pool[k] \in Nat
  BY DEF Shaped, StateShape
<1>1. CASE Start
  <2>1. \A k \in DOMAIN st'.pool : st'.pool[k] <= st'.i
    BY <1>1 DEF Start, Loaded, SeedState, TellInv
  <2> QED  BY <1>1, <2>1 DEF Start, Busy, Early, TellInv, IterationsTell
<1>2. CASE Die
  BY <1>2, Shapes DEF Die, Busy, Early, TellInv, IterationsTell
<1>3. CASE Stays
  BY <1>3 DEF Stays, TellInv, IterationsTell
<1>4. CASE OpensIteration
  <2>1. \A k \in DOMAIN st'.pool : st'.pool[k] <= st'.i /\ st'.pool[k] # st'.i
    BY <1>0, <1>4 DEF OpensIteration, TellInv
  <2> QED  BY <1>4, <2>1 DEF OpensIteration, TellInv, IterationsTell
<1> QED  BY <1>1, <1>2, <1>3, <1>4, TellCases, AddsTells

(***************************************************************************)
(* The callbacks can rebuild the pool, up to the one program whose adding   *)
(* ended its iteration.                                                     *)
(***************************************************************************)
THEOREM CallbacksAreTold == Spec => []IterationsTell
<1>1. Init => TellInv
  BY Shapes DEF Init, TellInv, IterationsTell, Busy, Early
<1>2. EngineInv /\ CreditInv /\ TellInv /\ [Next]_vars => TellInv'
  <2>1. ASSUME TellInv, UNCHANGED vars PROVE TellInv'
    BY <2>1 DEF vars, TellInv, IterationsTell
  <2> QED  BY <2>1, StepTells DEF EngineInv
<1>3. TellInv => IterationsTell
  BY DEF TellInv
<1> QED  BY <1>1, <1>2, <1>3, EngineInvariant, CreditInvariant, PTL DEF Spec

=============================================================================
