-------------------------- MODULE ReplayedRun_proofs --------------------------
(***************************************************************************)
(* ReplayedRun for every number of tasks, iterations, deaths and provider   *)
(* errors:                                                                  *)
(*   the journals are write-once tables: an answer or a result waits for    *)
(*   its store only while its slot is free;                                 *)
(*   nothing goes on without its answer in the journal, and a resumed       *)
(*   iteration samples what the first one did, with the same cost;          *)
(*   the iterations of an epoch show every training example;                *)
(*   the replay of an iteration agrees with its first run, call by call;    *)
(*   nothing recorded is bought or run again.                               *)
(***************************************************************************)
EXTENDS ReplayedRun, TLAPS, FiniteSetTheorems, SequenceTheorems

Reflecting == {"reflect", "storeBatch", "single", "storeSingle", "children",
               "recordChildren", "judge"}

\* Where the loop is, and that no more tasks are left to reflect than there are.
Counted(result) == Len(result.jobs) \in 0..N

Placed ==
    /\ i \in Iterations \union {-1}
    /\ disk.i \in Iterations \union {-1}
    /\ at \notin {"down", "top", "done"} => i \in Iterations
    /\ cursor \in Nat
    /\ at \in Reflecting => Counted(feedback)
    /\ at = "recordParents" => \A r \in pending : Counted(r)
    /\ \A j \in Iterations : evals[<<j, "parents">>] # Nothing =>
                                Counted(evals[<<j, "parents">>].result)

\* The journals are tables over all slots and stages.
Tables ==
    /\ journal = [s \in Slots |-> journal[s]]
    /\ evals = [s \in Stages |-> evals[s]]

\* What waits to be stored waits for a slot of its own that is free.
Free ==
    /\ at \in {"storeBatch", "storeSingle"} =>
          /\ \A e \in pending : journal[Slot(e.ordinal)] = Nothing
          /\ \A e, f \in pending : e.ordinal = f.ordinal => e = f
    /\ at = "recordParents" => Kept("parents") = Nothing
    /\ at = "recordChildren" => Kept("children") = Nothing

IInv == Placed /\ Tables /\ Free

-----------------------------------------------------------------------------
\* An entry of a journal is not the empty slot.
LEMMA EntryIsSomething ==
    /\ \A r, t : [request |-> r, text |-> t] # Nothing
    /\ \A r, t : [items |-> r, result |-> t] # Nothing
<1>1. \A r, t : "empty" \notin DOMAIN [request |-> r, text |-> t]
  OBVIOUS
<1>2. \A r, t : "empty" \notin DOMAIN [items |-> r, result |-> t]
  OBVIOUS
<1>3. "empty" \in DOMAIN Nothing
  BY DEF Nothing
<1> QED
  BY <1>1, <1>2, <1>3

\* Of three numbers one is neither of two.
LEMMA FreshIsNew ==
    ASSUME NEW o \in Nat
    PROVE  Fresh(o) \in Nat /\ Fresh(o) # Held(o)
<1> DEFINE Range3 == (3 * o + 1)..(3 * o + 3)
<1>1. /\ 3 * o + 1 \in Range3 /\ 3 * o + 2 \in Range3 /\ 3 * o + 3 \in Range3
      /\ 3 * o + 1 # 3 * o + 2 /\ 3 * o + 2 # 3 * o + 3 /\ 3 * o + 1 # 3 * o + 3
      /\ Range3 \subseteq Nat
  OBVIOUS
<1> HIDE DEF Range3
<1>2. \A h, e : \E n \in Range3 : n # h /\ n # e
  BY <1>1
<1>3. \E n \in Range3 : n # Held(o) /\ n # Evaluated(o + 1)
  BY <1>2
<1>4. Fresh(o) = CHOOSE n \in Range3 : n # Held(o) /\ n # Evaluated(o + 1)
  BY DEF Fresh, Range3
<1>5. Fresh(o) \in Range3 /\ Fresh(o) # Held(o)
  BY <1>3, <1>4
<1> QED
  BY <1>1, <1>5

LEMMA FreshIsNumber == \A o \in Nat : Fresh(o) \in Nat
  BY FreshIsNew

\* The batch whose answers are to be stored.
LEMMA BatchBought ==
    ASSUME CallBatch, at' = "storeBatch"
    PROVE  /\ journaled /\ UNCHANGED <<tasks, feedback, cursor, texts, retried, cost, uncounted>>
           /\ \E answers \in [Missing -> Outcomes] :
                 /\ pending' = {[ordinal |-> cursor + k - 1, request |-> Request(k),
                                 text |-> Fresh(cursor + k - 1)] : k \in Said(answers, "text")}
                 /\ batch' = [answers |-> Cardinality(Said(answers, "text")),
                              error |-> WorstError(answers)]
                 /\ Said(answers, "none") = {}
<1>1. PICK answers \in [Missing -> Outcomes] : CallBatch!3!(answers)
  BY DEF CallBatch
<1> QED
  BY <1>1 DEF ResolveBatch, EndIteration

\* The first state.
LEMMA InitIInv == Init => IInv
<1> SUFFICES ASSUME Init PROVE IInv
  OBVIOUS
<1>1. Tables
  BY DEF Init, Tables
<1>2. Placed
  BY DEF Init, Placed, Reflecting, Stages, Phases, Iterations
<1>3. Free
  BY DEF Init, Free
<1> QED
  BY <1>1, <1>2, <1>3 DEF IInv

-----------------------------------------------------------------------------
\* A step that leaves both journals alone.
Quiet ==
    \/ Start \/ Die \/ Begin \/ Finish
    \/ MergeFindsNothing \/ MergeIsJudged \/ Sample
    \/ \E phase \in Phases : ReplayStage(phase) \/ RefuseStage(phase) \/ RunStage(phase)
    \/ NothingProposed \/ Judge
    \/ RefuseBatch \/ ReplayBatch \/ CallBatch \/ FinishBatch
    \/ RefuseCall \/ ReplayCall \/ CallGivesText \/ CallGivesNone \/ CallFails

LEMMA QuietKeepsTables == Quiet => UNCHANGED <<journal, evals>>
<1> SUFFICES ASSUME Quiet PROVE UNCHANGED <<journal, evals>>
  OBVIOUS
<1> USE DEF durable
<1>1. CASE Start
  BY <1>1 DEF Start
<1>2. CASE Die
  BY <1>2 DEF Die
<1>3. CASE Begin
  BY <1>3 DEF Begin
<1>4. CASE Finish
  BY <1>4 DEF Finish
<1>5. CASE MergeFindsNothing
  BY <1>5 DEF MergeFindsNothing
<1>6. CASE MergeIsJudged
  BY <1>6 DEF MergeIsJudged
<1>7. CASE Sample
  BY <1>7 DEF Sample
<1>8. CASE NothingProposed
  BY <1>8 DEF NothingProposed
<1>9. CASE Judge
  BY <1>9 DEF Judge
<1>10. CASE RefuseBatch
  BY <1>10 DEF RefuseBatch, Refuse
<1>11. CASE ReplayBatch
  BY <1>11 DEF ReplayBatch
<1>12. CASE CallBatch
  BY <1>12 DEF CallBatch
<1>13. CASE FinishBatch
  BY <1>13 DEF FinishBatch
<1>14. CASE RefuseCall
  BY <1>14 DEF RefuseCall, Refuse
<1>15. CASE ReplayCall
  BY <1>15 DEF ReplayCall
<1>16. CASE CallGivesText
  BY <1>16 DEF CallGivesText
<1>17. CASE CallGivesNone
  BY <1>17 DEF CallGivesNone
<1>18. CASE CallFails
  BY <1>18 DEF CallFails, Abort
<1>19. ASSUME NEW phase \in Phases, ReplayStage(phase) \/ RefuseStage(phase) \/ RunStage(phase)
     PROVE UNCHANGED <<journal, evals>>
  BY <1>19 DEF ReplayStage, RefuseStage, Refuse, RunStage
<1> QED
  BY <1>1, <1>2, <1>3, <1>4, <1>5, <1>6, <1>7, <1>8, <1>9, <1>10, <1>11, <1>12, <1>13, <1>14, <1>15, <1>16, <1>17, <1>18, <1>19 DEF Quiet

-----------------------------------------------------------------------------
\* Every step keeps the loop in its place.
LEMMA PlacedStep == IInv /\ [Next]_vars => Placed'
<1> SUFFICES ASSUME IInv, [Next]_vars PROVE Placed'
  OBVIOUS
<1> USE ReplayAssumption DEF IInv, Placed, Reflecting, Iterations
<1>1. CASE Start
  BY <1>1 DEF Start, Load, Idle, durable
<1>2. CASE Die
  BY <1>2 DEF Die, Idle, durable
<1>3. CASE Begin
  BY <1>3 DEF Begin, reflection
<1>4. CASE Finish
  BY <1>4 DEF Finish, reflection
<1>5. CASE MergeFindsNothing
  BY <1>5 DEF MergeFindsNothing, reflection, durable
<1>6. CASE MergeIsJudged
  BY <1>6 DEF MergeIsJudged, EndIteration, Idle, durable
<1>7. CASE Sample
  BY <1>7 DEF Sample, reflection, durable
<1>8. CASE NothingProposed
  BY <1>8 DEF NothingProposed, EndIteration, Idle, durable
<1>9. CASE Judge
  BY <1>9 DEF Judge, EndIteration, Idle, durable
<1>10. CASE RefuseBatch
  BY <1>10 DEF RefuseBatch, Refuse, reflection, durable
<1>11. CASE ReplayBatch
  BY <1>11 DEF ReplayBatch, ResolveBatch, Jobs, durable
<1>12. CASE CallBatch
  BY <1>12 DEF CallBatch, ResolveBatch, EndIteration, Idle, Jobs, reflection, durable
<1>13. CASE StoreOfBatch
  BY <1>13 DEF StoreOfBatch
<1>14. CASE FinishBatch
  BY <1>14 DEF FinishBatch, ResolveBatch, EndIteration, Idle, Jobs, durable
<1>15. CASE RefuseCall
  BY <1>15 DEF RefuseCall, Refuse, Single, reflection, durable
<1>16. CASE ReplayCall
  BY <1>16 DEF ReplayCall, Answered, Single, Jobs, durable
<1>17. CASE CallGivesText
  BY <1>17 DEF CallGivesText, Answered, Single, durable
<1>18. CASE StoreOfCall
  BY <1>18 DEF StoreOfCall, Answered
<1>19. CASE CallGivesNone
  <2>1. at' \in {"single", "children"} /\ cursor' \in {0, cursor}
    BY <1>19 DEF CallGivesNone, Answered
  <2>2. at \in Reflecting /\ UNCHANGED <<i, disk, feedback, pending, evals>>
    BY <1>19 DEF CallGivesNone, Single, durable
  <2> QED
    BY <2>1, <2>2
<1>20. CASE CallFails
  BY <1>20 DEF CallFails, Abort, EndIteration, Idle, durable
<1>21. ASSUME NEW phase \in Phases, ReplayStage(phase) PROVE Placed'
  BY <1>21 DEF ReplayStage, reflection, durable, Phases, Kept
<1>22. ASSUME NEW phase \in Phases, RefuseStage(phase) PROVE Placed'
  BY <1>22 DEF RefuseStage, Refuse, reflection, durable, Phases
<1>23. ASSUME NEW phase \in Phases, RunStage(phase) PROVE Placed'
  BY <1>23 DEF RunStage, durable, Phases, Counted
<1>24. ASSUME NEW phase \in Phases, RecordStage(phase) PROVE Placed'
  <2>1. PICK result \in pending :
           /\ evals' = [evals EXCEPT ![<<i, phase>>] =
                          [items |-> Items(phase), result |-> result]]
           /\ feedback' = IF phase = "parents" THEN result ELSE feedback
    BY <1>24 DEF RecordStage
  <2>2. phase = "parents" => Counted(result) /\ at = "recordParents"
    BY <1>24 DEF RecordStage
  <2>3. at \in {"recordParents", "recordChildren"} /\ at' \in {"reflect", "judge"}
    BY <1>24 DEF RecordStage, Phases
  <2>4. UNCHANGED <<i, disk, cursor>>
    BY <1>24 DEF RecordStage
  <2>5. Counted(feedback')
    BY <1>24, <2>1, <2>2, <2>3 DEF RecordStage, Phases
  <2>6. ASSUME NEW j \in Iterations, evals[<<j, "parents">>]' # Nothing
        PROVE  Counted(evals[<<j, "parents">>].result)'
    <3>1. CASE <<j, "parents">> = <<i, phase>>
      <4>1. <<i, phase>> \in Stages
        BY <2>3 DEF Stages
      <4>2. evals'[<<i, phase>>] = [items |-> Items(phase), result |-> result]
        BY <4>1, <2>1 DEF Tables
      <4>3. evals'[<<j, "parents">>].result = result
        BY <3>1, <4>2
      <4>4. phase = "parents"
        BY <3>1
      <4> QED
        BY <4>3, <4>4, <2>2
    <3>2. CASE <<j, "parents">> # <<i, phase>>
      <4>1. <<j, "parents">> \in Stages
        BY DEF Stages, Phases
      <4>2. evals'[<<j, "parents">>] = evals[<<j, "parents">>]
        BY <3>2, <4>1, <2>1
      <4> QED
        BY <4>2, <2>6
    <3> QED
      BY <3>1, <3>2
  <2> QED
    BY <2>3, <2>4, <2>5, <2>6
<1>25. CASE UNCHANGED vars
  BY <1>25 DEF vars, process, durable, history
<1> QED
  BY <1>1, <1>2, <1>3, <1>4, <1>5, <1>6, <1>7, <1>8, <1>9, <1>10, <1>11, <1>12, <1>13, <1>14, <1>15, <1>16, <1>17, <1>18, <1>19, <1>20, <1>21, <1>22, <1>23, <1>24, <1>25 DEF Next, Step

-----------------------------------------------------------------------------
\* The journals stay tables over all slots and stages.
LEMMA TablesStep == IInv /\ [Next]_vars => Tables'
<1> SUFFICES ASSUME IInv, [Next]_vars PROVE Tables'
  OBVIOUS
<1> USE DEF IInv, Tables
<1>1. ASSUME UNCHANGED <<journal, evals>> PROVE Tables'
  BY <1>1
<1>2. ASSUME NEW entry, Record(entry), UNCHANGED evals PROVE Tables'
  <2>1. journal' = [s \in Slots |-> journal'[s]]
    BY <1>2 DEF Record
  <2> QED
    BY <2>1, <1>2
<1>3. ASSUME NEW stage, NEW entry, evals' = [evals EXCEPT ![stage] = entry],
             UNCHANGED journal
      PROVE  Tables'
  <2>1. evals' = [s \in Stages |-> evals'[s]]
    BY <1>3
  <2> QED
    BY <2>1, <1>3
<1>4. CASE Quiet \/ UNCHANGED vars
  BY <1>4, <1>1, QuietKeepsTables DEF vars, durable
<1>5. CASE StoreOfBatch
  BY <1>5, <1>2 DEF StoreOfBatch
<1>6. CASE StoreOfCall
  BY <1>6, <1>2 DEF StoreOfCall
<1>7. ASSUME NEW phase \in Phases, RecordStage(phase) PROVE Tables'
  BY <1>7, <1>3 DEF RecordStage
<1> QED
  BY <1>4, <1>5, <1>6, <1>7 DEF Next, Step, Quiet

\* Every step leaves free the slots that something waits for.
LEMMA FreeStep == IInv /\ [Next]_vars => Free'
<1> SUFFICES ASSUME IInv, [Next]_vars PROVE Free'
  OBVIOUS
<1> USE DEF IInv
<1>1. ASSUME at' \notin {"storeBatch", "storeSingle", "recordParents", "recordChildren"}
      PROVE  Free'
  BY <1>1 DEF Free
<1>2. CASE UNCHANGED vars
  BY <1>2 DEF vars, process, durable, history, Free, Slot, Kept
<1>3. CASE Start \/ Die \/ Begin \/ Finish
  BY <1>3, <1>1 DEF Start, Load, Die, Begin, Finish
<1>4. CASE MergeFindsNothing \/ MergeIsJudged \/ Sample
  BY <1>4, <1>1 DEF MergeFindsNothing, MergeIsJudged, EndIteration, Sample
<1>5. CASE NothingProposed \/ Judge \/ CallFails
  BY <1>5, <1>1 DEF NothingProposed, Judge, CallFails, Abort, EndIteration
<1>6. CASE RefuseBatch \/ RefuseCall
  BY <1>6, <1>1 DEF RefuseBatch, RefuseCall, Refuse
<1>7. CASE ReplayBatch \/ ReplayCall
  BY <1>7, <1>1 DEF ReplayBatch, ResolveBatch, ReplayCall, Answered
<1>8. CASE FinishBatch
  BY <1>8, <1>1 DEF FinishBatch, ResolveBatch, EndIteration
<1>9. CASE CallGivesNone
  BY <1>9, <1>1 DEF CallGivesNone, Answered
<1>10. CASE CallBatch
  <2>1. CASE at' = "storeBatch"
    <3>1. cursor \in Nat /\ Jobs \in Nat
      <4>1. at \in Reflecting /\ N \in Nat
        BY <1>10, ReplayAssumption DEF CallBatch, Reflecting
      <4> QED
        BY <4>1 DEF Placed, Counted, Jobs
    <3>2. PICK answers : pending' = {[ordinal |-> cursor + k - 1, request |-> Request(k),
                                      text |-> Fresh(cursor + k - 1)] : k \in Said(answers, "text")}
      BY <1>10, <2>1, BatchBought
    <3>3. journaled
      BY <1>10, <2>1, BatchBought
    <3>4. \A k \in Said(answers, "text") : k \in 1..Jobs /\ journal[Slot(cursor + k - 1)] = Nothing
      BY <3>3 DEF Said, Missing, Recorded
    <3>5. \A e \in pending' : journal[Slot(e.ordinal)] = Nothing
      BY <3>2, <3>4
    <3>6. \A e, f \in pending' : e.ordinal = f.ordinal => e = f
      BY <3>1, <3>2, <3>4
    <3>7. UNCHANGED <<i, journal>>
      BY <1>10 DEF CallBatch, durable
    <3> QED
      BY <2>1, <3>5, <3>6, <3>7 DEF Free, Slot
  <2>2. CASE at' # "storeBatch"
    BY <2>2, <1>10, <1>1 DEF CallBatch, ResolveBatch, EndIteration
  <2> QED
    BY <2>1, <2>2
<1>11. CASE StoreOfBatch
  <2>1. PICK entry \in pending : Record(entry) /\ pending' = pending \ {entry}
    BY <1>11 DEF StoreOfBatch
  <2>2. at = "storeBatch" /\ UNCHANGED <<at, i, evals>>
    BY <1>11 DEF StoreOfBatch
  <2>3. ASSUME NEW e \in pending' PROVE journal'[Slot(e.ordinal)] = Nothing
    <3>1. Slot(e.ordinal) # Slot(entry.ordinal)
      BY <2>1, <2>2, <2>3 DEF Free, Slot
    <3>2. journal'[Slot(e.ordinal)] = journal[Slot(e.ordinal)]
      BY <2>1, <3>1 DEF Record, Tables
    <3> QED
      BY <3>2, <2>1, <2>2 DEF Free
  <2> QED
    BY <2>1, <2>2, <2>3 DEF Free, Slot
<1>12. CASE CallGivesText
  <2>1. CASE at' = "storeSingle"
    <3>1. journaled /\ \E request, text : pending' = {[ordinal |-> cursor, request |-> request, text |-> text]}
      BY <1>12, <2>1 DEF CallGivesText, ThroughJournal, Answered
    <3>2. Recorded(cursor) = Nothing /\ UNCHANGED <<i, journal>>
      BY <1>12 DEF CallGivesText, durable
    <3> QED
      BY <2>1, <3>1, <3>2 DEF Free, Recorded, Slot
  <2>2. CASE at' # "storeSingle"
    BY <2>2, <1>12, <1>1 DEF CallGivesText, Answered
  <2> QED
    BY <2>1, <2>2
<1>13. CASE StoreOfCall
  BY <1>13, <1>1 DEF StoreOfCall, Answered
<1>14. ASSUME NEW phase \in Phases, ReplayStage(phase) \/ RefuseStage(phase) \/ RecordStage(phase)
       PROVE  Free'
  BY <1>14, <1>1 DEF ReplayStage, RefuseStage, Refuse, RecordStage, Phases
<1>15. ASSUME NEW phase \in Phases, RunStage(phase) PROVE Free'
  BY <1>15 DEF RunStage, Free, Kept, Phases, durable
<1> QED
  BY <1>2, <1>3, <1>4, <1>5, <1>6, <1>7, <1>8, <1>9, <1>10, <1>11, <1>12, <1>13,
     <1>14, <1>15 DEF Next, Step

LEMMA IInvHolds == Spec => []IInv
<1>1. IInv /\ [Next]_vars => IInv'
  BY PlacedStep, TablesStep, FreeStep DEF IInv
<1> QED
  BY InitIInv, <1>1, PTL DEF Spec

-----------------------------------------------------------------------------
\* A recorded answer is never overwritten or dropped (response_journal.py
\* store; lm.py looks a slot up before it calls and stores before it returns).
THEOREM AnswersAreKept == Spec => AnswersKept
<1>1. Init => Answers!Init
  BY DEF Init, Answers!Init
<1>2. ASSUME NEW entry, Record(entry), journal[Slot(entry.ordinal)] = Nothing, IInv
      PROVE  [Answers!Next]_journal
  <2> DEFINE slot == Slot(entry.ordinal)
  <2>1. CASE slot \in Slots
    <3>1. journal'[slot] = [request |-> entry.request, text |-> entry.text]
      BY <1>2, <2>1 DEF Record, IInv, Tables
    <3>2. journal' = [journal EXCEPT ![slot] = journal'[slot]]
      BY <1>2, <3>1 DEF Record
    <3>3. Answers!Write(slot)
      BY <3>1, <3>2, <1>2, EntryIsSomething DEF Answers!Write
    <3> QED
      BY <2>1, <3>3 DEF Answers!Next
  <2>2. CASE slot \notin Slots
    BY <1>2, <2>2 DEF Record, IInv, Tables
  <2> QED
    BY <2>1, <2>2
<1>3. IInv /\ [Next]_vars => [Answers!Next]_journal
  <2> SUFFICES ASSUME IInv, [Next]_vars PROVE [Answers!Next]_journal
    OBVIOUS
  <2>1. CASE Quiet \/ UNCHANGED vars
    BY <2>1, QuietKeepsTables DEF vars, durable
  <2>2. CASE StoreOfBatch
    BY <2>2, <1>2 DEF StoreOfBatch, IInv, Free
  <2>3. CASE StoreOfCall
    BY <2>3, <1>2 DEF StoreOfCall, IInv, Free
  <2>4. ASSUME NEW phase \in Phases, RecordStage(phase) PROVE UNCHANGED journal
    BY <2>4 DEF RecordStage
  <2> QED
    BY <2>1, <2>2, <2>3, <2>4 DEF Next, Step, Quiet
<1> QED
  BY <1>1, <1>3, IInvHolds, PTL DEF Spec, AnswersKept, Answers!Spec

\* A recorded evaluation result is never overwritten or dropped
\* (evaluation_journal.py evaluate).
THEOREM ResultsAreKept == Spec => ResultsKept
<1>1. Init => Results!Init
  BY DEF Init, Results!Init
<1>2. ASSUME NEW phase \in Phases, RecordStage(phase), IInv
      PROVE  [Results!Next]_evals
  <2> DEFINE stage == <<i, phase>>
  <2>1. stage \in Stages /\ evals[stage] = Nothing
    BY <1>2 DEF RecordStage, IInv, Placed, Free, Kept, Stages, Phases
  <2>2. PICK result : evals' = [evals EXCEPT ![stage] = [items |-> Items(phase), result |-> result]]
    BY <1>2 DEF RecordStage
  <2>3. evals'[stage] = [items |-> Items(phase), result |-> result]
    BY <1>2, <2>1, <2>2 DEF IInv, Tables
  <2>4. evals' = [evals EXCEPT ![stage] = evals'[stage]]
    BY <2>2, <2>3
  <2>5. Results!Write(stage)
    BY <2>1, <2>3, <2>4, EntryIsSomething DEF Results!Write
  <2> QED
    BY <2>1, <2>5 DEF Results!Next
<1>3. IInv /\ [Next]_vars => [Results!Next]_evals
  <2> SUFFICES ASSUME IInv, [Next]_vars PROVE [Results!Next]_evals
    OBVIOUS
  <2>1. CASE Quiet \/ UNCHANGED vars
    BY <2>1, QuietKeepsTables DEF vars, durable
  <2>2. CASE StoreOfBatch \/ StoreOfCall
    BY <2>2 DEF StoreOfBatch, StoreOfCall
  <2>3. ASSUME NEW phase \in Phases, RecordStage(phase) PROVE [Results!Next]_evals
    BY <2>3, <1>2
  <2> QED
    BY <2>1, <2>2, <2>3 DEF Next, Step, Quiet
<1> QED
  BY <1>1, <1>3, IInvHolds, PTL DEF Spec, ResultsKept, Results!Spec

(***************************************************************************)
(* Both journals implement WriteOnceTable: no fault, retry or resume takes  *)
(* back or replaces what either of them has recorded.                       *)
(***************************************************************************)
THEOREM JournalsAreKept == Spec => JournalsKept
  BY AnswersAreKept, ResultsAreKept DEF JournalsKept

-----------------------------------------------------------------------------
(***************************************************************************)
(* What reaches the children's evaluation is in the journal.  An output is  *)
(* backed by a slot from the moment it is one of the texts; for that the    *)
(* cursor must stay within the iteration's slots, which it does because it  *)
(* never overtakes the texts, and there are at most N of those.             *)
(***************************************************************************)
Early == {"top", "merge", "sample", "parents", "recordParents", "reflect", "storeBatch"}
Calling == {"single", "storeSingle"}
Late == {"children", "recordChildren", "judge"}

\* The cursor and the texts.
Turned ==
    /\ texts \in Seq(Nat)
    /\ at \in Early => cursor = 0 /\ texts = <<>>
    /\ at = "storeBatch" => 1 < Jobs
    /\ at \in Calling => cursor <= Len(texts) /\ Len(texts) < Jobs
    /\ at \in Late => Len(texts) = Jobs

\* What the journal holds and is about to hold.
Entry(s) == journal[s] = [request |-> journal[s].request, text |-> journal[s].text]
Worded ==
    /\ \A s \in Slots : journal[s] # Nothing => Entry(s) /\ journal[s].text \in Nat
    /\ at \in {"storeBatch", "storeSingle"} =>
          /\ journaled
          /\ \A e \in pending : e.ordinal \in Ordinals /\ e.text \in Nat

Holds(ordinal, request) ==
    journal[Slot(ordinal)] # Nothing /\ journal[Slot(ordinal)].request = request

\* What is being stored answers the requests in their order.
Ordered ==
    /\ at = "storeBatch" /\ batch.error = "none" =>
          \A k \in 1..Jobs :
              \/ Holds(k - 1, Request(k))
              \/ \E e \in pending : e.ordinal = k - 1 /\ e.request = Request(k)
    /\ at = "storeSingle" =>
          \A e \in pending : e.ordinal = cursor /\ e.request = Request(Turn)

Backed(k) ==
    \/ texts[k] = NoText
    \/ \E ordinal \in Ordinals :
          journal[Slot(ordinal)] = [request |-> Request(k), text |-> texts[k]]

BackedUp ==
    journaled /\ at \in Reflecting => \A k \in 1..Len(texts) : Backed(k)

\* What is judged was recorded for the same items.
ItemsKept == at = "judge" => Kept("children").items = Items("children")

TurnInv == Turned /\ Worded /\ Ordered /\ BackedUp /\ ItemsKept

\* A step that gives the texts up, or has none yet.
Idles ==
    /\ at' \in {"down", "top"} /\ texts' = <<>> /\ cursor' = 0
    /\ journal' = journal
Prepares ==
    /\ at \in Early /\ at' \in (Early \ {"storeBatch"}) \union {"done", "refused"}
    /\ UNCHANGED <<texts, cursor, journal, journaled>>

LEMMA InitTurnInv == Init => TurnInv
  BY ReplayAssumption DEF Init, TurnInv, Turned, Worded, Ordered, BackedUp, ItemsKept, Early, Calling, Late,
     Reflecting

LEMMA IdlesKeepTurnInv ==
    ASSUME TurnInv, Idles PROVE TurnInv'
  <1>1. Turned'  BY DEF Idles, Turned, TurnInv, Early, Calling, Late
  <1>2. Worded'  BY DEF Idles, Worded, TurnInv, Entry
  <1>3. Ordered' /\ BackedUp' /\ ItemsKept'
    BY DEF Idles, Ordered, BackedUp, ItemsKept, Reflecting
  <1> QED  BY <1>1, <1>2, <1>3 DEF TurnInv

LEMMA PreparesKeepTurnInv ==
    ASSUME TurnInv, Prepares PROVE TurnInv'
  <1>1. Turned'  BY DEF Prepares, Turned, TurnInv, Early, Calling, Late
  <1>2. Worded'  BY DEF Prepares, Worded, TurnInv, Entry, Early
  <1>3. Ordered' /\ ItemsKept'
    BY DEF Prepares, Ordered, ItemsKept, Early
  <1>4. BackedUp'
    BY DEF Prepares, BackedUp, Early, Turned, TurnInv
  <1> QED  BY <1>1, <1>2, <1>3, <1>4 DEF TurnInv

LEMMA RefusalKeepsTurnInv ==
    ASSUME TurnInv, Refuse PROVE TurnInv'
  <1> USE DEF Refuse, reflection, spending, durable
  <1>1. Turned'  BY DEF Turned, TurnInv, Early, Calling, Late
  <1>2. Worded'  BY DEF Worded, TurnInv, Entry
  <1>3. Ordered' /\ BackedUp' /\ ItemsKept'
    BY DEF Ordered, BackedUp, ItemsKept, Reflecting
  <1> QED  BY <1>1, <1>2, <1>3 DEF TurnInv

LEMMA IdlingSteps ==
    ASSUME TurnInv, IInv,
           Start \/ Die \/ MergeIsJudged \/ NothingProposed \/ Judge \/ CallFails
    PROVE  Idles
  BY DEF Start, Load, Die, MergeIsJudged, NothingProposed, Judge, CallFails, Abort,
         EndIteration, Idle, Idles, durable, history

LEMMA PreparingSteps ==
    ASSUME TurnInv,
           \/ Begin \/ Finish \/ MergeFindsNothing \/ Sample
           \/ ReplayStage("parents") \/ RunStage("parents") \/ RecordStage("parents")
    PROVE  Prepares
  <1> USE DEF Prepares, Early, reflection, spending, durable
  <1>1. CASE Begin \/ Finish \/ MergeFindsNothing
    BY <1>1 DEF Begin, Finish, MergeFindsNothing
  <1>2. CASE Sample
    BY <1>2 DEF Sample
  <1>3. CASE ReplayStage("parents") \/ RunStage("parents") \/ RecordStage("parents")
    BY <1>3 DEF ReplayStage, RunStage, RecordStage
  <1> QED  BY <1>1, <1>2, <1>3

\* The children's evaluation.
LEMMA ChildrenKeepTurnInv ==
    ASSUME TurnInv, IInv, ReplayStage("children") \/ RunStage("children") \/ RecordStage("children")
    PROVE  TurnInv'
  <1>1. /\ at \in Late /\ at' \in Late
        /\ UNCHANGED <<i, texts, cursor, journal, journaled, tasks, feedback>>
    BY DEF ReplayStage, RunStage, RecordStage, Late, reflection, spending, durable
  <1>2. Turned'  BY <1>1 DEF Turned, TurnInv, Early, Calling, Late, Jobs
  <1>3. Worded'  BY <1>1 DEF Worded, TurnInv, Entry, Late
  <1>4. Ordered'  BY <1>1 DEF Ordered, Late
  <1>5. BackedUp'
    <2>1. \A k : Backed(k)' <=> Backed(k)  BY <1>1 DEF Backed, Slot, Request
    <2>2. at \in Reflecting  BY <1>1 DEF Late, Reflecting
    <2> QED  BY <1>1, <2>1, <2>2 DEF BackedUp, TurnInv
  <1>6. ItemsKept'
    <2>1. Items("children")' = Items("children")  BY <1>1 DEF Items, Request
    <2>2. CASE ReplayStage("children")
      <3>1. Kept("children")' = Kept("children")  BY <2>2, <1>1 DEF ReplayStage, Kept, durable
      <3> QED  BY <2>2, <2>1, <3>1 DEF ReplayStage, ItemsKept
    <2>3. CASE RunStage("children")
      BY <2>3 DEF RunStage, ItemsKept
    <2>4. CASE RecordStage("children")
      <3>1. PICK result : evals' = [evals EXCEPT ![<<i, "children">>] =
                                       [items |-> Items("children"), result |-> result]]
        BY <2>4 DEF RecordStage
      <3>2. <<i, "children">> \in Stages
        BY <1>1 DEF IInv, Placed, Stages, Phases, Late
      <3>3. evals'[<<i, "children">>] = [items |-> Items("children"), result |-> result]
        BY <3>1, <3>2 DEF IInv, Tables
      <3> QED  BY <1>1, <2>1, <3>3 DEF ItemsKept, Kept
    <2> QED  BY <2>2, <2>3, <2>4
  <1> QED  BY <1>2, <1>3, <1>4, <1>5, <1>6 DEF TurnInv

\* Recording what waits for a free slot takes nothing away.
LEMMA RecordKeeps ==
    ASSUME TurnInv, IInv, NEW e, e.ordinal \in Ordinals, e.text \in Nat,
           journal[Slot(e.ordinal)] = Nothing, i \in Iterations,
           Record(e), UNCHANGED <<i, tasks, feedback>>
    PROVE  /\ journal'[Slot(e.ordinal)] = [request |-> e.request, text |-> e.text]
           /\ \A s \in Slots : journal'[s] # Nothing => Entry(s)' /\ journal'[s].text \in Nat
           /\ \A ordinal \in Ordinals : \A request : Holds(ordinal, request) => Holds(ordinal, request)'
           /\ \A ordinal \in Ordinals : \A r, t :
                 journal[Slot(ordinal)] = [request |-> r, text |-> t]
                    => journal'[Slot(ordinal)] = [request |-> r, text |-> t]
  <1>1. Slot(e.ordinal) \in Slots  BY DEF Slot, Slots
  <1>2. journal'[Slot(e.ordinal)] = [request |-> e.request, text |-> e.text]
    BY <1>1 DEF Record, IInv, Tables
  <1>3. \A s \in Slots : s # Slot(e.ordinal) => journal'[s] = journal[s]
    BY DEF Record, IInv, Tables
  <1>4. \A s \in Slots : journal'[s] # Nothing => Entry(s)' /\ journal'[s].text \in Nat
    BY <1>2, <1>3 DEF TurnInv, Worded, Entry
  <1>5. ASSUME NEW ordinal \in Ordinals, NEW request, Holds(ordinal, request)
        PROVE  Holds(ordinal, request)'
    <2>1. Slot(ordinal) # Slot(e.ordinal) /\ Slot(ordinal) \in Slots
      BY <1>5 DEF Holds, Slots, Slot
    <2> QED  BY <2>1, <1>3, <1>5 DEF Holds, Slot
  <1>6. ASSUME NEW ordinal \in Ordinals, NEW r, NEW t,
               journal[Slot(ordinal)] = [request |-> r, text |-> t]
        PROVE  journal'[Slot(ordinal)] = [request |-> r, text |-> t]
    <2>1. Slot(ordinal) # Slot(e.ordinal) /\ Slot(ordinal) \in Slots
      BY <1>6, EntryIsSomething DEF Slots, Slot
    <2> QED  BY <2>1, <1>3, <1>6
  <1> QED  BY <1>2, <1>4, <1>5, <1>6

\* The call of the next task uses a slot of the iteration.
LEMMA TurnIsInRange ==
    ASSUME TurnInv, IInv, Single \/ at = "storeSingle"
    PROVE  /\ texts \in Seq(Nat) /\ cursor <= Len(texts) /\ Len(texts) < Jobs
           /\ Jobs \in 1..N /\ cursor \in Ordinals /\ i \in Iterations /\ at \in Reflecting
  <1>1. at \in Reflecting  BY DEF Single, Reflecting
  <1>2. Jobs \in 0..N /\ cursor \in Nat /\ i \in Iterations
    BY <1>1 DEF IInv, Placed, Counted, Jobs, Reflecting
  <1>3. texts \in Seq(Nat)  BY DEF TurnInv, Turned
  <1>4. cursor <= Len(texts) /\ Len(texts) < Jobs
    <2>1. CASE at \in Calling  BY <2>1 DEF TurnInv, Turned
    <2>2. CASE at = "reflect" /\ Jobs = 1  BY <2>2 DEF TurnInv, Turned, Early
    <2> QED  BY <2>1, <2>2 DEF Single, Calling
  <1>5. N \in Nat  BY ReplayAssumption
  <1> QED  BY <1>1, <1>2, <1>3, <1>4, <1>5 DEF Ordinals

LEMMA AnsweredTurns ==
    ASSUME TurnInv, IInv, Single \/ at = "storeSingle", NEW t \in Nat, Answered(t),
           UNCHANGED feedback,
           cursor' \in {cursor, cursor + 1}
    PROVE  /\ Turned' /\ at' \in {"single", "children"}
           /\ Len(texts') = Turn /\ texts'[Turn] = t
           /\ \A k \in 1..Len(texts) : texts'[k] = texts[k]
  <1>1. /\ texts \in Seq(Nat) /\ cursor <= Len(texts) /\ Len(texts) < Jobs
        /\ Jobs \in 1..N /\ cursor \in Nat
    BY TurnIsInRange DEF IInv, Placed
  <1>2. /\ texts' \in Seq(Nat) /\ Len(texts') = Turn /\ texts'[Turn] = t
        /\ \A k \in 1..Len(texts) : texts'[k] = texts[k]
    BY <1>1 DEF Answered, Turn
  <1>3. at' = IF Turn = Jobs THEN "children" ELSE "single"  BY DEF Answered
  <1>4. Jobs' = Jobs  BY DEF Jobs
  <1>5. Turned'
    BY <1>1, <1>2, <1>3, <1>4 DEF Turned, Turn, TurnInv, Early, Calling, Late
  <1> QED  BY <1>2, <1>3, <1>5

\* Backing survives while journal and tasks stay.
LEMMA BackingStays ==
    ASSUME NEW k, Backed(k), texts'[k] = texts[k], UNCHANGED <<i, tasks, feedback, journal>>
    PROVE  Backed(k)'
  BY DEF Backed, Slot, Request

LEMMA AnsweredKeepsTurnInv ==
    ASSUME TurnInv, IInv, Single, NEW t \in Nat, Answered(t),
           UNCHANGED <<feedback, i, tasks, journal, journaled>>,
           cursor' \in {cursor, cursor + 1},
           journaled /\ t # NoText =>
               Holds(cursor, Request(Turn)) /\ journal[Slot(cursor)].text = t
    PROVE  TurnInv'
  <1>1. /\ Turned' /\ at' \in {"single", "children"}
        /\ Len(texts') = Turn /\ texts'[Turn] = t
        /\ \A k \in 1..Len(texts) : texts'[k] = texts[k]
    BY AnsweredTurns
  <1>2. Len(texts) \in Nat /\ cursor \in Ordinals /\ i \in Iterations /\ at \in Reflecting
    BY TurnIsInRange
  <1>3. Worded'  BY <1>1 DEF TurnInv, Worded, Entry
  <1>4. Ordered' /\ ItemsKept'  BY <1>1 DEF Ordered, ItemsKept
  <1>5. ASSUME journaled, NEW k \in 1..Len(texts') PROVE Backed(k)'
    <2>1. CASE k \in 1..Len(texts)
      BY <2>1, <1>1, <1>2, <1>5, BackingStays DEF TurnInv, BackedUp
    <2>2. CASE k = Turn
      <3>1. t # NoText => journal[Slot(cursor)] = [request |-> Request(k), text |-> t]
        BY <2>2, <1>2, <1>5 DEF Holds, TurnInv, Worded, Entry, Slot, Slots
      <3> QED  BY <3>1, <2>2, <1>1, <1>2 DEF Backed, Slot, Request
    <2> QED  BY <2>1, <2>2, <1>1, <1>2 DEF Turn
  <1> QED  BY <1>1, <1>3, <1>4, <1>5 DEF TurnInv, BackedUp

LEMMA ReplayCallKeeps ==
    ASSUME TurnInv, IInv, ReplayCall PROVE TurnInv'
  <1>1. journaled /\ Recorded(cursor) = journal[Slot(cursor)] /\ Recorded(cursor) # Nothing
    BY DEF ReplayCall, Recorded
  <1>2. cursor \in Ordinals /\ i \in Iterations
    BY TurnIsInRange DEF ReplayCall
  <1>3. Recorded(cursor).text \in Nat
    BY <1>1, <1>2 DEF TurnInv, Worded, Slot, Slots
  <1>4. Holds(cursor, Request(Turn))
    BY <1>1 DEF ReplayCall, Mismatch, Holds
  <1>5. UNCHANGED <<feedback, i, tasks, journal, journaled>>
    BY DEF ReplayCall, spending, durable
  <1> QED  BY <1>1, <1>3, <1>4, <1>5, AnsweredKeepsTurnInv DEF ReplayCall

LEMMA CallGivesTextKeeps ==
    ASSUME TurnInv, IInv, CallGivesText PROVE TurnInv'
  <1>1. /\ texts \in Seq(Nat) /\ cursor <= Len(texts) /\ Len(texts) < Jobs
        /\ cursor \in Ordinals /\ i \in Iterations /\ at \in Reflecting
    BY TurnIsInRange DEF CallGivesText
  <1>2. UNCHANGED <<i, tasks, feedback, cursor, journal, journaled>> /\ Single
    BY DEF CallGivesText, durable
  <1> DEFINE ordinal == IF journaled THEN cursor ELSE Turn - 1
             t == Fresh(ordinal)
  <1>3. t \in Nat
    <2>1. ordinal \in Nat  BY <1>1 DEF Ordinals, Turn
    <2> QED  BY <2>1, FreshIsNumber
  <1>4. CASE journaled
    <2>1. /\ pending' = {[ordinal |-> cursor, request |-> Request(Turn), text |-> t]}
          /\ at' = "storeSingle" /\ texts' = texts
      BY <1>4 DEF CallGivesText, ThroughJournal
    <2>2. Turned'  BY <1>1, <1>2, <1>3, <2>1 DEF Turned, Early, Calling, Late, Jobs
    <2>3. Worded'  BY <1>1, <1>2, <1>3, <1>4, <2>1 DEF TurnInv, Worded, Entry, Ordinals
    <2>4. Ordered' /\ ItemsKept'
      BY <1>2, <2>1 DEF Ordered, ItemsKept, Turn, Request
    <2>5. BackedUp'
      BY <1>1, <1>2, <2>1, BackingStays DEF TurnInv, BackedUp
    <2> QED  BY <2>2, <2>3, <2>4, <2>5 DEF TurnInv
  <1>5. CASE ~journaled
    <2>1. Answered(t)  BY <1>5 DEF CallGivesText, ThroughJournal
    <2>2. /\ at' \in {"single", "children"} /\ texts' = Append(texts, t)
          /\ at' = IF Turn = Jobs THEN "children" ELSE "single"
      BY <2>1 DEF Answered
    <2>3. Turned'
      BY <1>1, <1>2, <1>3, <2>2 DEF Turned, Turn, Early, Calling, Late, Jobs, Ordinals
    <2>4. Worded'  BY <1>2, <2>2 DEF TurnInv, Worded, Entry
    <2>5. Ordered' /\ ItemsKept' /\ BackedUp'
      BY <1>2, <1>5, <2>2 DEF Ordered, ItemsKept, BackedUp
    <2> QED  BY <2>3, <2>4, <2>5 DEF TurnInv
  <1> QED  BY <1>4, <1>5

LEMMA CallGivesNoneKeeps ==
    ASSUME TurnInv, IInv, CallGivesNone PROVE TurnInv'
  <1>1. /\ texts \in Seq(Nat) /\ Len(texts) < Jobs /\ Jobs \in 1..N
        /\ cursor \in Ordinals /\ i \in Iterations /\ at \in Reflecting
    BY TurnIsInRange DEF CallGivesNone
  <1>2. UNCHANGED <<i, tasks, feedback, journal, journaled>> /\ Single
    BY DEF CallGivesNone, durable
  <1>4. CASE Jobs = 1 /\ ~retried /\ cursor' = 0 /\ at' = "single" /\ texts' = texts
    <2>1. Turned'  BY <1>1, <1>2, <1>4 DEF Turned, Early, Calling, Late, Jobs
    <2>2. Worded'  BY <1>2, <1>4 DEF TurnInv, Worded, Entry
    <2>3. Ordered' /\ ItemsKept'  BY <1>4 DEF Ordered, ItemsKept
    <2>4. BackedUp'
      BY <1>1, <1>2, <1>4, BackingStays DEF TurnInv, BackedUp
    <2> QED  BY <2>1, <2>2, <2>3, <2>4 DEF TurnInv
  <1>5. CASE Answered(NoText) /\ cursor' = cursor
    <2>1. NoText \in Nat  BY DEF NoText
    <2>2. cursor' \in {cursor, cursor + 1}  BY <1>5
    <2>3. PICK t \in Nat : t = NoText  BY <2>1
    <2>4. Answered(t)  BY <1>5, <2>3
    <2>5. ~(journaled /\ t # NoText)  BY <2>3
    <2> QED  BY <1>2, <2>2, <2>4, <2>5, AnsweredKeepsTurnInv
  <1> QED  BY <1>4, <1>5 DEF CallGivesNone

LEMMA StoreOfCallKeeps ==
    ASSUME TurnInv, IInv, StoreOfCall PROVE TurnInv'
  <1>1. PICK e \in pending : Record(e) /\ Answered(e.text)
    BY DEF StoreOfCall
  <1>2. /\ Len(texts) \in Nat /\ Jobs \in 1..N
        /\ cursor \in Ordinals /\ i \in Iterations /\ at \in Reflecting
    BY TurnIsInRange DEF StoreOfCall
  <1>3. /\ journaled /\ e.ordinal = cursor /\ e.request = Request(Turn) /\ e.text \in Nat
        /\ journal[Slot(cursor)] = Nothing
    BY DEF StoreOfCall, TurnInv, Worded, Ordered, IInv, Free
  <1>4. UNCHANGED <<i, tasks, feedback, journaled>> /\ cursor' = cursor + 1
    BY DEF StoreOfCall
  <1>5. /\ Turned' /\ at' \in {"single", "children"}
        /\ Len(texts') = Turn /\ texts'[Turn] = e.text
        /\ \A k \in 1..Len(texts) : texts'[k] = texts[k]
    BY <1>1, <1>3, <1>4, AnsweredTurns DEF StoreOfCall, TurnInv, Turned
  <1>6. /\ journal'[Slot(cursor)] = [request |-> Request(Turn), text |-> e.text]
        /\ \A s \in Slots : journal'[s] # Nothing => Entry(s)' /\ journal'[s].text \in Nat
        /\ \A ordinal \in Ordinals : \A r, t :
              journal[Slot(ordinal)] = [request |-> r, text |-> t]
                 => journal'[Slot(ordinal)] = [request |-> r, text |-> t]
    BY <1>1, <1>2, <1>3, <1>4, RecordKeeps
  <1>7. Worded'  BY <1>4, <1>5, <1>6 DEF Worded
  <1>8. Ordered' /\ ItemsKept'  BY <1>5 DEF Ordered, ItemsKept
  <1>9. ASSUME NEW k \in 1..Len(texts') PROVE Backed(k)'
    <2>0. \A ordinal, m : Slot(ordinal)' = Slot(ordinal) /\ Request(m)' = Request(m)
      BY <1>4 DEF Slot, Request
    <2>1. CASE k \in 1..Len(texts)
      <3>1. Backed(k)  BY <2>1, <1>2, <1>3 DEF TurnInv, BackedUp
      <3> QED  BY <2>0, <2>1, <3>1, <1>5, <1>6 DEF Backed
    <2>2. CASE k = Turn
      <3>1. journal'[Slot(cursor)] = [request |-> Request(k), text |-> texts'[k]]
        BY <2>2, <1>5, <1>6
      <3>2. PICK ordinal \in Ordinals :
                journal'[Slot(ordinal)] = [request |-> Request(k), text |-> texts'[k]]
        BY <3>1, <1>2
      <3>3. journal'[Slot(ordinal)'] = [request |-> Request(k)', text |-> texts'[k]]
        BY <2>0, <3>2
      <3> QED  BY <3>3 DEF Backed, Ordinals
    <2> QED  BY <2>1, <2>2, <1>2, <1>5 DEF Turn
  <1> QED  BY <1>5, <1>7, <1>8, <1>9 DEF TurnInv, BackedUp

\* The batch: every answer that is replayed or bought takes the slot of its task.
LEMMA BatchIsInRange ==
    ASSUME TurnInv, IInv, at \in {"reflect", "storeBatch"}
    PROVE  /\ texts = <<>> /\ cursor = 0 /\ Jobs \in 0..N /\ N \in Nat /\ i \in Iterations
           /\ \A k \in 1..Jobs : cursor + k - 1 = k - 1 /\ k - 1 \in Ordinals
  <1>1. texts = <<>> /\ cursor = 0  BY DEF TurnInv, Turned, Early
  <1>2. Jobs \in 0..N /\ i \in Iterations
    BY DEF IInv, Placed, Reflecting, Counted, Jobs
  <1>3. N \in Nat  BY ReplayAssumption
  <1> QED  BY <1>1, <1>2, <1>3 DEF Ordinals

\* The texts of a batch whose requests all have their answers.
LEMMA ResolvedKeeps ==
    ASSUME TurnInv, IInv, at \in {"reflect", "storeBatch"}, at' = "children",
           texts' = [k \in 1..Jobs |-> Recorded(cursor + k - 1).text],
           \A k \in 1..Jobs : Holds(k - 1, Request(k)), journaled,
           UNCHANGED <<i, tasks, feedback, journal, journaled>>
    PROVE  TurnInv'
  <1>1. /\ Jobs \in 0..N /\ N \in Nat /\ i \in Iterations
        /\ \A k \in 1..Jobs : cursor + k - 1 = k - 1 /\ k - 1 \in Ordinals
    BY BatchIsInRange
  <1>2. texts' = [k \in 1..Jobs |-> journal[Slot(k - 1)].text]
    BY <1>1 DEF Recorded
  <1>3. \A k \in 1..Jobs : /\ journal[Slot(k - 1)].text \in Nat
                           /\ journal[Slot(k - 1)] = [request |-> Request(k),
                                                      text |-> journal[Slot(k - 1)].text]
    BY <1>1 DEF Holds, TurnInv, Worded, Entry, Slot, Slots
  <1>4. texts' \in Seq(Nat) /\ Len(texts') = Jobs
    <2>1. texts' \in [1..Jobs -> Nat]  BY <1>2, <1>3
    <2>2. Jobs \in Nat  BY <1>1
    <2> QED  BY <2>1, <2>2
  <1>5. Turned'
    BY <1>4 DEF Turned, TurnInv, Early, Calling, Late, Jobs
  <1>6. Worded'  BY DEF TurnInv, Worded, Entry
  <1>7. Ordered' /\ ItemsKept'  BY DEF Ordered, ItemsKept
  <1>8. \A k \in 1..Jobs : Backed(k)'
    BY <1>1, <1>2, <1>3 DEF Backed, Slot, Request
  <1> QED  BY <1>4, <1>5, <1>6, <1>7, <1>8 DEF TurnInv, BackedUp

LEMMA ReplayBatchKeeps ==
    ASSUME TurnInv, IInv, ReplayBatch PROVE TurnInv'
  <1>1. /\ Jobs \in 0..N /\ N \in Nat
        /\ \A k \in 1..Jobs : cursor + k - 1 = k - 1 /\ k - 1 \in Ordinals
    BY BatchIsInRange DEF ReplayBatch
  <1>2. \A k \in 1..Jobs : /\ Recorded(k - 1) # Nothing
                           /\ Recorded(k - 1).request = Request(k)
    BY <1>1 DEF ReplayBatch, Missing, BatchMismatch, Mismatch
  <1>3. 1 \in 1..Jobs  BY <1>1 DEF ReplayBatch
  <1>4. journaled  BY <1>2, <1>3 DEF Recorded
  <1>5. \A k \in 1..Jobs : Holds(k - 1, Request(k))
    BY <1>2, <1>4 DEF Recorded, Holds
  <1>6. /\ texts' = [k \in 1..Jobs |-> Recorded(cursor + k - 1).text] /\ at' = "children"
        /\ UNCHANGED <<i, tasks, feedback, journal, journaled>> /\ at = "reflect"
    BY DEF ReplayBatch, ResolveBatch, spending, durable
  <1> QED  BY <1>4, <1>5, <1>6, ResolvedKeeps

LEMMA FinishBatchKeeps ==
    ASSUME TurnInv, IInv, FinishBatch PROVE TurnInv'
  <1>1. /\ texts = <<>> /\ cursor = 0 /\ Jobs \in 0..N /\ N \in Nat
    BY BatchIsInRange DEF FinishBatch
  <1>2. at = "storeBatch" /\ journaled /\ UNCHANGED <<i, journal, journaled>>
    BY DEF FinishBatch, durable, TurnInv, Worded
  <1>3. CASE batch.error = "none" /\ ResolveBatch(LAMBDA k : Recorded(cursor + k - 1).text)
             /\ UNCHANGED <<tasks, feedback>>
    <2>1. \A k \in 1..Jobs : Holds(k - 1, Request(k))
      BY <1>3 DEF FinishBatch, TurnInv, Ordered
    <2>2. texts' = [k \in 1..Jobs |-> Recorded(cursor + k - 1).text] /\ at' = "children"
      BY <1>3 DEF ResolveBatch
    <2> QED  BY <1>2, <1>3, <2>1, <2>2, ResolvedKeeps
  <1>4. CASE at' = "single" /\ UNCHANGED <<tasks, feedback, cursor, texts>>
    <2>1. 1 < Jobs  BY <1>2 DEF TurnInv, Turned
    <2>2. Turned'  BY <1>1, <1>2, <1>4, <2>1 DEF TurnInv, Turned, Early, Calling, Late, Jobs
    <2>3. Worded'  BY <1>2, <1>4 DEF TurnInv, Worded, Entry
    <2>4. Ordered' /\ ItemsKept' /\ BackedUp'
      BY <1>1, <1>2, <1>4 DEF Ordered, ItemsKept, BackedUp
    <2> QED  BY <2>2, <2>3, <2>4 DEF TurnInv
  <1>5. CASE EndIteration
    BY <1>2, <1>5, IdlesKeepTurnInv DEF Idles, EndIteration, Idle, TurnInv, Turned
  <1> QED  BY <1>3, <1>4, <1>5 DEF FinishBatch

LEMMA CallBatchKeeps ==
    ASSUME TurnInv, IInv, CallBatch PROVE TurnInv'
  <1>1. /\ texts = <<>> /\ cursor = 0 /\ Jobs \in 0..N /\ N \in Nat /\ i \in Iterations
        /\ \A k \in 1..Jobs : cursor + k - 1 = k - 1 /\ k - 1 \in Ordinals
        /\ at = "reflect" /\ 1 < Jobs
    BY BatchIsInRange DEF CallBatch
  <1>2. UNCHANGED <<i, journal, journaled>>  BY DEF CallBatch, durable
  <1>4. \A k \in 1..Jobs : Fresh(cursor + k - 1) \in Nat
    BY <1>1, FreshIsNumber DEF Ordinals
  <1>5. CASE EndIteration
    BY <1>2, <1>4, <1>5, IdlesKeepTurnInv DEF Idles, EndIteration, Idle
  <1>6. CASE at' = "single" /\ UNCHANGED <<tasks, feedback, reflection>>
    <2>1. Turned'
      BY <1>1, <1>4, <1>6 DEF Turned, reflection, Early, Calling, Late, Jobs
    <2>2. Worded'  BY <1>2, <1>6 DEF TurnInv, Worded, Entry
    <2>3. Ordered' /\ ItemsKept' /\ BackedUp'
      BY <1>1, <1>2, <1>6 DEF Ordered, ItemsKept, BackedUp, reflection
    <2> QED  BY <2>1, <2>2, <2>3 DEF TurnInv
  <1>7. CASE ~journaled /\ texts' = [k \in 1..Jobs |-> Fresh(cursor + k - 1)] /\ at' = "children"
             /\ UNCHANGED <<tasks, feedback>>
    <2>1. texts' \in [1..Jobs -> Nat] /\ Jobs \in Nat  BY <1>1, <1>4, <1>7
    <2>2. texts' \in Seq(Nat) /\ Len(texts') = Jobs  BY <2>1
    <2>3. Turned'  BY <1>4, <1>7, <2>2 DEF Turned, Early, Calling, Late, Jobs
    <2>4. Worded'  BY <1>2, <1>7 DEF TurnInv, Worded, Entry
    <2>5. Ordered' /\ ItemsKept' /\ BackedUp'
      BY <1>2, <1>7 DEF Ordered, ItemsKept, BackedUp
    <2> QED  BY <2>3, <2>4, <2>5 DEF TurnInv
  <1>8. ASSUME journaled, at' = "storeBatch", UNCHANGED <<tasks, feedback, cursor, texts>>,
               NEW answers \in [Missing -> Outcomes], Said(answers, "none") = {},
               batch'.error = WorstError(answers),
               pending' = {[ordinal |-> cursor + k - 1, request |-> Request(k),
                            text |-> Fresh(cursor + k - 1)] : k \in Said(answers, "text")}
        PROVE  TurnInv'
    <2>1. Said(answers, "text") \subseteq 1..Jobs  BY DEF Said, Missing
    <2>2. pending' = {[ordinal |-> k - 1, request |-> Request(k),
                       text |-> Fresh(cursor + k - 1)] : k \in Said(answers, "text")}
      BY <1>1, <1>8, <2>1
    <2>3. \A e \in pending' : e.ordinal \in Ordinals /\ e.text \in Nat
      BY <1>1, <1>4, <2>1, <2>2
    <2>4. Turned'  BY <1>1, <1>4, <1>8 DEF Turned, Early, Calling, Late, Jobs
    <2>5. Worded'  BY <1>2, <1>8, <2>3 DEF TurnInv, Worded, Entry
    <2>6. ItemsKept' /\ BackedUp'
      BY <1>1, <1>8 DEF ItemsKept, BackedUp
    <2>7. ASSUME batch'.error = "none" PROVE Ordered'
      <3>0. Said(answers, "text") = Missing
        <4>1. Said(answers, "exhausted") = {} /\ Said(answers, "error") = {}
          BY <2>7, <1>8 DEF WorstError
        <4> QED  BY <4>1, <1>8 DEF Said, Outcomes
      <3>1. ASSUME NEW k \in 1..Jobs
            PROVE  \/ Holds(k - 1, Request(k))
                   \/ \E e \in pending' : e.ordinal = k - 1 /\ e.request = Request(k)
        <4>1. cursor + k - 1 = k - 1  BY <1>1
        <4>2. CASE k \in Missing
          <5>1. [ordinal |-> k - 1, request |-> Request(k), text |-> Fresh(cursor + k - 1)] \in pending'
            BY <4>2, <2>2, <3>0
          <5> QED  BY <5>1
        <4>3. CASE k \notin Missing
          <5>1. Recorded(k - 1) # Nothing  BY <4>1, <4>3 DEF Missing
          <5>2. ~Mismatch(k - 1, k)  BY <4>1 DEF CallBatch, BatchMismatch
          <5> QED  BY <5>1, <5>2, <1>8 DEF Mismatch, Recorded, Holds
        <4> QED  BY <4>2, <4>3
      <3>2. ASSUME NEW k \in 1..Jobs
            PROVE  \/ Holds(k - 1, Request(k))'
                   \/ \E e \in pending' : e.ordinal = k - 1 /\ e.request = Request(k)'
        <4>1. UNCHANGED <<tasks, feedback, i, journal>>  BY <1>2, <1>8
        <4> QED  BY <3>1, <4>1 DEF Holds, Slot, Request
      <3>3. Jobs' = Jobs /\ at' = "storeBatch"  BY <1>8 DEF Jobs
      <3> QED  BY <3>2, <3>3 DEF Ordered
    <2>8. ASSUME batch'.error # "none" PROVE Ordered'
      <3>1. at' = "storeBatch"  BY <1>8
      <3> QED  BY <2>8, <3>1 DEF Ordered
    <2> QED  BY <2>4, <2>5, <2>6, <2>7, <2>8 DEF TurnInv
  <1> QED  BY <1>5, <1>6, <1>7, <1>8 DEF CallBatch, ResolveBatch

LEMMA StoreOfBatchKeeps ==
    ASSUME TurnInv, IInv, StoreOfBatch PROVE TurnInv'
  <1>1. PICK e \in pending : Record(e) /\ pending' = pending \ {e}
    BY DEF StoreOfBatch
  <1>2. /\ at = "storeBatch" /\ at' = "storeBatch"
        /\ UNCHANGED <<i, tasks, feedback, cursor, batch, texts, journaled>>
    BY DEF StoreOfBatch
  <1>3. texts = <<>> /\ i \in Iterations
        /\ \A k \in 1..Jobs : k - 1 \in Ordinals
    BY <1>2, BatchIsInRange
  <1>4. /\ e.ordinal \in Ordinals /\ e.text \in Nat /\ journal[Slot(e.ordinal)] = Nothing
        /\ journaled
    BY <1>2 DEF TurnInv, Worded, IInv, Free
  <1>5. /\ journal'[Slot(e.ordinal)] = [request |-> e.request, text |-> e.text]
        /\ \A s \in Slots : journal'[s] # Nothing => Entry(s)' /\ journal'[s].text \in Nat
        /\ \A ordinal \in Ordinals : \A request : Holds(ordinal, request) => Holds(ordinal, request)'
    BY <1>1, <1>2, <1>3, <1>4, RecordKeeps
  <1>6. Turned'
    BY <1>2 DEF TurnInv, Turned, Early, Calling, Late, Jobs
  <1>7. Worded'  BY <1>1, <1>2, <1>4, <1>5 DEF TurnInv, Worded
  <1>8. BackedUp' /\ ItemsKept'  BY <1>2, <1>3 DEF BackedUp, ItemsKept
  <1>9. Ordered'
    <2>1. ASSUME batch.error = "none", NEW k \in 1..Jobs
          PROVE  \/ Holds(k - 1, Request(k))'
                 \/ \E f \in pending' : f.ordinal = k - 1 /\ f.request = Request(k)'
      <3>0. Request(k)' = Request(k) /\ k - 1 \in Ordinals  BY <1>2, <1>3 DEF Request
      <3>1. CASE Holds(k - 1, Request(k))
        BY <3>0, <3>1, <1>5
      <3>2. CASE \E f \in pending : f.ordinal = k - 1 /\ f.request = Request(k)
        <4>1. PICK f \in pending : f.ordinal = k - 1 /\ f.request = Request(k)  BY <3>2
        <4>2. CASE f # e  BY <4>1, <4>2, <3>0, <1>1
        <4>3. CASE f = e
          <5>1. journal'[Slot(k - 1)] = [request |-> Request(k), text |-> e.text]
            BY <4>1, <4>3, <1>5
          <5>2. Slot(k - 1)' = Slot(k - 1)  BY <1>2 DEF Slot
          <5> QED  BY <5>1, <5>2, <3>0, EntryIsSomething DEF Holds
        <4> QED  BY <4>2, <4>3
      <3> QED  BY <3>1, <3>2, <2>1, <1>2 DEF TurnInv, Ordered
    <2>2. Jobs' = Jobs  BY <1>2 DEF Jobs
    <2> QED  BY <2>1, <2>2, <1>2 DEF Ordered
  <1> QED  BY <1>6, <1>7, <1>8, <1>9 DEF TurnInv

LEMMA StepTurns ==
    ASSUME TurnInv, IInv, [Next]_vars PROVE TurnInv'
  <1>1. CASE Start \/ Die \/ MergeIsJudged \/ NothingProposed \/ Judge \/ CallFails
    BY <1>1, IdlingSteps, IdlesKeepTurnInv
  <1>2. CASE Begin \/ Finish \/ MergeFindsNothing \/ Sample
    BY <1>2, PreparingSteps, PreparesKeepTurnInv
  <1>3. ASSUME NEW phase \in Phases,
               ReplayStage(phase) \/ RefuseStage(phase) \/ RunStage(phase) \/ RecordStage(phase)
        PROVE  TurnInv'
    <2>1. CASE RefuseStage(phase)
      BY <2>1, RefusalKeepsTurnInv DEF RefuseStage
    <2>2. CASE phase = "parents" /\ ~RefuseStage(phase)
      BY <2>2, <1>3, PreparingSteps, PreparesKeepTurnInv
    <2>3. CASE phase = "children" /\ ~RefuseStage(phase)
      BY <2>3, <1>3, ChildrenKeepTurnInv
    <2> QED  BY <2>1, <2>2, <2>3 DEF Phases
  <1>4. CASE RefuseBatch \/ RefuseCall
    BY <1>4, RefusalKeepsTurnInv DEF RefuseBatch, RefuseCall
  <1>5. CASE ReplayBatch \/ CallBatch \/ StoreOfBatch \/ FinishBatch
    BY <1>5, ReplayBatchKeeps, CallBatchKeeps, StoreOfBatchKeeps, FinishBatchKeeps
  <1>6. CASE ReplayCall \/ CallGivesText \/ StoreOfCall \/ CallGivesNone
    BY <1>6, ReplayCallKeeps, CallGivesTextKeeps, StoreOfCallKeeps, CallGivesNoneKeeps
  <1>7. CASE UNCHANGED vars
    <2>1. Turned' /\ Worded'
      BY <1>7 DEF vars, process, durable, history, TurnInv, Turned, Worded, Jobs, Entry
    <2>2. Ordered' /\ BackedUp' /\ ItemsKept'
      BY <1>7 DEF vars, process, durable, history, TurnInv, Ordered, BackedUp, ItemsKept, Backed,
                  Holds, Slot, Request, Jobs, Turn, Items, Kept
    <2> QED  BY <2>1, <2>2 DEF TurnInv
  <1> QED  BY <1>1, <1>2, <1>3, <1>4, <1>5, <1>6, <1>7 DEF Next, Step

(***************************************************************************)
(* An output is evaluated only after it is in the journal under the request *)
(* of its task, and a result judged only after it is in the journal of      *)
(* evaluations under the same items (lm.py, evaluation_journal.py).         *)
(***************************************************************************)
THEOREM OutputsAreJournaled == Spec => []JournaledFirst
  <1>1. TurnInv => JournaledFirst
    <2> SUFFICES ASSUME TurnInv PROVE JournaledFirst
      OBVIOUS
    <2>1. ASSUME journaled, at \in Late, NEW k \in 1..Jobs PROVE Backed(k)
      <3>1. Len(texts) = Jobs  BY <2>1 DEF TurnInv, Turned
      <3>2. at \in Reflecting  BY <2>1 DEF Late, Reflecting
      <3> QED  BY <2>1, <3>1, <3>2 DEF TurnInv, BackedUp
    <2> QED  BY <2>1 DEF JournaledFirst, TurnInv, ItemsKept, Backed, Late
  <1> QED  BY <1>1, InitTurnInv, StepTurns, IInvHolds, PTL DEF Spec

(***************************************************************************)
(* A resumed iteration samples what it sampled before.  The checkpoint at   *)
(* the top of an iteration determines its sampling, together with what the  *)
(* random stream yields at a position, which never changes.                 *)
(***************************************************************************)
\* The tasks drawn for iteration j from position r by sampler s.
EpochTurns(s, j) == NeedsRefresh(Called(s, j), j)
Drawn(r, s, j, perm) ==
    LET called == Called(s, j)
        first == IF NeedsRefresh(called, j) THEN Refreshed(called, j, perm) ELSE called
    IN  [k \in 1..N |-> [parent |-> r, ids |-> Minibatch(Repeated(first, k - 1), j)]]

\* The iteration under way is the one after the checkpoint, and it begins with
\* the checkpoint's sampler and, unless a merge attempt drew, its random stream.
Positioned ==
    /\ disk.i \in Int
    /\ at = "top" => \/ i = disk.i + 1
                     \/ i = disk.i /\ rng = disk.rng /\ sampler = disk.sampler
    /\ at \notin {"down", "top", "done"} => i = disk.i + 1
    /\ at \in {"merge", "sample"} =>
          sampler = disk.sampler /\ (i \notin touched => rng = disk.rng)
    /\ rng \in Nat /\ disk.rng \in Nat

\* What the next process would sample again.
Resampled(j) ==
    /\ j = disk.i + 1
    /\ disk.rng + 2 <= MaxDraws
    /\ sampled[j] = Drawn(disk.rng, disk.sampler, j, shuffled[disk.rng + 1])
    /\ EpochTurns(disk.sampler, j) => shuffled[disk.rng + 1] # <<>>

SampledAgain ==
    /\ shuffled = [r \in 0..MaxDraws |-> shuffled[r]]
    /\ sampled = [j \in Iterations |-> sampled[j]]
    /\ \A j \in Iterations :
          sampled[j] # <<>> /\ j \notin touched => j <= disk.i \/ Resampled(j)

SampleInv == Positioned /\ SampledAgain

LEMMA InitSampleInv == Init => SampleInv
  BY DEF Init, SampleInv, Positioned, SampledAgain

\* The permutation is immaterial where nothing is shuffled.
LEMMA DrawnUnshuffled ==
    ASSUME NEW r, NEW s, NEW j, NEW p, NEW q, ~EpochTurns(s, j)
    PROVE  Drawn(r, s, j, p) = Drawn(r, s, j, q)
  BY DEF Drawn, EpochTurns

\* What a sampling does to the history.
LEMMA SampleDraws ==
    ASSUME SampleInv, IInv, Sample
    PROVE  /\ i = disk.i + 1 /\ i \in Iterations
           /\ rng \in Nat /\ rng' \in Nat /\ at' = "parents"
           /\ \E perm \in Shuffles :
                 /\ sampled' = [sampled EXCEPT ![i] = Drawn(rng, sampler, i, perm)]
                 /\ \/ /\ EpochTurns(sampler, i)
                       /\ shuffled[rng + 1] \in {<<>>, perm}
                       /\ shuffled' = [shuffled EXCEPT ![rng + 1] = perm]
                    \/ ~EpochTurns(sampler, i) /\ shuffled' = shuffled
  <1>1. i = disk.i + 1 /\ i \in Iterations /\ rng \in Nat
    BY DEF Sample, SampleInv, Positioned, IInv, Placed
  <1>2. PICK perm \in Shuffles :
            LET called == Called(sampler, i)
                fresh == NeedsRefresh(called, i)
                first == IF fresh THEN Refreshed(called, i, perm) ELSE called
            IN  /\ IF fresh
                   THEN /\ shuffled[rng + 1] \in {<<>>, perm}
                        /\ shuffled' = [shuffled EXCEPT ![rng + 1] = perm]
                        /\ rng' = rng + 2
                   ELSE /\ UNCHANGED shuffled
                        /\ rng' = rng + 1
                /\ tasks' = [k \in 1..N |->
                               [parent |-> rng, ids |-> Minibatch(Repeated(first, k - 1), i)]]
                /\ sampled' = [sampled EXCEPT ![i] = tasks']
    BY DEF Sample
  <1>3. tasks' = Drawn(rng, sampler, i, perm)  BY <1>2 DEF Drawn
  <1>4. sampled' = [sampled EXCEPT ![i] = Drawn(rng, sampler, i, perm)]  BY <1>2, <1>3
  <1>5. \/ /\ EpochTurns(sampler, i)
           /\ shuffled[rng + 1] \in {<<>>, perm}
           /\ shuffled' = [shuffled EXCEPT ![rng + 1] = perm]
        \/ ~EpochTurns(sampler, i) /\ shuffled' = shuffled
    BY <1>2 DEF EpochTurns
  <1>6. rng' \in Nat  BY <1>1, <1>2
  <1> QED  BY <1>1, <1>4, <1>5, <1>6 DEF Sample

\* A permutation of the training set is not empty.
LEMMA PermutationIsSomething ==
    ASSUME NEW perm \in Shuffles PROVE perm # <<>>
  <1>1. perm \in [1..TrainSize -> TrainIds] /\ TrainSize \in Nat \ {0}
    BY ReplayAssumption, SamplerAssumption DEF ReplayAssumption, SamplerAssumption
  <1> QED  BY <1>1

LEMMA SampleKeeps ==
    ASSUME SampleInv, IInv, Sample
    PROVE  /\ SampleInv'
           /\ \A j \in Iterations :
                 sampled[j] # <<>> /\ sampled'[j] # sampled[j] => j \in touched
  <1>1. /\ i = disk.i + 1 /\ i \in Iterations
        /\ rng \in Nat /\ rng' \in Nat /\ at' = "parents"
    BY SampleDraws
  <1>2. PICK perm \in Shuffles :
           /\ sampled' = [sampled EXCEPT ![i] = Drawn(rng, sampler, i, perm)]
           /\ \/ /\ EpochTurns(sampler, i)
                 /\ shuffled[rng + 1] \in {<<>>, perm}
                 /\ shuffled' = [shuffled EXCEPT ![rng + 1] = perm]
              \/ ~EpochTurns(sampler, i) /\ shuffled' = shuffled
    BY SampleDraws
  <1>3. /\ sampled = [j \in Iterations |-> sampled[j]]
        /\ shuffled = [r \in 0..MaxDraws |-> shuffled[r]]
    BY DEF SampleInv, SampledAgain
  <1>4. sampler = disk.sampler /\ (i \notin touched => rng = disk.rng)
    BY DEF Sample, SampleInv, Positioned
  <1>5. UNCHANGED <<i, disk, touched>> /\ rng + 2 <= MaxDraws /\ MaxDraws \in Nat
    BY ReplayAssumption DEF Sample, durable
  <1>6. sampled'[i] = Drawn(rng, sampler, i, perm)  BY <1>1, <1>2, <1>3
  <1>7. \A j \in Iterations \ {i} : sampled'[j] = sampled[j]  BY <1>2, <1>3
  <1>8. ASSUME EpochTurns(sampler, i)
        PROVE  shuffled'[rng + 1] = perm /\ perm # <<>> /\ shuffled[rng + 1] \in {<<>>, perm}
    <2>1. rng + 1 \in 0..MaxDraws  BY <1>1, <1>5
    <2> QED  BY <2>1, <1>2, <1>3, <1>8, PermutationIsSomething
  <1>9. Drawn(rng, sampler, i, perm) = Drawn(rng, sampler, i, shuffled'[rng + 1])
    BY <1>8, DrawnUnshuffled
  <1>10. i \notin touched => Resampled(i)'
    BY <1>1, <1>4, <1>5, <1>6, <1>8, <1>9 DEF Resampled
  <1>11. SampledAgain'
    <2>1. /\ sampled' = [j \in Iterations |-> sampled'[j]]
          /\ shuffled' = [r \in 0..MaxDraws |-> shuffled'[r]]
      BY <1>2, <1>3
    <2>2. ASSUME NEW j \in Iterations, j # i, sampled'[j] # <<>>, j \notin touched
          PROVE  j <= disk.i
      <3>1. sampled[j] # <<>>  BY <2>2, <1>7
      <3>2. j # disk.i + 1  BY <2>2, <1>1
      <3> QED  BY <2>2, <3>1, <3>2 DEF SampleInv, SampledAgain, Resampled
    <2> QED  BY <2>1, <2>2, <1>5, <1>10 DEF SampledAgain
  <1>12. Positioned'
    BY <1>1, <1>5 DEF SampleInv, Positioned
  <1>13. ASSUME sampled[i] # <<>>, i \notin touched PROVE sampled'[i] = sampled[i]
    <2>1. ~(i <= disk.i)  BY <1>1 DEF SampleInv, Positioned
    <2>2. Resampled(i)  BY <1>13, <1>1, <2>1 DEF SampleInv, SampledAgain
    <2>3. sampled[i] = Drawn(rng, sampler, i, shuffled[rng + 1])
      BY <1>4, <1>13, <2>2 DEF Resampled
    <2>4. EpochTurns(sampler, i) => shuffled[rng + 1] = perm
      BY <1>4, <1>8, <1>13, <2>2 DEF Resampled
    <2> QED  BY <1>6, <2>3, <2>4, DrawnUnshuffled
  <1> QED  BY <1>7, <1>11, <1>12, <1>13 DEF SampleInv

\* Past the sampling nothing touches what it depends on.
Past ==
    /\ {at, at'} \intersect {"down", "done", "merge", "sample"} = {} /\ at # "top"
    /\ UNCHANGED <<i, rng, sampler, disk, touched, sampled, shuffled>>

LEMMA PastSteps ==
    ASSUME NothingProposed \/ Judge \/ RefuseBatch \/ ReplayBatch \/ CallBatch \/ StoreOfBatch
           \/ FinishBatch \/ RefuseCall \/ ReplayCall \/ CallGivesText \/ StoreOfCall
           \/ CallGivesNone \/ CallFails
           \/ \E phase \in Phases : ReplayStage(phase) \/ RefuseStage(phase) \/ RunStage(phase)
                                       \/ RecordStage(phase)
    PROVE  Past
  <1> USE DEF Past, durable, EndIteration, Refuse, ResolveBatch, Answered, Single
  <1>1. CASE NothingProposed \/ Judge \/ CallFails
    BY <1>1 DEF NothingProposed, Judge, CallFails, Abort
  <1>2. CASE RefuseBatch \/ RefuseCall
    BY <1>2 DEF RefuseBatch, RefuseCall
  <1>3. CASE ReplayBatch \/ StoreOfBatch \/ FinishBatch
    BY <1>3 DEF ReplayBatch, StoreOfBatch, FinishBatch
  <1>4. CASE CallBatch
    BY <1>4 DEF CallBatch
  <1>5. CASE ReplayCall \/ CallGivesText \/ StoreOfCall \/ CallGivesNone
    BY <1>5 DEF ReplayCall, CallGivesText, StoreOfCall, CallGivesNone
  <1>6. ASSUME NEW phase \in Phases,
               ReplayStage(phase) \/ RefuseStage(phase) \/ RunStage(phase) \/ RecordStage(phase)
        PROVE  Past
    BY <1>6 DEF ReplayStage, RefuseStage, RunStage, RecordStage, Phases
  <1> QED  BY <1>1, <1>2, <1>3, <1>4, <1>5, <1>6

\* The checkpoint at the top moves on only with the iteration.
LEMMA SaveKeeps ==
    ASSUME SampleInv, IInv, Begin \/ Finish PROVE SampleInv'
  <1>1. /\ disk' = [i |-> i, rng |-> rng, sampler |-> sampler]
        /\ UNCHANGED <<rng, sampler, sampled, shuffled, touched>>
        /\ at = "top" /\ i \in Int
        /\ \/ i' = i + 1 /\ at' \in {"merge", "sample"}
           \/ at' = "done"
    BY DEF Begin, Finish, IInv, Placed, Iterations
  <1>2. disk'.i = i /\ disk'.rng = rng /\ disk'.sampler = sampler  BY <1>1
  <1>3. Positioned'  BY <1>1, <1>2 DEF SampleInv, Positioned
  <1>4. ASSUME NEW j \in Iterations, sampled[j] # <<>>, j \notin touched
        PROVE  j <= disk'.i \/ Resampled(j)'
    <2>1. j <= disk.i \/ Resampled(j)  BY <1>4 DEF SampleInv, SampledAgain
    <2>2. CASE i = disk.i + 1
      BY <2>1, <2>2, <1>2 DEF SampleInv, Positioned, Resampled, Iterations
    <2>3. CASE i = disk.i /\ rng = disk.rng /\ sampler = disk.sampler
      BY <2>1, <2>3, <1>1, <1>2 DEF Resampled
    <2> QED  BY <2>2, <2>3, <1>1 DEF SampleInv, Positioned
  <1>5. SampledAgain'  BY <1>1, <1>4 DEF SampleInv, SampledAgain
  <1> QED  BY <1>3, <1>5 DEF SampleInv

LEMMA OthersKeep ==
    ASSUME SampleInv, IInv,
           Start \/ Die \/ MergeFindsNothing \/ MergeIsJudged \/ Past \/ UNCHANGED vars
    PROVE  SampleInv'
  <1>1. UNCHANGED <<disk, sampled, shuffled>> /\ touched \subseteq touched'
    BY DEF Start, Die, MergeFindsNothing, MergeIsJudged, Past, vars, process, durable, history
  <1>2. SampledAgain'  BY <1>1 DEF SampleInv, SampledAgain, Resampled
  <1>3. CASE Start \/ Die \/ MergeIsJudged
    <2>1. Positioned'
      BY <1>3, <1>1 DEF Start, Load, Die, MergeIsJudged, EndIteration, SampleInv, Positioned
    <2> QED  BY <1>2, <2>1 DEF SampleInv
  <1>4. CASE MergeFindsNothing
    <2>1. PICK drawn \in {0, 1} :
             /\ rng' = rng + drawn
             /\ touched' = IF drawn = 1 THEN touched \union {i} ELSE touched
      BY <1>4 DEF MergeFindsNothing
    <2>2. /\ at = "merge" /\ at' = "sample" /\ UNCHANGED <<i, sampler>>
      BY <1>4 DEF MergeFindsNothing
    <2>3. Positioned'  BY <2>1, <2>2, <1>1 DEF SampleInv, Positioned
    <2> QED  BY <1>2, <2>3 DEF SampleInv
  <1>5. CASE Past \/ UNCHANGED vars
    <2>1. Positioned'
      BY <1>5, <1>1 DEF Past, vars, process, durable, history, SampleInv, Positioned
    <2> QED  BY <1>2, <2>1 DEF SampleInv
  <1> QED  BY <1>3, <1>4, <1>5

LEMMA StepCases ==
    ASSUME [Next]_vars
    PROVE  Sample \/ Begin \/ Finish \/ Start \/ Die \/ MergeFindsNothing \/ MergeIsJudged \/ Past
           \/ UNCHANGED vars
  BY PastSteps DEF Next, Step

LEMMA OthersSampleNothing ==
    ASSUME [Next]_vars, ~Sample PROVE sampled' = sampled
  <1>1. CASE Begin \/ Finish \/ Start \/ Die \/ MergeFindsNothing \/ MergeIsJudged
    BY <1>1 DEF Begin, Finish, Start, Die, MergeFindsNothing, MergeIsJudged, history
  <1>2. CASE Past \/ UNCHANGED vars
    BY <1>2 DEF Past, vars, history
  <1> QED  BY <1>1, <1>2, StepCases

(***************************************************************************)
(* A resumed iteration samples the same minibatches for the same parent,    *)
(* unless a merge attempt drew first (engine.py save, batch_sampler.py).    *)
(***************************************************************************)
THEOREM ResumesSampleTheSame == Spec => ResampleIsSame
  <1>1. SampleInv /\ IInv /\ [Next]_vars => SampleInv'
    BY StepCases, SampleKeeps, SaveKeeps, OthersKeep
  <1>2. SampleInv /\ IInv /\ [Next]_vars =>
            [\A j \in Iterations :
                sampled[j] # <<>> /\ sampled'[j] # sampled[j] => j \in touched]_vars
    BY SampleKeeps, OthersSampleNothing
  <1> QED  BY <1>1, <1>2, InitSampleInv, IInvHolds, PTL DEF Spec, ResampleIsSame

(***************************************************************************)
(* The epochs of the batch sampler.  An epoch is PerEpoch iterations, each   *)
(* of which shows its part of the epoch's permutation; the sampler is saved *)
(* with the counter of iterations, so a resume takes neither anew.          *)
(***************************************************************************)
\* Products with a positive factor keep and reflect the order.
LEMMA TimesMonotone ==
    ASSUME NEW x \in Int, NEW y \in Int, NEW m \in Nat \ {0}, x <= y
    PROVE  x * m <= y * m
<1>1. PICK d \in Nat : y = x + d
  <2>1. y - x \in Nat /\ y = x + (y - x)  OBVIOUS
  <2> QED  BY <2>1
<1>2. y * m = x * m + d * m  BY <1>1
<1>3. d * m >= 0  OBVIOUS
<1> QED  BY <1>2, <1>3

\* The order of the products is that of the factors.
LEMMA TimesReflects ==
    ASSUME NEW x \in Int, NEW y \in Int, NEW m \in Nat \ {0}, x * m < y * m
    PROVE  x < y
<1>1. x * m \in Int /\ y * m \in Int  OBVIOUS
<1>2. SUFFICES ASSUME ~(x < y) PROVE FALSE  OBVIOUS
<1>3. y <= x  BY <1>2
<1>4. y * m <= x * m  BY <1>3, TimesMonotone
<1> QED  BY <1>1, <1>4

\* Division by a positive number.
LEMMA Division ==
    ASSUME NEW x \in Nat, NEW d \in Nat \ {0}
    PROVE  /\ x \div d \in Nat /\ x % d \in 0..(d - 1)
           /\ x = (x \div d) * d + (x % d)
<1>1. x \div d \in Int /\ x % d \in 0..(d - 1) OBVIOUS
<1>2. x = d * (x \div d) + (x % d) OBVIOUS
<1>3. x \div d >= 0 OBVIOUS
<1> QED  BY <1>1, <1>2, <1>3

\* Iterations in an epoch.
PerEpoch == EpochLength \div MinibatchSize

\* Padding makes an epoch a whole number of minibatches, at least one.
LEMMA EpochIsWhole ==
    /\ EpochLength \in Nat \ {0} /\ PerEpoch \in Nat \ {0}
    /\ EpochLength = PerEpoch * MinibatchSize
    /\ TrainSize <= EpochLength
<1> DEFINE M == MinibatchSize
           T == TrainSize
           q == T \div M
           r == T % M
<1>1. M \in Nat \ {0} /\ T \in Nat \ {0}  BY SamplerAssumption DEF SamplerAssumption
<1> HIDE DEF M, T
<1>2. q \in Nat /\ r \in 0..(M - 1) /\ T = q * M + r  BY <1>1, Division
<1>3. EpochLength = T + ((M - r) % M)  BY DEF EpochLength, PadSize, M, T
<1>4. \E k \in Nat \ {0} : EpochLength = k * M /\ T <= EpochLength
  <2>1. CASE r = 0
    <3>1. (M - r) % M = 0  BY <1>1, <2>1
    <3>2. EpochLength = q * M /\ T <= EpochLength /\ q # 0  BY <3>1, <1>1, <1>2, <1>3, <2>1
    <3> HIDE DEF q
    <3> QED  BY <3>2, <1>2
  <2>2. CASE r # 0
    <3>1. (M - r) % M = M - r  BY <1>1, <1>2, <2>2
    <3>2. EpochLength = (q + 1) * M /\ T <= EpochLength  BY <3>1, <1>1, <1>2, <1>3
    <3>3. q + 1 \in Nat \ {0}  BY <1>2
    <3> HIDE DEF q
    <3> QED  BY <3>2, <3>3
  <2> QED  BY <2>1, <2>2
<1>5. PICK k \in Nat \ {0} : EpochLength = k * M /\ T <= EpochLength  BY <1>4
<1>6. (k * M) \div M = k
  <2> HIDE DEF q, r
  <2>1. k * M \in Nat  BY <1>1
  <2>2. k * M = ((k * M) \div M) * M + ((k * M) % M) /\ ((k * M) % M) \in 0..(M - 1)
        /\ (k * M) \div M \in Nat
    BY <2>1, <1>1, Division
  <2>3. PICK d \in Nat : d = (k * M) \div M  BY <2>2
  <2>4. k * M >= d * M /\ k * M < (d + 1) * M BY <1>1, <2>2, <2>3
  <2>5. ~(k < d)
    <3>1. ASSUME k < d PROVE FALSE
      <4>1. (k + 1) * M <= d * M  BY <3>1, <1>1, TimesMonotone
      <4> QED  BY <4>1, <2>4, <1>1
    <3> QED BY <3>1
  <2>6. k < d + 1  BY <2>4, <1>1, TimesReflects
  <2> QED  BY <2>3, <2>5, <2>6
<1>7. PerEpoch = k  BY <1>5, <1>6 DEF PerEpoch, M
<1>8. k * M \in Nat \ {0}
  <2>1. 1 * M <= k * M  BY <1>1, TimesMonotone
  <2> QED BY <2>1, <1>1
<1> QED  BY <1>5, <1>7, <1>8 DEF M, T

\* The epoch an iteration falls in, and the first iteration of it.
EpochOf(j) == (j * MinibatchSize) \div EpochLength
EpochStart(j) == EpochOf(j) * PerEpoch

\* An epoch is PerEpoch iterations.
LEMMA EpochHolds ==
    ASSUME NEW j \in Nat
    PROVE  /\ EpochOf(j) \in Nat /\ EpochStart(j) \in 0..j
           /\ j < EpochStart(j) + PerEpoch
           /\ (j * MinibatchSize) % EpochLength = (j - EpochStart(j)) * MinibatchSize
<1> DEFINE M == MinibatchSize
           K == PerEpoch
           e == EpochOf(j)
           r == (j * M) % EpochLength
<1>1. M \in Nat \ {0} /\ K \in Nat \ {0} /\ EpochLength \in Nat \ {0} /\ EpochLength = K * M
  BY SamplerAssumption, EpochIsWhole DEF SamplerAssumption
<1>2. j * M \in Nat  BY <1>1
<1>3. e \in Nat /\ r \in 0..(EpochLength - 1) /\ j * M = e * EpochLength + r
  BY <1>1, <1>2, Division DEF EpochOf
<1>4. EpochStart(j) = e * K  BY DEF EpochStart
<1> HIDE DEF e, r, K, M
<1>5. e * K \in Nat  BY <1>1, <1>3
<1>6. e * EpochLength = (e * K) * M  BY <1>1, <1>3
<1>7. r = (j - e * K) * M  BY <1>1, <1>3, <1>5, <1>6
<1>8. e * K <= j
  <2>1. SUFFICES ASSUME j < e * K PROVE FALSE  BY <1>5
  <2>2. (j + 1) * M <= (e * K) * M  BY <2>1, <1>1, <1>5, TimesMonotone
  <2> QED  BY <2>2, <1>1, <1>3, <1>5, <1>6
<1>9. j - e * K < K
  <2>1. (j - e * K) * M < K * M  BY <1>1, <1>3, <1>7
  <2> QED  BY <2>1, <1>1, <1>5, TimesReflects
<1> QED  BY <1>1, <1>3, <1>4, <1>5, <1>7, <1>8, <1>9 DEF e, r, K, M

\* The epoch an iteration is in is the only one that holds it.
LEMMA EpochIsUnique ==
    ASSUME NEW j \in Nat, NEW e \in Nat, e * PerEpoch <= j, j < e * PerEpoch + PerEpoch
    PROVE  EpochOf(j) = e
<1> DEFINE d == EpochOf(j)
           K == PerEpoch
<1>1. K \in Nat \ {0}  BY EpochIsWhole
<1>2. d \in Nat /\ d * K <= j /\ j < d * K + K  BY EpochHolds DEF EpochStart
<1> HIDE DEF d, K
<1>3. ASSUME NEW x \in Nat, NEW y \in Nat, x * K <= j, j < y * K + K PROVE x <= y
  <2>1. x * K < (y + 1) * K  BY <1>1, <1>3
  <2> QED  BY <2>1, <1>1, TimesReflects
<1>4. e * K <= j /\ j < e * K + K  BY DEF K
<1>5. d <= e /\ e <= d  BY <1>2, <1>3, <1>4
<1> QED  BY <1>2, <1>5 DEF d

\* The iteration before is in the same epoch, or in an earlier one.
LEMMA EpochBefore ==
    ASSUME NEW j \in Nat, j # 0
    PROVE  /\ EpochOf(j - 1) <= EpochOf(j)
           /\ EpochStart(j) < j => EpochOf(j - 1) = EpochOf(j) /\ EpochStart(j - 1) = EpochStart(j)
           /\ EpochStart(j) = j => EpochOf(j - 1) < EpochOf(j)
<1>1. j - 1 \in Nat  OBVIOUS
<1>2. /\ EpochOf(j) \in Nat /\ EpochStart(j) \in 0..j /\ j < EpochStart(j) + PerEpoch
      /\ EpochOf(j - 1) \in Nat /\ EpochStart(j - 1) \in 0..(j - 1)
      /\ PerEpoch \in Nat \ {0}
  BY <1>1, EpochHolds, EpochIsWhole
<1>3. ASSUME EpochStart(j) < j PROVE EpochOf(j - 1) = EpochOf(j)
  <2>1. EpochOf(j) * PerEpoch <= j - 1 /\ j - 1 < EpochOf(j) * PerEpoch + PerEpoch
    BY <1>2, <1>3 DEF EpochStart
  <2> QED  BY <2>1, <1>1, <1>2, EpochIsUnique
<1>4. ASSUME EpochStart(j) = j PROVE EpochOf(j - 1) < EpochOf(j)
  <2>1. EpochOf(j - 1) * PerEpoch < EpochOf(j) * PerEpoch
    BY <1>2, <1>4 DEF EpochStart
  <2> QED  BY <2>1, <1>2, TimesReflects
<1> QED  BY <1>2, <1>3, <1>4 DEF EpochStart

\* A sampler's checkpointed state, and what its operations make of it.
Sampler(x, e, n, c) == [ids |-> x, epoch |-> e, iteration |-> n, calls |-> c]

\* A refresh takes a new permutation and the epoch of the iteration.
LEMMA RefreshedIs ==
    ASSUME NEW x, NEW e, NEW n, NEW c, NEW j, NEW p, NEW ids, NEW epoch,
           ids = Padded(p), epoch = CurrentEpoch(Sampler(x, e, n, c), j)
    PROVE  Refreshed(Sampler(x, e, n, c), j, p) = Sampler(ids, epoch, n, c)
<1> DEFINE s == Sampler(x, e, n, c)
<1>1. [s EXCEPT !.ids = ids] = Sampler(ids, e, n, c)  BY DEF Sampler
<1>2. [Sampler(ids, e, n, c) EXCEPT !.epoch = epoch] = Sampler(ids, epoch, n, c)
  BY DEF Sampler
<1>3. Refreshed(s, j, p) = [[s EXCEPT !.ids = ids] EXCEPT !.epoch = epoch]
  BY DEF Refreshed
<1> QED  BY <1>1, <1>2, <1>3

\* The first call in an iteration starts its count anew.
LEMMA CalledAnew ==
    ASSUME NEW x, NEW e, NEW n, NEW c, NEW j, j # n
    PROVE  Called(Sampler(x, e, n, c), j) = Sampler(x, e, j, 0)
<1> DEFINE s == Sampler(x, e, n, c)
<1>1. [s EXCEPT !.calls = IF j = s.iteration THEN s.calls + 1 ELSE 0] = Sampler(x, e, n, 0)
  BY DEF Sampler
<1>2. [Sampler(x, e, n, 0) EXCEPT !.iteration = j] = Sampler(x, e, j, 0)
  BY DEF Sampler
<1>3. Called(s, j) = [[s EXCEPT !.calls = IF j = s.iteration THEN s.calls + 1 ELSE 0]
                         EXCEPT !.iteration = j]
  BY DEF Called
<1> QED  BY <1>1, <1>2, <1>3

\* The part of the shuffled ids that iteration j shows.
Chunk(ids, j) == SubSeq(ids, ((j * MinibatchSize) % EpochLength) + 1,
                        ((j * MinibatchSize) % EpochLength) + MinibatchSize)
\* Since its epoch began every iteration sampled, undisturbed by a merge attempt.
Steady(seen, disturbed, j) ==
    \A m \in EpochStart(j)..j : seen[m] # <<>> /\ m \notin disturbed
\* Those iterations have shown their parts of the same ids.
Chunked(seen, ids, j) ==
    \A m \in EpochStart(j)..j : seen[m][1].ids = Chunk(ids, m)
\* The sampler as some sampling not after iteration j left it.
Filled(s, j) ==
    /\ s = Sampler(s.ids, s.epoch, s.iteration, s.calls)
    /\ \E p \in Shuffles : s.ids = Padded(p)
    /\ s.epoch \in 0..EpochOf(j) /\ s.iteration \in 0..j
Fits(s, j) == IF j = -1 THEN s = NewSampler ELSE Filled(s, j)
\* The sampler is in the epoch of a steady iteration and has its ids.
Follows(seen, disturbed, s, j) ==
    Steady(seen, disturbed, j) => s.epoch = EpochOf(j) /\ Chunked(seen, s.ids, j)
OfOneShuffle(seen, disturbed, j) ==
    Steady(seen, disturbed, j) => \E p \in Shuffles : Chunked(seen, Padded(p), j)

\* The checkpoint's sampler, and the process's once it has sampled, are those
\* of the epoch; what lies after the checkpoint has sampled nothing, but for the
\* iteration under way; a merge attempt comes before its iteration samples.
EpochInv ==
    /\ Fits(disk.sampler, disk.i)
    /\ disk.i # -1 => Follows(sampled, touched, disk.sampler, disk.i)
    /\ at \notin {"down", "merge", "sample", "done"} /\ i = disk.i + 1 =>
          Filled(sampler, i) /\ Follows(sampled, touched, sampler, i)
    /\ \A j \in Iterations : j > disk.i + 1 => sampled[j] = <<>>
    /\ at = "merge" => disk.i # -1 /\ sampled[i] = <<>>
    /\ at = "top" /\ wanted => i = disk.i + 1
    /\ \A j \in Iterations : OfOneShuffle(sampled, touched, j)

\* The sampler that the tasks of iteration j are drawn from.
First(s, j, perm) ==
    IF EpochTurns(s, j) THEN Refreshed(Called(s, j), j, perm) ELSE Called(s, j)

\* It is the epoch's: of a fresh permutation when the epoch begins, and of
\* the old one when not.
LEMMA FirstFits ==
    ASSUME NEW j \in Nat, NEW s, Fits(s, j - 1), NEW perm \in Shuffles
    PROVE  LET first == First(s, j, perm)
           IN  /\ Filled(first, j) /\ first.epoch = EpochOf(j)
               /\ first.iteration = j /\ first.calls = 0
               /\ j # 0 /\ s.epoch = EpochOf(j) => first.ids = s.ids
<1>1. EpochOf(j) \in Nat /\ EpochLength \in Nat \ {0}  BY EpochHolds, EpochIsWhole
<1> DEFINE called == Called(s, j)
           first == First(s, j, perm)
<1>2. CASE j = 0
  <2>1. s = Sampler(<<>>, -1, -1, 0)  BY <1>2 DEF Fits, NewSampler, NoIteration, Sampler
  <2>2. called = Sampler(<<>>, -1, 0, 0)  BY <2>1, <1>2, CalledAnew
  <2>3. CurrentEpoch(called, j) = 0 /\ called.ids = <<>>  BY <2>2 DEF CurrentEpoch, Sampler
  <2>4. EpochTurns(s, j)  BY <2>3 DEF EpochTurns, NeedsRefresh
  <2>5. first = Sampler(Padded(perm), 0, 0, 0)
    BY <2>2, <2>3, <2>4, RefreshedIs DEF First
  <2>6. EpochOf(j) = 0
    <3>1. EpochOf(j) * PerEpoch <= 0 /\ PerEpoch \in Nat \ {0}
      BY <1>2, EpochHolds, EpochIsWhole DEF EpochStart
    <3>2. CASE EpochOf(j) >= 1
      <4>1. 1 * PerEpoch <= EpochOf(j) * PerEpoch  BY <3>1, <3>2, <1>1, TimesMonotone
      <4> QED  BY <4>1, <3>1, <1>1
    <3> QED  BY <3>1, <3>2, <1>1, <1>2
  <2> HIDE DEF first
  <2> QED  BY <1>2, <2>5, <2>6 DEF Filled, Sampler, first
<1>3. CASE j # 0
  <2>1. Filled(s, j - 1)  BY <1>3 DEF Fits
  <2>2. PICK p \in Shuffles : s.ids = Padded(p)  BY <2>1 DEF Filled
  <2>3. s.epoch \in 0..EpochOf(j - 1) /\ s.iteration \in 0..(j - 1)  BY <2>1 DEF Filled
  <2>4. EpochOf(j - 1) <= EpochOf(j) /\ EpochOf(j - 1) \in Nat
    BY <1>3, EpochBefore, EpochHolds
  <2>5. called = Sampler(s.ids, s.epoch, j, 0)
    <3>1. j # s.iteration /\ s = Sampler(s.ids, s.epoch, s.iteration, s.calls)
      BY <2>1, <2>3 DEF Filled
    <3> QED  BY <3>1, CalledAnew
  <2>6. Len(s.ids) = EpochLength /\ s.ids # <<>>
    BY <2>2, <1>1 DEF Padded
  <2>7. CurrentEpoch(called, j) = EpochOf(j)
    BY <2>3, <2>5, <2>6 DEF CurrentEpoch, EpochOf, Sampler
  <2>8. EpochTurns(s, j) <=> EpochOf(j) > s.epoch
    BY <2>5, <2>6, <2>7 DEF EpochTurns, NeedsRefresh, Sampler
  <2>9. CASE EpochTurns(s, j)
    <3>1. first = Sampler(Padded(perm), EpochOf(j), j, 0)
      BY <2>5, <2>7, <2>9, RefreshedIs DEF First
    <3> HIDE DEF first
    <3> QED  BY <3>1, <2>3, <2>8, <2>9, <1>1 DEF Filled, Sampler, first
  <2>10. CASE ~EpochTurns(s, j)
    <3>1. first = called  BY <2>10 DEF First
    <3>2. s.epoch = EpochOf(j)  BY <2>3, <2>4, <2>8, <2>10, <1>1
    <3> HIDE DEF first, called
    <3> QED  BY <3>1, <3>2, <2>2, <2>5, <1>1 DEF Filled, Sampler, first
  <2> QED  BY <2>9, <2>10
<1> QED  BY <1>2, <1>3

\* What a sampling leaves in the sampler and in the first of the tasks.
LEMMA SampleTakes ==
    ASSUME SampleInv, IInv, EpochInv, Sample
    PROVE  /\ i = disk.i + 1 /\ i \in Iterations /\ i \in Nat
           /\ UNCHANGED <<i, disk, touched>> /\ at' = "parents"
           /\ \A j \in Iterations \ {i} : sampled'[j] = sampled[j]
           /\ Filled(sampler', i) /\ sampler'.epoch = EpochOf(i)
           /\ i # 0 /\ disk.sampler.epoch = EpochOf(i) => sampler'.ids = disk.sampler.ids
           /\ sampled'[i][1].ids = Chunk(sampler'.ids, i)
<1>1. /\ i = disk.i + 1 /\ i \in Iterations /\ i \in Nat /\ sampler = disk.sampler
      /\ UNCHANGED <<i, disk, touched>> /\ at' = "parents"
      /\ sampled = [j \in Iterations |-> sampled[j]]
  BY DEF Sample, SampleInv, Positioned, SampledAgain, IInv, Placed, Iterations, durable
<1>2. PICK perm \in Shuffles :
          LET called == Called(sampler, i)
              fresh == NeedsRefresh(called, i)
              first == IF fresh THEN Refreshed(called, i, perm) ELSE called
          IN  /\ tasks' = [k \in 1..N |->
                             [parent |-> rng, ids |-> Minibatch(Repeated(first, k - 1), i)]]
              /\ sampler' = Repeated(first, N - 1)
              /\ sampled' = [sampled EXCEPT ![i] = tasks']
  BY DEF Sample
<1> DEFINE first == First(sampler, i, perm)
<1>3. /\ tasks' = [k \in 1..N |->
                     [parent |-> rng, ids |-> Minibatch(Repeated(first, k - 1), i)]]
      /\ sampler' = Repeated(first, N - 1)
      /\ sampled' = [sampled EXCEPT ![i] = tasks']
  BY <1>2 DEF First, EpochTurns
<1>4. Fits(sampler, i - 1)  BY <1>1 DEF EpochInv, SampleInv, Positioned
<1>5. /\ Filled(first, i) /\ first.epoch = EpochOf(i)
      /\ first.iteration = i /\ first.calls = 0
      /\ i # 0 /\ sampler.epoch = EpochOf(i) => first.ids = sampler.ids
  BY <1>1, <1>4, FirstFits
<1> HIDE DEF first
<1>6. N \in Nat \ {0}  BY ReplayAssumption DEF ReplayAssumption
<1>7. ASSUME NEW n \in Nat
      PROVE  Repeated(first, n) = Sampler(first.ids, first.epoch, first.iteration, n)
  <2>1. first = Sampler(first.ids, first.epoch, first.iteration, 0)
    BY <1>5 DEF Filled
  <2> QED  BY <2>1 DEF Repeated, Sampler
<1>8. sampler' = Sampler(first.ids, EpochOf(i), i, N - 1)  BY <1>3, <1>5, <1>6, <1>7
<1>9. sampler'.ids = first.ids /\ sampler'.epoch = EpochOf(i) /\ sampler'.iteration = i
  BY <1>8 DEF Sampler
<1>10. Filled(sampler', i)
  <2>1. EpochOf(i) \in 0..EpochOf(i) /\ i \in 0..i  BY <1>1, EpochHolds
  <2>2. sampler' = Sampler(sampler'.ids, sampler'.epoch, sampler'.iteration, sampler'.calls)
    BY <1>8 DEF Sampler
  <2>3. \E p \in Shuffles : first.ids = Padded(p)  BY <1>5 DEF Filled
  <2> QED  BY <2>1, <2>2, <2>3, <1>9 DEF Filled
<1>11. sampled'[i][1].ids = Minibatch(Sampler(first.ids, first.epoch, first.iteration, 0), i)
  <2>1. sampled'[i] = tasks'  BY <1>1, <1>3
  <2>2. sampled'[i][1].ids = Minibatch(Repeated(first, 1 - 1), i)  BY <2>1, <1>3, <1>6
  <2>3. 1 - 1 = 0 /\ Repeated(first, 0) = Sampler(first.ids, first.epoch, first.iteration, 0)
    BY <1>7
  <2> QED  BY <2>2, <2>3
<1>12. Len(first.ids) = EpochLength
  <2>1. PICK p \in Shuffles : first.ids = Padded(p)  BY <1>5 DEF Filled
  <2> QED  BY <2>1, EpochIsWhole DEF Padded
<1>13. sampled'[i][1].ids = Chunk(first.ids, i)
  <2> DEFINE s == Sampler(first.ids, first.epoch, first.iteration, 0)
             base == ((i + s.calls) * MinibatchSize) % Len(s.ids)
  <2>1. s.ids = first.ids /\ s.calls = 0  BY DEF Sampler
  <2>2. i + s.calls = i  BY <2>1, <1>1
  <2>3. base = (i * MinibatchSize) % EpochLength  BY <2>1, <2>2, <1>12
  <2>4. Minibatch(s, i) = SubSeq(s.ids, base + 1, base + MinibatchSize)  BY DEF Minibatch
  <2> HIDE DEF s, base
  <2>5. Minibatch(s, i) = Chunk(first.ids, i)  BY <2>1, <2>3, <2>4 DEF Chunk
  <2> QED  BY <2>5, <1>11 DEF s
<1>14. \A j \in Iterations \ {i} : sampled'[j] = sampled[j]  BY <1>1, <1>3
<1> QED  BY <1>1, <1>5, <1>9, <1>10, <1>13, <1>14

\* What is said of an iteration reads nothing of the later ones.
LEMMA SameHistory ==
    ASSUME NEW j \in Nat, NEW seen, NEW next, NEW t, NEW u,
           \A m \in 0..j : next[m] = seen[m], t \subseteq u
    PROVE  /\ Steady(next, u, j) => Steady(seen, t, j)
           /\ \A ids : Chunked(seen, ids, j) = Chunked(next, ids, j)
           /\ \A s : Follows(seen, t, s, j) => Follows(next, u, s, j)
           /\ OfOneShuffle(seen, t, j) => OfOneShuffle(next, u, j)
<1>1. EpochStart(j) \in 0..j  BY EpochHolds
<1>2. \A m \in EpochStart(j)..j : next[m] = seen[m]  BY <1>1
<1>3. Steady(next, u, j) => Steady(seen, t, j)  BY <1>2 DEF Steady
<1>4. \A ids : Chunked(seen, ids, j) = Chunked(next, ids, j)  BY <1>2 DEF Chunked
<1> QED  BY <1>3, <1>4 DEF Follows, OfOneShuffle

\* A sampling goes on with the epoch, or begins one.
LEMMA SampleFollows ==
    ASSUME SampleInv, IInv, EpochInv, Sample
    PROVE  Follows(sampled', touched', sampler', i)
<1>1. /\ i = disk.i + 1 /\ i \in Iterations /\ i \in Nat
      /\ \A j \in Iterations \ {i} : sampled'[j] = sampled[j]
      /\ sampler'.epoch = EpochOf(i)
      /\ i # 0 /\ disk.sampler.epoch = EpochOf(i) => sampler'.ids = disk.sampler.ids
      /\ sampled'[i][1].ids = Chunk(sampler'.ids, i)
      /\ touched' = touched
  BY SampleTakes
<1>2. disk.i \in Int /\ Iterations = 0..(MaxIterations - 1) /\ MaxIterations \in Nat
  BY ReplayAssumption DEF ReplayAssumption, Iterations, SampleInv, Positioned
<1>3. EpochStart(i) \in 0..i  BY <1>1, EpochHolds
<1>4. SUFFICES ASSUME Steady(sampled', touched, i), NEW m \in EpochStart(i)..i
               PROVE  sampled'[m][1].ids = Chunk(sampler'.ids, m)
  BY <1>1 DEF Follows, Chunked
<1>5. CASE m = i  BY <1>5, <1>1
<1>6. CASE m # i
  <2>1. i # 0 /\ i - 1 \in Nat /\ i - 1 = disk.i /\ EpochStart(i) < i
    BY <1>1, <1>2, <1>3, <1>6
  <2>2. EpochStart(i - 1) = EpochStart(i) /\ EpochOf(i - 1) = EpochOf(i)
    BY <2>1, <1>1, EpochBefore
  <2>3. \A n \in EpochStart(i - 1)..(i - 1) : n \in EpochStart(i)..i /\ n \in Iterations \ {i}
    BY <2>2, <1>1, <1>2, <1>3
  <2>4. Steady(sampled, touched, i - 1)  BY <2>3, <1>1, <1>4 DEF Steady
  <2>5. Follows(sampled, touched, disk.sampler, i - 1)  BY <2>1 DEF EpochInv
  <2>6. disk.sampler.epoch = EpochOf(i) /\ Chunked(sampled, disk.sampler.ids, i - 1)
    BY <2>2, <2>4, <2>5 DEF Follows
  <2>7. m \in EpochStart(i - 1)..(i - 1)  BY <2>2, <1>1, <1>3, <1>6
  <2> QED  BY <2>1, <2>3, <2>6, <2>7, <1>1 DEF Chunked
<1> QED  BY <1>5, <1>6

\* A sampling adds its iteration to the epoch's history.
LEMMA SampleKeepsEpochs ==
    ASSUME SampleInv, IInv, EpochInv, Sample PROVE EpochInv'
<1>1. /\ i = disk.i + 1 /\ i \in Iterations /\ i \in Nat
      /\ UNCHANGED <<i, disk, touched>> /\ at' = "parents"
      /\ \A j \in Iterations \ {i} : sampled'[j] = sampled[j]
      /\ Filled(sampler', i)
  BY SampleTakes
<1>2. disk.i \in Int /\ Iterations = 0..(MaxIterations - 1) /\ MaxIterations \in Nat
  BY ReplayAssumption DEF ReplayAssumption, Iterations, SampleInv, Positioned
<1>3. ASSUME NEW j \in 0..(i - 1)
      PROVE  /\ OfOneShuffle(sampled, touched, j) => OfOneShuffle(sampled', touched', j)
             /\ \A s : Follows(sampled, touched, s, j) => Follows(sampled', touched', s, j)
  <2>1. j \in Nat /\ \A m \in 0..j : sampled'[m] = sampled[m]  BY <1>1, <1>2
  <2>2. touched \subseteq touched'  BY <1>1
  <2> QED  BY <2>1, <2>2, SameHistory
<1>4. Follows(sampled', touched', sampler', i)  BY SampleFollows
<1>5. disk.i # -1 => Follows(sampled', touched', disk.sampler, disk.i)
  <2>1. disk.i # -1 => disk.i \in 0..(i - 1)  BY <1>1, <1>2
  <2> QED  BY <2>1, <1>3 DEF EpochInv
<1>6. \A j \in Iterations : j > disk.i + 1 => sampled'[j] = <<>>
  BY <1>1 DEF EpochInv
<1>7. ASSUME NEW j \in Iterations PROVE OfOneShuffle(sampled', touched', j)
  <2>1. j \in Nat  BY <1>2
  <2>2. EpochStart(j) \in 0..j  BY <2>1, EpochHolds
  <2>3. CASE j > i
    <3>1. sampled'[j] = <<>> /\ j \in EpochStart(j)..j  BY <2>1, <2>2, <2>3, <1>1, <1>6
    <3> QED  BY <3>1 DEF Steady, OfOneShuffle
  <2>4. CASE j = i
    <3>1. \E p \in Shuffles : sampler'.ids = Padded(p)  BY <1>1 DEF Filled
    <3> QED  BY <3>1, <2>4, <1>4 DEF Follows, OfOneShuffle
  <2>5. CASE j < i
    <3>1. j \in 0..(i - 1)  BY <2>1, <2>5, <1>1
    <3> QED  BY <3>1, <1>3 DEF EpochInv
  <2> QED  BY <2>1, <2>3, <2>4, <2>5, <1>1
<1> QED  BY <1>1, <1>4, <1>5, <1>6, <1>7 DEF EpochInv

\* A sampler that fits an iteration fits the next one while that has no sample.
LEMMA FitsNext ==
    ASSUME NEW j \in Nat, NEW s, Fits(s, j - 1), j # 0
    PROVE  Filled(s, j)
<1>1. Filled(s, j - 1)  BY DEF Fits
<1>2. EpochOf(j - 1) <= EpochOf(j) /\ EpochOf(j - 1) \in Nat /\ EpochOf(j) \in Nat
  BY EpochBefore, EpochHolds
<1>3. s.epoch \in 0..EpochOf(j) /\ s.iteration \in 0..j  BY <1>1, <1>2 DEF Filled
<1> QED  BY <1>1, <1>3 DEF Filled

\* An iteration without a sample is not steady.
LEMMA UnsampledFollows ==
    ASSUME NEW j \in Nat, NEW s, NEW seen, NEW t, seen[j] = <<>>
    PROVE  Follows(seen, t, s, j)
<1>1. j \in EpochStart(j)..j  BY EpochHolds
<1> QED  BY <1>1 DEF Follows, Steady

\* The checkpoint takes the sampler over.
LEMMA SaveKeepsEpochs ==
    ASSUME SampleInv, IInv, EpochInv, Begin \/ Finish PROVE EpochInv'
<1>1. /\ disk' = [i |-> i, rng |-> rng, sampler |-> sampler]
      /\ UNCHANGED <<sampler, sampled, touched, wanted>>
      /\ at = "top" /\ i \in Int /\ disk.i \in Int
      /\ \/ i' = i + 1 /\ at' = "merge" /\ wanted /\ i < MaxIterations - 1
         \/ i' = i + 1 /\ at' = "sample"
         \/ i' = i /\ at' = "done"
  BY DEF Begin, Finish, IInv, Placed, Iterations, SampleInv, Positioned
<1>2. disk'.i = i /\ disk'.sampler = sampler  BY <1>1
<1>3. disk.i >= -1 /\ Iterations = 0..(MaxIterations - 1) /\ MaxIterations \in Nat
  BY ReplayAssumption DEF ReplayAssumption, IInv, Placed, Iterations
<1>4. i = disk.i + 1 \/ (i = disk.i /\ sampler = disk.sampler)
  BY <1>1 DEF SampleInv, Positioned
<1>5. Fits(sampler, i) /\ (i # -1 => Follows(sampled, touched, sampler, i))
  <2>1. CASE i = disk.i + 1
    BY <2>1, <1>1, <1>3 DEF EpochInv, Fits
  <2>2. CASE i = disk.i /\ sampler = disk.sampler
    BY <2>2 DEF EpochInv
  <2> QED  BY <2>1, <2>2, <1>4
<1>6. \A j \in Iterations : j > i + 1 => sampled[j] = <<>>
  BY <1>1, <1>3, <1>4 DEF EpochInv
<1>7. ASSUME at' = "merge" PROVE i # -1 /\ sampled[i'] = <<>>
  <2>1. i = disk.i + 1 /\ i' = i + 1 /\ i < MaxIterations - 1  BY <1>1, <1>7 DEF EpochInv
  <2>2. i' \in Iterations /\ i' > disk.i + 1  BY <2>1, <1>1, <1>3
  <2> QED  BY <2>1, <2>2, <1>1, <1>3 DEF EpochInv
<1>8. at' \in {"merge", "sample", "done"}  BY <1>1
<1>9. \A j \in Iterations : OfOneShuffle(sampled', touched', j)
  BY <1>1 DEF EpochInv
<1> QED  BY <1>1, <1>2, <1>5, <1>6, <1>7, <1>8, <1>9 DEF EpochInv

\* Every other step leaves the samples alone.
LEMMA OthersKeepEpochs ==
    ASSUME SampleInv, IInv, EpochInv,
           Start \/ Die \/ MergeFindsNothing \/ MergeIsJudged \/ Past \/ UNCHANGED vars
    PROVE  EpochInv'
<1>1. UNCHANGED <<disk, sampled>> /\ touched \subseteq touched'
  BY DEF Start, Die, MergeFindsNothing, MergeIsJudged, Past, vars, process, durable, history
<1>2. disk.i \in Int /\ disk.i >= -1 /\ \A j \in Iterations : j \in Nat
  BY ReplayAssumption DEF ReplayAssumption, IInv, Placed, Iterations
<1>3. ASSUME NEW j \in Nat
      PROVE  /\ OfOneShuffle(sampled, touched, j) => OfOneShuffle(sampled', touched', j)
             /\ \A s : Follows(sampled, touched, s, j) => Follows(sampled', touched', s, j)
  BY <1>1, SameHistory
<1>4. /\ disk.i # -1 => Follows(sampled', touched', disk.sampler, disk.i)
      /\ \A j \in Iterations : OfOneShuffle(sampled', touched', j)
      /\ \A j \in Iterations : j > disk.i + 1 => sampled'[j] = <<>>
  BY <1>1, <1>2, <1>3 DEF EpochInv
<1>5. CASE Start \/ Die
  <2>1. /\ at' = "top" /\ i' = disk.i /\ ~wanted'
        \/ at' = "down"
    BY <1>5 DEF Start, Load, Die
  <2> QED  BY <2>1, <1>1, <1>2, <1>4 DEF EpochInv
<1>6. CASE MergeFindsNothing
  <2>1. at' = "sample"  BY <1>6 DEF MergeFindsNothing
  <2> QED  BY <2>1, <1>1, <1>4 DEF EpochInv
<1>7. CASE MergeIsJudged
  <2>1. at = "merge" /\ at' = "top" /\ ~wanted' /\ UNCHANGED <<i, sampler>>
    BY <1>7 DEF MergeIsJudged, EndIteration
  <2>2. i = disk.i + 1 /\ sampler = disk.sampler /\ disk.i # -1 /\ sampled[i] = <<>>
    BY <2>1 DEF EpochInv, SampleInv, Positioned
  <2>3. i \in Nat /\ i # 0 /\ i - 1 = disk.i  BY <2>2, <1>2
  <2>4. Filled(sampler, i)  BY <2>2, <2>3, FitsNext DEF EpochInv
  <2>5. Follows(sampled', touched', sampler, i)  BY <2>2, <2>3, <1>1, UnsampledFollows
  <2> QED  BY <2>1, <2>4, <2>5, <1>1, <1>4 DEF EpochInv
<1>8. CASE Past \/ UNCHANGED vars
  <2>1. /\ UNCHANGED <<i, sampler>>
        /\ \/ at \notin {"down", "top", "done", "merge", "sample"}
              /\ at' \notin {"down", "done", "merge", "sample"}
           \/ UNCHANGED <<at, wanted>>
    BY <1>8 DEF Past, vars, process, durable, history
  <2>2. ASSUME at' \notin {"down", "merge", "sample", "done"}, i' = disk.i + 1
        PROVE  Filled(sampler', i') /\ Follows(sampled', touched', sampler', i')
    <3>1. Filled(sampler, i) /\ Follows(sampled, touched, sampler, i)
      BY <2>1, <2>2 DEF EpochInv
    <3>2. i \in Nat  BY <2>1, <2>2, <1>2
    <3> QED  BY <3>1, <3>2, <2>1, <1>3
  <2>3. at' = "top" /\ wanted' => i' = disk.i + 1
    BY <2>1 DEF EpochInv, SampleInv, Positioned
  <2>4. at' = "merge" => disk.i # -1 /\ sampled[i'] = <<>>
    BY <2>1 DEF EpochInv
  <2> QED  BY <2>2, <2>3, <2>4, <1>1, <1>4 DEF EpochInv
<1> QED  BY <1>5, <1>6, <1>7, <1>8

\* Nothing was sampled at first.
LEMMA InitEpochInv == Init => EpochInv
<1> SUFFICES ASSUME Init PROVE EpochInv  OBVIOUS
<1>1. disk.i = -1 /\ disk.sampler = NewSampler /\ at = "down"
      /\ \A j \in Iterations : sampled[j] = <<>>
  BY DEF Init
<1>2. ASSUME NEW j \in Iterations PROVE OfOneShuffle(sampled, touched, j)
  <2>1. j \in Nat  BY ReplayAssumption DEF ReplayAssumption, Iterations
  <2>2. j \in EpochStart(j)..j  BY <2>1, EpochHolds
  <2> QED  BY <2>2, <1>1 DEF OfOneShuffle, Steady
<1> QED  BY <1>1, <1>2 DEF EpochInv, Fits

\* A chunk of the epoch holds the padded permutation's entries in order.
LEMMA ChunkHolds ==
    ASSUME NEW p \in Shuffles, NEW j \in Nat, NEW k \in 1..MinibatchSize
    PROVE  LET place == (j - EpochStart(j)) * MinibatchSize + k
           IN  place \in 1..EpochLength /\ Chunk(Padded(p), j)[k] = Padded(p)[place]
<1> DEFINE M == MinibatchSize
           d == j - EpochStart(j)
           base == (j * M) % EpochLength
           ids == Padded(p)
<1>1. /\ M \in Nat \ {0} /\ PerEpoch \in Nat \ {0} /\ EpochLength \in Nat \ {0}
      /\ EpochLength = PerEpoch * M
  BY SamplerAssumption, EpochIsWhole DEF SamplerAssumption
<1>2. d \in 0..(PerEpoch - 1) /\ base = d * M
  <2>1. EpochStart(j) \in 0..j /\ j < EpochStart(j) + PerEpoch /\ base = d * M  BY EpochHolds
  <2> QED  BY <2>1, <1>1
<1>3. Chunk(ids, j) = SubSeq(ids, base + 1, base + M)  BY DEF Chunk
<1>4. k \in 1..M  OBVIOUS
<1> HIDE DEF d, base, M, ids
<1>5. d * M \in Nat /\ d * M + M <= EpochLength
  <2>1. (d + 1) * M <= PerEpoch * M  BY <1>1, <1>2, TimesMonotone
  <2>2. (d + 1) * M = d * M + M /\ d * M \in Nat  BY <1>1, <1>2
  <2> QED  BY <2>1, <2>2, <1>1
<1>6. \A x \in 1..EpochLength : ids[x] \in {ids[y] : y \in 1..EpochLength}  OBVIOUS
<1>7. Chunk(ids, j)[k] = ids[d * M + k]
  <2>1. base + 1 \in Int /\ base + M \in Int /\ (base + 1)..(base + M) \subseteq 1..EpochLength
    BY <1>1, <1>2, <1>5
  <2>2. \A x \in 1..((base + M) - (base + 1) + 1) :
           SubSeq(ids, base + 1, base + M)[x] = ids[(base + 1) + x - 1]
    BY <2>1, <1>6, SubSeqProperties
  <2>3. (base + M) - (base + 1) + 1 = M /\ (base + 1) + k - 1 = d * M + k
    BY <1>1, <1>2, <1>4, <1>5
  <2> QED  BY <1>3, <1>4, <2>2, <2>3
<1>8. d * M + k \in 1..EpochLength  BY <1>1, <1>4, <1>5
<1> QED  BY <1>7, <1>8 DEF d, M, ids

\* When an epoch has all its iterations, they are those from its start on.
LEMMA EpochIsComplete ==
    ASSUME NEW epoch \in Nat, Cardinality(IterationsOf(epoch)) * MinibatchSize = EpochLength
    PROVE  IterationsOf(epoch) = (epoch * PerEpoch)..(epoch * PerEpoch + PerEpoch - 1)
<1> DEFINE js == IterationsOf(epoch)
           start == epoch * PerEpoch
           all == start..(start + PerEpoch - 1)
<1>1. /\ MinibatchSize \in Nat \ {0} /\ PerEpoch \in Nat \ {0} /\ start \in Nat
      /\ EpochLength = PerEpoch * MinibatchSize
  BY SamplerAssumption, EpochIsWhole DEF SamplerAssumption
<1>2. js \subseteq all
  <2>1. SUFFICES ASSUME NEW j \in js PROVE j \in all  OBVIOUS
  <2>2. j \in Nat /\ EpochOf(j) = epoch
    BY ReplayAssumption DEF ReplayAssumption, IterationsOf, Iterations, EpochOf
  <2>3. start <= j /\ j < start + PerEpoch  BY <2>2, EpochHolds DEF EpochStart
  <2> QED  BY <2>2, <2>3, <1>1
<1> HIDE DEF start, js
<1>3. IsFiniteSet(all) /\ Cardinality(all) = PerEpoch
  <2>1. start \in Int /\ start + PerEpoch - 1 \in Int /\ ~(start > start + PerEpoch - 1)
        /\ (start + PerEpoch - 1) - start + 1 = PerEpoch
    BY <1>1
  <2> QED  BY <2>1, FS_Interval
<1> HIDE DEF all
<1>4. IsFiniteSet(js) /\ (Cardinality(all) = Cardinality(js) => all = js)
  BY <1>2, <1>3, FS_Subset
<1>5. Cardinality(js) \in Nat  BY <1>4, FS_CardinalityType
<1>6. Cardinality(js) * MinibatchSize = PerEpoch * MinibatchSize  BY <1>1 DEF js
<1>7. Cardinality(js) = PerEpoch
  <2>1. ASSUME NEW x \in Nat, NEW y \in Nat, x * MinibatchSize = y * MinibatchSize, x < y
        PROVE  FALSE
    <3>1. (x + 1) * MinibatchSize <= y * MinibatchSize  BY <2>1, <1>1, TimesMonotone
    <3> QED  BY <3>1, <2>1, <1>1
  <2> QED  BY <2>1, <1>1, <1>5, <1>6
<1> QED  BY <1>3, <1>4, <1>7 DEF js, all, start

\* The last iteration of a complete epoch is steady, so all of them have shown
\* their parts of one permutation, which together are the whole of it.
LEMMA EpochInvCovers == EpochInv => EpochCovers
<1> SUFFICES ASSUME EpochInv, NEW epoch \in 0..MaxIterations,
                    Cardinality(IterationsOf(epoch)) * MinibatchSize = EpochLength,
                    \A j \in IterationsOf(epoch) : sampled[j] # <<>>,
                    IterationsOf(epoch) \intersect touched = {}
             PROVE  TrainIds = UNION {Shown(j) : j \in IterationsOf(epoch)}
  BY DEF EpochCovers
<1> DEFINE js == IterationsOf(epoch)
           start == epoch * PerEpoch
           last == start + PerEpoch - 1
           M == MinibatchSize
<1>1. /\ M \in Nat \ {0} /\ TrainSize \in Nat \ {0} /\ EpochLength \in Nat \ {0}
      /\ PerEpoch \in Nat \ {0} /\ EpochLength = PerEpoch * M /\ TrainSize <= EpochLength
  BY SamplerAssumption, EpochIsWhole DEF SamplerAssumption
<1>2. epoch \in Nat /\ start \in Nat /\ last \in Nat /\ start <= last
  BY <1>1, ReplayAssumption DEF ReplayAssumption
<1>3. js = start..last  BY <1>2, EpochIsComplete
<1>4. \A j \in js : j \in Nat /\ j \in Iterations /\ EpochStart(j) = start
  BY ReplayAssumption DEF ReplayAssumption, IterationsOf, Iterations, EpochStart, EpochOf
<1> HIDE DEF js, start, last, M
<1>5. last \in js  BY <1>2, <1>3
<1>6. Steady(sampled, touched, last)  BY <1>3, <1>4, <1>5 DEF Steady, js
<1>7. PICK p \in Shuffles : Chunked(sampled, Padded(p), last)
  BY <1>4, <1>5, <1>6 DEF EpochInv, OfOneShuffle
<1>8. /\ p \in [1..TrainSize -> TrainIds]
      /\ \A x \in TrainIds : \E k \in 1..TrainSize : p[k] = x
  BY ReplayAssumption DEF ReplayAssumption
<1>9. ASSUME NEW j \in js, NEW k \in 1..M
      PROVE  /\ (j - start) * M + k \in 1..EpochLength
             /\ sampled[j][1].ids[k] = Padded(p)[(j - start) * M + k]
  <2>1. sampled[j][1].ids = Chunk(Padded(p), j)  BY <1>3, <1>4, <1>5, <1>7 DEF Chunked
  <2>2. j \in Nat /\ EpochStart(j) = start /\ k \in 1..MinibatchSize  BY <1>4 DEF M
  <2> QED  BY <2>1, <2>2, ChunkHolds DEF M
<1>10. ASSUME NEW x \in 1..EpochLength
       PROVE  Padded(p)[x] \in TrainIds /\ (x <= TrainSize => Padded(p)[x] = p[x])
  <2>1. Padded(p)[x] = IF x <= TrainSize THEN p[x]
                       ELSE p[TrainSize - ((x - TrainSize - 1) % TrainSize)]
    BY DEF Padded
  <2>2. CASE x <= TrainSize
    BY <2>1, <2>2, <1>1, <1>8
  <2>3. CASE ~(x <= TrainSize)
    <3>1. x - TrainSize - 1 \in Nat  BY <2>3, <1>1
    <3>2. (x - TrainSize - 1) % TrainSize \in 0..(TrainSize - 1)  BY <3>1, <1>1, Division
    <3>3. TrainSize - ((x - TrainSize - 1) % TrainSize) \in 1..TrainSize  BY <3>2, <1>1
    <3> QED  BY <2>1, <2>3, <3>3, <1>8
  <2> QED  BY <2>2, <2>3
<1>11. ASSUME NEW j \in js PROVE Shown(j) \subseteq TrainIds
  <2>1. ASSUME NEW k \in 1..MinibatchSize PROVE sampled[j][1].ids[k] \in TrainIds
    BY <1>9, <1>10 DEF M
  <2> QED  BY <2>1 DEF Shown
<1>12. ASSUME NEW x \in TrainIds PROVE \E j \in js : x \in Shown(j)
  <2>1. PICK k \in 1..TrainSize : p[k] = x  BY <1>8
  <2> DEFINE q == (k - 1) \div M
             r == (k - 1) % M
  <2>2. q \in Nat /\ r \in 0..(M - 1) /\ k - 1 = q * M + r
    <3>1. k - 1 \in Nat  BY <1>1
    <3> QED  BY <3>1, <1>1, Division
  <2> HIDE DEF q, r
  <2>3. q < PerEpoch
    <3>1. q * M \in Int /\ q * M < PerEpoch * M  BY <2>2, <1>1
    <3> QED  BY <3>1, <2>2, <1>1, TimesReflects
  <2>4. start + q \in js /\ r + 1 \in 1..M /\ (start + q) - start = q
    BY <2>2, <2>3, <1>1, <1>2, <1>3 DEF last
  <2>5. q * M + (r + 1) = k /\ k \in 1..EpochLength /\ k <= TrainSize
    BY <2>2, <1>1
  <2>6. sampled[start + q][1].ids[r + 1] = Padded(p)[((start + q) - start) * M + (r + 1)]
    BY <2>4, <1>9
  <2>7. sampled[start + q][1].ids[r + 1] = x
    BY <2>1, <2>4, <2>5, <2>6, <1>10
  <2>8. x \in Shown(start + q)  BY <2>4, <2>7 DEF Shown, M
  <2> QED  BY <2>4, <2>8
<1> QED  BY <1>11, <1>12 DEF js

(***************************************************************************)
(* Whatever faults and skipped iterations there were, the iterations of a   *)
(* whole epoch have shown every training example, and no other              *)
(* (batch_sampler.py, next_minibatch_ids and _update_shuffled; engine.py).  *)
(***************************************************************************)
THEOREM EpochsShowEverything == Spec => []EpochCovers
<1>1. SampleInv /\ IInv /\ [Next]_vars => SampleInv'
  BY StepCases, SampleKeeps, SaveKeeps, OthersKeep
<1>2. EpochInv /\ SampleInv /\ IInv /\ [Next]_vars => EpochInv'
  BY StepCases, SampleKeepsEpochs, SaveKeepsEpochs, OthersKeepEpochs
<1> QED  BY <1>1, <1>2, InitSampleInv, InitEpochInv, EpochInvCovers, IInvHolds, PTL DEF Spec

(***************************************************************************)
(* The counters agree with the journal.                                     *)
(***************************************************************************)
CostInv ==
    /\ uncounted \in Nat
    /\ journaled /\ at \notin {"down", "storeBatch", "storeSingle"} =>
          cost = Cardinality(Stored) + uncounted
    /\ at = "storeSingle" =>
          /\ cost = Cardinality(Stored) + 1 + uncounted
          /\ \E e : pending = {e}
    /\ at = "storeBatch" =>
          /\ IsFiniteSet(pending) /\ cost \in Nat /\ batch.answers \in Nat
          /\ cost + batch.answers = Cardinality(Stored) + Cardinality(pending) + uncounted

LEMMA StoredIsFinite == IsFiniteSet(Stored) /\ Cardinality(Stored) \in Nat
  <1>1. Iterations = 0..(MaxIterations - 1) /\ Ordinals = 0..(N - 1)
        /\ MaxIterations - 1 \in Int /\ N - 1 \in Int
    BY ReplayAssumption DEF Iterations, Ordinals
  <1>2. IsFiniteSet(Iterations) /\ IsFiniteSet(Ordinals)  BY <1>1, FS_Interval
  <1>3. IsFiniteSet(Slots)  BY <1>2, FS_Product DEF Slots
  <1>4. Stored \subseteq Slots  BY DEF Stored
  <1> QED  BY <1>3, <1>4, FS_Subset, FS_CardinalityType

\* One store adds one slot.
LEMMA RecordAddsOne ==
    ASSUME IInv, NEW e, Record(e), Slot(e.ordinal) \in Slots, journal[Slot(e.ordinal)] = Nothing
    PROVE  Cardinality(Stored') = Cardinality(Stored) + 1
  <1> DEFINE s == Slot(e.ordinal)
  <1>1. journal' = [journal EXCEPT ![s] = [request |-> e.request, text |-> e.text]]
    BY DEF Record
  <1>2. journal'[s] # Nothing  BY <1>1, EntryIsSomething DEF IInv, Tables
  <1>3. \A x \in Slots : x # s => journal'[x] = journal[x]  BY <1>1 DEF IInv, Tables
  <1>4. s \in Slots /\ s \notin Stored  BY DEF Stored
  <1> HIDE DEF s
  <1>5. Stored' = Stored \union {s}  BY <1>2, <1>3, <1>4 DEF Stored
  <1> QED  BY <1>4, <1>5, StoredIsFinite, FS_AddElement

LEMMA InitCostInv == Init => CostInv
  <1> SUFFICES ASSUME Init PROVE CostInv
    OBVIOUS
  <1> QED  BY DEF Init, CostInv

\* Steps that neither buy, count nor store.
Unpaid ==
    /\ at \notin {"down", "storeBatch", "storeSingle"}
    /\ at' \notin {"down", "storeBatch", "storeSingle"}
    /\ UNCHANGED <<cost, uncounted, journal, journaled>>

LEMMA UncountedSteps ==
    ASSUME Begin \/ Finish \/ MergeFindsNothing \/ MergeIsJudged \/ Sample \/ NothingProposed
           \/ Judge \/ RefuseBatch \/ ReplayBatch \/ RefuseCall \/ ReplayCall \/ CallFails
           \/ \E phase \in Phases : ReplayStage(phase) \/ RefuseStage(phase) \/ RunStage(phase)
                                       \/ RecordStage(phase)
    PROVE  Unpaid
  <1> USE DEF Unpaid, durable, spending, EndIteration, Refuse, ResolveBatch, Answered, Single
  <1>1. CASE Begin \/ Finish \/ MergeFindsNothing \/ MergeIsJudged
    BY <1>1 DEF Begin, Finish, MergeFindsNothing, MergeIsJudged
  <1>2. CASE Sample
    BY <1>2 DEF Sample
  <1>3. CASE NothingProposed \/ Judge \/ CallFails
    BY <1>3 DEF NothingProposed, Judge, CallFails, Abort
  <1>4. CASE RefuseBatch \/ RefuseCall \/ ReplayBatch \/ ReplayCall
    BY <1>4 DEF RefuseBatch, RefuseCall, ReplayBatch, ReplayCall
  <1>5. ASSUME NEW phase \in Phases,
               ReplayStage(phase) \/ RefuseStage(phase) \/ RunStage(phase) \/ RecordStage(phase)
        PROVE  Unpaid
    BY <1>5 DEF ReplayStage, RefuseStage, RunStage, RecordStage, Phases
  <1> QED  BY <1>1, <1>2, <1>3, <1>4, <1>5

LEMMA StoresCost ==
    ASSUME CostInv, TurnInv, IInv, StoreOfBatch \/ StoreOfCall PROVE CostInv'
  <1>1. CASE StoreOfCall
    <2>1. PICK e \in pending : Record(e) /\ Answered(e.text)  BY <1>1 DEF StoreOfCall
    <2>2. /\ e.ordinal \in Ordinals /\ journal[Slot(e.ordinal)] = Nothing /\ i \in Iterations
      BY <1>1 DEF StoreOfCall, TurnInv, Worded, IInv, Free, Placed
    <2>3. Cardinality(Stored') = Cardinality(Stored) + 1
      BY <2>1, <2>2, RecordAddsOne DEF Slot, Slots
    <2>4. at' \in {"single", "children"} /\ UNCHANGED <<cost, uncounted>> /\ at = "storeSingle"
      BY <1>1, <2>1 DEF StoreOfCall, Answered
    <2> QED  BY <2>3, <2>4, StoredIsFinite DEF CostInv
  <1>2. CASE StoreOfBatch
    <2>1. PICK e \in pending : Record(e) /\ pending' = pending \ {e}
      BY <1>2 DEF StoreOfBatch
    <2>2. /\ at = "storeBatch" /\ at' = "storeBatch" /\ UNCHANGED <<cost, uncounted, batch>>
      BY <1>2 DEF StoreOfBatch
    <2>3. /\ e.ordinal \in Ordinals /\ journal[Slot(e.ordinal)] = Nothing /\ i \in Iterations
      BY <2>2 DEF TurnInv, Worded, IInv, Free, Placed
    <2>4. Cardinality(Stored') = Cardinality(Stored) + 1
      BY <2>1, <2>3, RecordAddsOne DEF Slot, Slots
    <2>5. IsFiniteSet(pending') /\ Cardinality(pending') = Cardinality(pending) - 1
      BY <2>1, <2>2, FS_RemoveElement DEF CostInv
    <2>6. Cardinality(pending) \in Nat  BY <2>2, FS_CardinalityType DEF CostInv
    <2> QED  BY <2>2, <2>4, <2>5, <2>6, StoredIsFinite DEF CostInv
  <1> QED  BY <1>1, <1>2

LEMMA CallBatchCost ==
    ASSUME CostInv, TurnInv, IInv, CallBatch PROVE CostInv'
  <1>1. UNCHANGED <<journaled, uncounted, journal>> /\ at = "reflect"
    BY DEF CallBatch, durable, EndIteration, ResolveBatch
  <1>2. Stored' = Stored  BY <1>1 DEF Stored
  <1>3. CASE ~journaled
    <2>1. at' \in {"children", "single", "top"}
      BY <1>3 DEF CallBatch, ResolveBatch, EndIteration
    <2> QED  BY <1>1, <1>3, <2>1 DEF CostInv
  <1>4. CASE journaled /\ at' # "storeBatch"
    <2>1. at' = "single" /\ cost' = cost
      BY <1>4 DEF CallBatch, ResolveBatch, EndIteration
    <2> QED  BY <1>1, <1>2, <1>4, <2>1 DEF CostInv
  <1>5. CASE journaled /\ at' = "storeBatch"
    <2>1. PICK answers :
             /\ pending' = {[ordinal |-> cursor + k - 1, request |-> Request(k),
                             text |-> Fresh(cursor + k - 1)] : k \in Said(answers, "text")}
             /\ batch' = [answers |-> Cardinality(Said(answers, "text")),
                          error |-> WorstError(answers)]
             /\ cost' = cost
      BY <1>5, BatchBought
    <2> DEFINE given == Said(answers, "text")
               entry(k) == [ordinal |-> cursor + k - 1, request |-> Request(k),
                            text |-> Fresh(cursor + k - 1)]
               f == [k \in given |-> entry(k)]
    <2>2. cursor = 0 /\ Jobs \in Nat  BY <1>1, BatchIsInRange
    <2>3. given \subseteq 1..Jobs  BY DEF Said, Missing
    <2>4. IsFiniteSet(given)
      <3>1. IsFiniteSet(1..Jobs)  BY <2>2, FS_Interval
      <3> HIDE DEF given
      <3> QED  BY <2>3, <3>1, FS_Subset
    <2>5. \A k, m \in given : entry(k) = entry(m) => k = m
      <3> TAKE k, m \in given
      <3>1. entry(k) = entry(m) => entry(k).ordinal = entry(m).ordinal  OBVIOUS
      <3>2. entry(k).ordinal = k - 1 /\ entry(m).ordinal = m - 1  BY <2>2, <2>3
      <3> QED  BY <2>3, <3>1, <3>2
    <2>6. pending' = {entry(k) : k \in given}  BY <2>1
    <2> HIDE DEF entry, given
    <2>7. f \in Bijection(given, pending')
      BY <2>5, <2>6 DEF Bijection, Injection, Surjection, IsInjective
    <2>8. IsFiniteSet(pending') /\ Cardinality(pending') = Cardinality(given)
      BY <2>4, <2>7, FS_Bijection DEF ExistsBijection
    <2>9. cost = Cardinality(Stored) + uncounted  BY <1>1, <1>5 DEF CostInv
    <2>10. batch'.answers = Cardinality(given) /\ Cardinality(given) \in Nat
      BY <2>1, <2>4, FS_CardinalityType DEF given
    <2> QED  BY <1>1, <1>2, <1>5, <2>1, <2>8, <2>9, <2>10, StoredIsFinite DEF CostInv
  <1> QED  BY <1>3, <1>4, <1>5

LEMMA CountsCost ==
    ASSUME CostInv, TurnInv, IInv, FinishBatch \/ CallGivesText \/ CallGivesNone PROVE CostInv'
  <1>1. UNCHANGED <<journaled, journal>>
    BY DEF FinishBatch, CallGivesText, CallGivesNone, durable
  <1>2. Stored' = Stored  BY <1>1 DEF Stored
  <1>3. CASE FinishBatch
    <2>1. /\ at = "storeBatch" /\ pending = {} /\ cost' = cost + batch.answers
          /\ at' \in {"children", "single", "top"} /\ uncounted' = uncounted
      BY <1>3 DEF FinishBatch, Charge, ResolveBatch, EndIteration
    <2>2. Cardinality(pending) = 0  BY <2>1, FS_EmptySet
    <2> QED  BY <1>1, <1>2, <2>1, <2>2, StoredIsFinite DEF CostInv
  <1>4. CASE CallGivesText
    <2>1. /\ at \in {"single", "reflect"} /\ cost' = cost + 1 /\ uncounted' = uncounted
          /\ IF journaled THEN at' = "storeSingle" /\ \E e : pending' = {e}
             ELSE at' \in {"single", "children"}
      BY <1>4 DEF CallGivesText, Single, ThroughJournal, Answered
    <2> QED  BY <1>1, <1>2, <2>1, StoredIsFinite DEF CostInv
  <1>5. CASE CallGivesNone
    <2>1. /\ at \in {"single", "reflect"} /\ cost' = cost + 1 /\ uncounted' = uncounted + 1
          /\ at' \in {"single", "children"}
      BY <1>5 DEF CallGivesNone, Single, Answered
    <2> QED  BY <1>1, <1>2, <2>1, StoredIsFinite DEF CostInv
  <1> QED  BY <1>3, <1>4, <1>5

(***************************************************************************)
(* Outside of a store, the cost of a journaled language model is that of    *)
(* what its journal holds and of this process's answers without content     *)
(* (lm.py, response_journal.py usage_totals).                               *)
(***************************************************************************)
THEOREM CountersAgree == Spec => []CostAgrees
  <1>1. CostInv /\ TurnInv /\ IInv /\ [Next]_vars => CostInv'
    <2> SUFFICES ASSUME CostInv, TurnInv, IInv, [Next]_vars PROVE CostInv'
      OBVIOUS
    <2>1. CASE Unpaid
      <3>1. Stored' = Stored  BY <2>1 DEF Unpaid, Stored
      <3> QED  BY <2>1, <3>1 DEF Unpaid, CostInv
    <2>2. CASE UNCHANGED vars
      BY <2>2 DEF vars, process, durable, history, CostInv, Stored
    <2>3. CASE Start
      <3>1. at' = "top" /\ uncounted' = 0 /\ cost' = Cardinality(Stored) /\ Stored' = Stored
        BY <2>3 DEF Start, Load, durable, Stored
      <3> QED  BY <3>1, StoredIsFinite DEF CostInv
    <2>4. CASE Die
      BY <2>4 DEF Die, CostInv
    <2>5. CASE StoreOfBatch \/ StoreOfCall
      BY <2>5, StoresCost
    <2>6. CASE CallBatch
      BY <2>6, CallBatchCost
    <2>7. CASE FinishBatch \/ CallGivesText \/ CallGivesNone
      BY <2>7, CountsCost
    <2> QED  BY <2>1, <2>2, <2>3, <2>4, <2>5, <2>6, <2>7, UncountedSteps DEF Next, Step
  <1>2. CostInv => CostAgrees  BY DEF CostInv, CostAgrees
  <1> QED  BY <1>1, <1>2, InitCostInv, InitTurnInv, StepTurns, IInvHolds, PTL DEF Spec

(***************************************************************************)
(* A resume is refused for two reasons only.  Of an iteration that no merge *)
(* attempt and no answer without content disturbed, everything recorded is  *)
(* a function of what it sampled and of the parents' recorded result: the   *)
(* slot of ordinal k - 1 answers the request of task k, and the children's  *)
(* items are those answers.                                                 *)
(***************************************************************************)
Undisturbed(j) == j \notin touched \union skewed

HasResult(j) == evals[<<j, "parents">>] # Nothing
Result(j) == evals[<<j, "parents">>].result
Size(j) == Len(Result(j).jobs)
Asked(j, k) == [task |-> sampled[j][Result(j).jobs[k]], feedback |-> Result(j).run]
Offered(j) ==
    [k \in {m \in 1..Size(j) : journal[<<j, m - 1>>].text # NoText} |->
        <<Asked(j, k), journal[<<j, k - 1>>].text>>]

ParentsAgree ==
    \A j \in Iterations : Undisturbed(j) /\ HasResult(j) =>
        sampled[j] # <<>> /\ evals[<<j, "parents">>].items = sampled[j]

SlotsAgree ==
    \A j \in Iterations, ordinal \in Ordinals :
        journaled /\ Undisturbed(j) /\ journal[<<j, ordinal>>] # Nothing =>
            /\ HasResult(j) /\ ordinal + 1 \in 1..Size(j)
            /\ journal[<<j, ordinal>>].request = Asked(j, ordinal + 1)

ChildrenAgree ==
    \A j \in Iterations :
        journaled /\ Undisturbed(j) /\ evals[<<j, "children">>] # Nothing =>
            /\ HasResult(j) /\ Size(j) \in 0..N
            /\ \A k \in 1..Size(j) : journal[<<j, k - 1>>] # Nothing
            /\ evals[<<j, "children">>].items = Offered(j)

RecordsAgree == ParentsAgree /\ SlotsAgree /\ ChildrenAgree

\* The iteration under way.
TasksAgree ==
    /\ at \in {"parents", "recordParents"} \union Reflecting =>
          tasks = sampled[i] /\ sampled[i] # <<>>
    /\ at \in Reflecting => HasResult(i) /\ feedback = Result(i)

CursorAgrees ==
    journaled /\ at \in Reflecting =>
        /\ at = "storeBatch" =>
              \A e \in pending : e.ordinal + 1 \in 1..Jobs /\ e.request = Request(e.ordinal + 1)
        /\ Undisturbed(i) =>
              /\ at \in Calling => cursor = Len(texts)
              /\ \A k \in 1..Len(texts) :
                    journal[Slot(k - 1)] # Nothing /\ texts[k] = journal[Slot(k - 1)].text

RefusalsAgree == at = "refused" /\ journaled => ~Undisturbed(i)

AgreeInv == RecordsAgree /\ TasksAgree /\ CursorAgrees /\ RefusalsAgree

LEMMA InitAgreeInv == Init => AgreeInv
  <1> SUFFICES ASSUME Init PROVE AgreeInv
    OBVIOUS
  <1>1. \A j \in Iterations : ~HasResult(j) /\ evals[<<j, "children">>] = Nothing
    BY DEF Init, HasResult, Stages, Phases
  <1>2. \A j \in Iterations, ordinal \in Ordinals : journal[<<j, ordinal>>] = Nothing
    BY DEF Init, Slots
  <1>3. RecordsAgree  BY <1>1, <1>2 DEF RecordsAgree, ParentsAgree, SlotsAgree, ChildrenAgree
  <1>4. TasksAgree /\ CursorAgrees /\ RefusalsAgree
    BY DEF Init, TasksAgree, CursorAgrees, RefusalsAgree, Reflecting
  <1> QED  BY <1>3, <1>4 DEF AgreeInv

\* The records agree as long as nothing is recorded or sampled.
LEMMA RecordsStay ==
    ASSUME RecordsAgree, UNCHANGED <<journaled, journal, evals, sampled>>,
           touched \subseteq touched', skewed \subseteq skewed'
    PROVE  RecordsAgree'
  <1>1. \A j : Undisturbed(j)' => Undisturbed(j)  BY DEF Undisturbed
  <1>2. \A j : HasResult(j)' = HasResult(j) /\ Result(j)' = Result(j)
    BY DEF HasResult, Result
  <1>3. \A j : Size(j)' = Size(j) /\ \A k : Asked(j, k)' = Asked(j, k)
    BY <1>2 DEF Size, Asked
  <1>4. \A j : Offered(j)' = Offered(j)  BY <1>3 DEF Offered
  <1>5. ParentsAgree'  BY <1>1, <1>2 DEF RecordsAgree, ParentsAgree
  <1>6. SlotsAgree'  BY <1>1, <1>2, <1>3 DEF RecordsAgree, SlotsAgree
  <1>7. ChildrenAgree'  BY <1>1, <1>2, <1>3, <1>4 DEF RecordsAgree, ChildrenAgree
  <1> QED  BY <1>5, <1>6, <1>7 DEF RecordsAgree

\* The request of a task is the one that the records determine.
LEMMA RequestsAsked ==
    ASSUME TasksAgree, at \in Reflecting
    PROVE  HasResult(i) /\ Jobs = Size(i) /\ \A k : Request(k) = Asked(i, k)
  BY DEF TasksAgree, Jobs, Size, Request, Asked

\* Steps that leave the iteration or have not sampled yet.
LEMMA LeavingAgrees ==
    ASSUME AgreeInv, at' \in {"down", "top", "done", "merge", "sample"},
           UNCHANGED <<journaled, journal, evals, sampled>>,
           touched \subseteq touched', skewed \subseteq skewed'
    PROVE  AgreeInv'
  <1>1. RecordsAgree'  BY RecordsStay DEF AgreeInv
  <1>2. TasksAgree' /\ CursorAgrees' /\ RefusalsAgree'
    BY DEF TasksAgree, CursorAgrees, RefusalsAgree, Reflecting
  <1> QED  BY <1>1, <1>2 DEF AgreeInv

LEMMA LeavingSteps ==
    ASSUME AgreeInv,
           Start \/ Die \/ Begin \/ Finish \/ MergeFindsNothing \/ MergeIsJudged
           \/ NothingProposed \/ Judge \/ CallFails
    PROVE  AgreeInv'
  <1>1. /\ at' \in {"down", "top", "done", "merge", "sample"}
        /\ UNCHANGED <<journaled, journal, evals, sampled>>
        /\ touched \subseteq touched' /\ skewed \subseteq skewed'
    <2> USE DEF durable, history, EndIteration
    <2>1. CASE Start \/ Die
      BY <2>1 DEF Start, Load, Die
    <2>2. CASE Begin \/ Finish
      BY <2>2 DEF Begin, Finish
    <2>3. CASE MergeFindsNothing \/ MergeIsJudged
      BY <2>3 DEF MergeFindsNothing, MergeIsJudged
    <2>4. CASE NothingProposed \/ Judge \/ CallFails
      BY <2>4 DEF NothingProposed, Judge, CallFails, Abort
    <2> QED  BY <2>1, <2>2, <2>3, <2>4
  <1> QED  BY <1>1, LeavingAgrees

LEMMA SampleAgrees ==
    ASSUME AgreeInv, SampleInv, IInv, Sample PROVE AgreeInv'
  <1>1. i \in Iterations /\ at' = "parents"  BY SampleDraws
  <1>2. UNCHANGED <<i, journaled, journal, evals, touched, skewed>>
        /\ sampled' = [sampled EXCEPT ![i] = tasks']
    BY DEF Sample, durable
  <1>3. tasks' = sampled'[i]
    BY <1>1, <1>2 DEF SampleInv, SampledAgain
  <1>4. tasks' # <<>>
    <2>1. DOMAIN tasks' = 1..N  BY DEF Sample
    <2>2. 1 \in 1..N  BY ReplayAssumption
    <2>3. 1 \notin DOMAIN <<>>  OBVIOUS
    <2>4. 1 \in DOMAIN tasks'  BY <2>1, <2>2
    <2> QED  BY <2>3, <2>4
  <1>5. \A j \in Iterations : Undisturbed(j) /\ HasResult(j) => sampled'[j] = sampled[j]
    BY SampleKeeps DEF AgreeInv, RecordsAgree, ParentsAgree, Undisturbed
  <1>6. \A j : (Undisturbed(j)' <=> Undisturbed(j)) /\ HasResult(j)' = HasResult(j) /\ Result(j)' = Result(j)
    BY <1>2 DEF Undisturbed, HasResult, Result
  <1>7. \A j \in Iterations : Undisturbed(j) /\ HasResult(j) =>
            Size(j)' = Size(j) /\ \A k : Asked(j, k)' = Asked(j, k)
    BY <1>5, <1>6 DEF Size, Asked
  <1>8. \A j \in Iterations : Undisturbed(j) /\ HasResult(j) => Offered(j)' = Offered(j)
    BY <1>2, <1>7 DEF Offered
  <1>9. ParentsAgree'  BY <1>2, <1>5, <1>6 DEF AgreeInv, RecordsAgree, ParentsAgree
  <1>10. SlotsAgree'  BY <1>2, <1>6, <1>7 DEF AgreeInv, RecordsAgree, SlotsAgree
  <1>11. ChildrenAgree'  BY <1>2, <1>6, <1>7, <1>8 DEF AgreeInv, RecordsAgree, ChildrenAgree
  <1>12. TasksAgree' /\ CursorAgrees' /\ RefusalsAgree'
    BY <1>1, <1>2, <1>3, <1>4 DEF TasksAgree, CursorAgrees, RefusalsAgree, Reflecting
  <1> QED  BY <1>9, <1>10, <1>11, <1>12 DEF AgreeInv, RecordsAgree

\* What the children's evaluation is given is what the records say.
LEMMA ItemsOffered ==
    ASSUME AgreeInv, TurnInv, IInv, journaled, Undisturbed(i), at \in Late
    PROVE  /\ Items("children") = Offered(i) /\ HasResult(i) /\ Size(i) \in 0..N
           /\ \A k \in 1..Size(i) : journal[<<i, k - 1>>] # Nothing
  <1>1. at \in Reflecting  BY DEF Late, Reflecting
  <1>2. HasResult(i) /\ Jobs = Size(i) /\ \A k : Request(k) = Asked(i, k)
    BY <1>1, RequestsAsked DEF AgreeInv
  <1>3. Len(texts) = Jobs /\ texts \in Seq(Nat)  BY DEF TurnInv, Turned
  <1>4. Jobs \in 0..N  BY <1>1 DEF IInv, Placed, Counted, Jobs
  <1>5. \A k \in 1..Jobs : journal[<<i, k - 1>>] # Nothing /\ texts[k] = journal[<<i, k - 1>>].text
    BY <1>1, <1>3 DEF AgreeInv, CursorAgrees, Slot
  <1>6. {m \in 1..Len(texts) : texts[m] # NoText}
           = {m \in 1..Size(i) : journal[<<i, m - 1>>].text # NoText}
    BY <1>2, <1>3, <1>5
  <1> DEFINE D == {m \in 1..Size(i) : journal[<<i, m - 1>>].text # NoText}
  <1>7. \A k \in D : <<Request(k), texts[k]>> = <<Asked(i, k), journal[<<i, k - 1>>].text>>
    BY <1>2, <1>5
  <1>8. Items("children") = [k \in D |-> <<Request(k), texts[k]>>]  BY <1>6 DEF Items
  <1>9. Offered(i) = [k \in D |-> <<Asked(i, k), journal[<<i, k - 1>>].text>>]  BY DEF Offered
  <1> HIDE DEF D
  <1>10. Items("children") = Offered(i)  BY <1>7, <1>8, <1>9
  <1> QED  BY <1>2, <1>4, <1>5, <1>10

LEMMA RefusalAgrees ==
    ASSUME AgreeInv, TurnInv, IInv,
           RefuseBatch \/ RefuseCall \/ \E phase \in Phases : RefuseStage(phase)
    PROVE  AgreeInv'
  <1>1. Refuse  BY DEF RefuseBatch, RefuseCall, RefuseStage
  <1>2. /\ at' = "refused"
        /\ UNCHANGED <<i, journaled, journal, evals, sampled, touched, skewed>>
    BY <1>1 DEF Refuse, durable
  <1>3. ASSUME journaled, Undisturbed(i) PROVE FALSE
    <2>1. CASE RefuseBatch
      <3>1. at = "reflect"  BY <2>1 DEF RefuseBatch
      <3>2. /\ i \in Iterations
            /\ \A k \in 1..Jobs : cursor + k - 1 = k - 1 /\ k - 1 \in Ordinals
        BY <3>1, BatchIsInRange
      <3>3. PICK k \in 1..Jobs : Mismatch(cursor + k - 1, k)
        BY <2>1 DEF RefuseBatch, BatchMismatch
      <3>4. journal[<<i, k - 1>>] # Nothing /\ journal[<<i, k - 1>>].request # Request(k)
        BY <1>3, <3>2, <3>3 DEF Mismatch, Recorded, Slot
      <3>5. journal[<<i, k - 1>>].request = Asked(i, (k - 1) + 1)
        BY <1>3, <3>2, <3>4 DEF AgreeInv, RecordsAgree, SlotsAgree
      <3>6. Request(k) = Asked(i, k)
        BY <3>1, RequestsAsked DEF AgreeInv, Reflecting
      <3>7. (k - 1) + 1 = k  OBVIOUS
      <3> QED  BY <3>4, <3>5, <3>6, <3>7
    <2>2. CASE RefuseCall
      <3>1. /\ texts \in Seq(Nat) /\ cursor \in Ordinals /\ i \in Iterations /\ at \in Reflecting
        BY <2>2, TurnIsInRange DEF RefuseCall
      <3>2. cursor = Len(texts)
        BY <2>2, <1>3, <3>1 DEF RefuseCall, Single, Calling, AgreeInv, CursorAgrees, TurnInv,
                                Turned, Early
      <3>3. journal[<<i, cursor>>] # Nothing /\ journal[<<i, cursor>>].request # Request(Turn)
        BY <2>2, <1>3 DEF RefuseCall, Mismatch, Recorded, Slot
      <3>4. journal[<<i, cursor>>].request = Asked(i, cursor + 1)
        BY <1>3, <3>1, <3>3 DEF AgreeInv, RecordsAgree, SlotsAgree
      <3>5. Request(Turn) = Asked(i, Turn)  BY <3>1, RequestsAsked DEF AgreeInv
      <3> QED  BY <3>2, <3>3, <3>4, <3>5 DEF Turn
    <2>3. CASE RefuseStage("parents")
      <3>1. /\ at = "parents" /\ HasResult(i) /\ evals[<<i, "parents">>].items # tasks
        BY <2>3 DEF RefuseStage, Kept, Items, HasResult
      <3>2. i \in Iterations  BY <3>1 DEF IInv, Placed
      <3> QED  BY <1>3, <3>1, <3>2 DEF AgreeInv, RecordsAgree, ParentsAgree, TasksAgree
    <2>4. CASE RefuseStage("children")
      <3>1. /\ at = "children" /\ evals[<<i, "children">>] # Nothing
            /\ evals[<<i, "children">>].items # Items("children")
        BY <2>4 DEF RefuseStage, Kept
      <3>2. i \in Iterations  BY <3>1 DEF IInv, Placed
      <3>3. Items("children") = Offered(i)  BY <1>3, <3>1, ItemsOffered DEF Late
      <3> QED  BY <1>3, <3>1, <3>2, <3>3 DEF AgreeInv, RecordsAgree, ChildrenAgree
    <2> QED  BY <2>1, <2>2, <2>3, <2>4 DEF Phases
  <1>4. RefusalsAgree'  BY <1>2, <1>3 DEF RefusalsAgree, Undisturbed
  <1>5. RecordsAgree'  BY <1>2, RecordsStay DEF AgreeInv
  <1>6. TasksAgree' /\ CursorAgrees'  BY <1>2 DEF TasksAgree, CursorAgrees, Reflecting
  <1> QED  BY <1>4, <1>5, <1>6 DEF AgreeInv

\* The evaluations, but for what they record.
LEMMA QuietStagesAgree ==
    ASSUME AgreeInv, TurnInv, IInv, NEW phase \in Phases, ReplayStage(phase) \/ RunStage(phase)
    PROVE  AgreeInv'
  <1>1. UNCHANGED <<i, tasks, texts, cursor, journaled, journal, evals, sampled, touched, skewed>>
    BY DEF ReplayStage, RunStage, durable, reflection
  <1>2. RecordsAgree'  BY <1>1, RecordsStay DEF AgreeInv
  <1>3. \A j : HasResult(j)' = HasResult(j) /\ Result(j)' = Result(j)
    BY <1>1 DEF HasResult, Result
  <1>4. CASE phase = "parents"
    <2>1. texts = <<>> /\ at = "parents"
      BY <1>4 DEF TurnInv, Turned, Early, ReplayStage, RunStage
    <2>2. CASE ReplayStage(phase)
      <3>1. at' = "reflect" /\ HasResult(i) /\ feedback' = Result(i)
        BY <1>4, <2>2 DEF ReplayStage, Kept, HasResult, Result
      <3>2. TasksAgree'  BY <1>1, <1>3, <2>1, <3>1 DEF TasksAgree, AgreeInv
      <3>3. CursorAgrees' /\ RefusalsAgree'
        BY <1>1, <2>1, <3>1 DEF CursorAgrees, RefusalsAgree, Calling
      <3> QED  BY <1>2, <3>2, <3>3 DEF AgreeInv
    <2>3. CASE RunStage(phase)
      <3>1. at' = "recordParents"  BY <1>4, <2>3 DEF RunStage
      <3> QED  BY <1>1, <1>2, <2>1, <3>1
                DEF AgreeInv, TasksAgree, CursorAgrees, RefusalsAgree, Reflecting
    <2> QED  BY <2>2, <2>3
  <1>5. CASE phase = "children"
    <2>1. at \in Late /\ at' \in Late /\ feedback' = feedback
      BY <1>5 DEF ReplayStage, RunStage, Late
    <2>2. TasksAgree'
      BY <1>1, <1>3, <2>1 DEF TasksAgree, AgreeInv, Late, Reflecting
    <2>3. CursorAgrees' /\ RefusalsAgree'
      BY <1>1, <2>1 DEF AgreeInv, CursorAgrees, RefusalsAgree, Calling, Late, Reflecting, Slot, Undisturbed
    <2> QED  BY <1>2, <2>2, <2>3 DEF AgreeInv
  <1> QED  BY <1>4, <1>5 DEF Phases

LEMMA RecordParentsAgrees ==
    ASSUME AgreeInv, TurnInv, IInv, RecordStage("parents") PROVE AgreeInv'
  <1>1. /\ at = "recordParents" /\ at' = "reflect" /\ i \in Iterations
        /\ UNCHANGED <<i, tasks, texts, journaled, journal, sampled, touched, skewed>>
    BY DEF RecordStage, IInv, Placed
  <1>2. PICK result : /\ evals' = [evals EXCEPT ![<<i, "parents">>] =
                                     [items |-> tasks, result |-> result]]
                      /\ feedback' = result
    BY DEF RecordStage, Items
  <1>3. <<i, "parents">> \in Stages  BY <1>1 DEF Stages, Phases
  <1>4. evals'[<<i, "parents">>] = [items |-> tasks, result |-> result]
    BY <1>2, <1>3 DEF IInv, Tables
  <1>5. ~HasResult(i)  BY <1>1 DEF IInv, Free, Kept, HasResult
  <1>6. HasResult(i)' /\ feedback' = Result(i)'
    BY <1>1, <1>2, <1>4, EntryIsSomething DEF HasResult, Result
  <1>7. tasks = sampled[i] /\ sampled[i] # <<>> /\ texts = <<>>
    BY <1>1 DEF AgreeInv, TasksAgree, TurnInv, Turned, Early
  <1>8. \A j \in Iterations : j # i => evals'[<<j, "parents">>] = evals[<<j, "parents">>]
    BY <1>2, <1>3 DEF Stages, Phases
  <1>9. \A j \in Iterations : evals'[<<j, "children">>] = evals[<<j, "children">>]
    <2> TAKE j \in Iterations
    <2>1. <<j, "children">> \in Stages /\ <<j, "children">> # <<i, "parents">>
      BY DEF Stages, Phases
    <2> QED  BY <2>1, <1>2 DEF IInv, Tables
  <1>10. \A j : Undisturbed(j)' <=> Undisturbed(j)  BY <1>1 DEF Undisturbed
  <1>11. \A j \in Iterations : j # i => HasResult(j)' = HasResult(j) /\ Result(j)' = Result(j)
    BY <1>8 DEF HasResult, Result
  <1>12. \A j \in Iterations : j # i => Size(j)' = Size(j) /\ \A k : Asked(j, k)' = Asked(j, k)
    BY <1>1, <1>11 DEF Size, Asked
  <1>13. \A j \in Iterations : j # i => Offered(j)' = Offered(j)
    BY <1>1, <1>12 DEF Offered
  <1>14. ParentsAgree'
    BY <1>1, <1>4, <1>7, <1>8, <1>10, <1>11 DEF AgreeInv, RecordsAgree, ParentsAgree
  <1>15. SlotsAgree'
    BY <1>1, <1>5, <1>10, <1>11, <1>12 DEF AgreeInv, RecordsAgree, SlotsAgree
  <1>16. ChildrenAgree'
    BY <1>1, <1>5, <1>9, <1>10, <1>11, <1>12, <1>13 DEF AgreeInv, RecordsAgree, ChildrenAgree
  <1>17. TasksAgree'  BY <1>1, <1>6, <1>7 DEF TasksAgree
  <1>18. CursorAgrees' /\ RefusalsAgree'
    BY <1>1, <1>7 DEF CursorAgrees, RefusalsAgree, Calling
  <1> QED  BY <1>14, <1>15, <1>16, <1>17, <1>18 DEF AgreeInv, RecordsAgree

LEMMA RecordChildrenAgrees ==
    ASSUME AgreeInv, TurnInv, IInv, RecordStage("children") PROVE AgreeInv'
  <1>1. /\ at = "recordChildren" /\ at' = "judge" /\ i \in Iterations
        /\ UNCHANGED <<i, tasks, texts, feedback, cursor, journaled, journal, sampled, touched, skewed>>
    BY DEF RecordStage, IInv, Placed
  <1>2. PICK result : evals' = [evals EXCEPT ![<<i, "children">>] =
                                   [items |-> Items("children"), result |-> result]]
    BY DEF RecordStage
  <1>3. <<i, "children">> \in Stages  BY <1>1 DEF Stages, Phases
  <1>4. evals'[<<i, "children">>].items = Items("children")
    BY <1>2, <1>3 DEF IInv, Tables
  <1>5. \A j \in Iterations : evals'[<<j, "parents">>] = evals[<<j, "parents">>]
    <2> TAKE j \in Iterations
    <2>1. <<j, "parents">> \in Stages /\ <<j, "parents">> # <<i, "children">>
      BY DEF Stages, Phases
    <2> QED  BY <2>1, <1>2 DEF IInv, Tables
  <1>6. \A j \in Iterations : j # i => evals'[<<j, "children">>] = evals[<<j, "children">>]
    BY <1>2, <1>3 DEF Stages, Phases
  <1>7. \A j : Undisturbed(j)' <=> Undisturbed(j)  BY <1>1 DEF Undisturbed
  <1>8. \A j \in Iterations : HasResult(j)' = HasResult(j) /\ Result(j)' = Result(j)
    BY <1>5 DEF HasResult, Result
  <1>9. \A j \in Iterations : Size(j)' = Size(j) /\ \A k : Asked(j, k)' = Asked(j, k)
    BY <1>1, <1>8 DEF Size, Asked
  <1>10. \A j \in Iterations : Offered(j)' = Offered(j)
    BY <1>1, <1>9 DEF Offered
  <1>11. ParentsAgree'  BY <1>1, <1>5, <1>7, <1>8 DEF AgreeInv, RecordsAgree, ParentsAgree
  <1>12. SlotsAgree'  BY <1>1, <1>7, <1>8, <1>9 DEF AgreeInv, RecordsAgree, SlotsAgree
  <1>13. ASSUME journaled, Undisturbed(i)
         PROVE  /\ HasResult(i) /\ Size(i) \in 0..N
                /\ \A k \in 1..Size(i) : journal[<<i, k - 1>>] # Nothing
                /\ evals'[<<i, "children">>].items = Offered(i)
    BY <1>1, <1>4, <1>13, ItemsOffered DEF Late
  <1>14. ChildrenAgree'
    BY <1>1, <1>6, <1>7, <1>8, <1>9, <1>10, <1>13 DEF AgreeInv, RecordsAgree, ChildrenAgree
  <1>15. TasksAgree'
    BY <1>1, <1>8 DEF AgreeInv, TasksAgree, Reflecting
  <1>16. CursorAgrees' /\ RefusalsAgree'
    BY <1>1, <1>7 DEF AgreeInv, CursorAgrees, RefusalsAgree, Calling, Reflecting, Slot
  <1> QED  BY <1>11, <1>12, <1>14, <1>15, <1>16 DEF AgreeInv, RecordsAgree

\* Steps within the reflection that record nothing.
Reflects ==
    /\ at \in Reflecting /\ at' \in Reflecting
    /\ UNCHANGED <<i, tasks, feedback, journaled, journal, evals, sampled, touched>>
    /\ skewed \subseteq skewed'

LEMMA ReflectsAgrees ==
    ASSUME AgreeInv, Reflects, CursorAgrees' PROVE AgreeInv'
  <1>1. RecordsAgree'  BY RecordsStay DEF AgreeInv, Reflects
  <1>2. TasksAgree'  BY DEF AgreeInv, TasksAgree, Reflects, HasResult, Result
  <1>3. RefusalsAgree'  BY DEF RefusalsAgree, Reflects, Reflecting
  <1> QED  BY <1>1, <1>2, <1>3 DEF AgreeInv

\* In an undisturbed iteration the cursor counts the texts.
LEMMA CursorCounts ==
    ASSUME AgreeInv, TurnInv, IInv, Single \/ at = "storeSingle", journaled, Undisturbed(i)
    PROVE  cursor = Len(texts)
  <1>1. at \in Reflecting  BY TurnIsInRange
  <1>2. CASE at \in Calling  BY <1>1, <1>2 DEF AgreeInv, CursorAgrees
  <1>3. CASE at = "reflect"  BY <1>3 DEF TurnInv, Turned, Early
  <1> QED  BY <1>2, <1>3 DEF Single, Calling

LEMMA BatchAgrees ==
    ASSUME AgreeInv, TurnInv, IInv, ReplayBatch \/ CallBatch \/ FinishBatch PROVE AgreeInv'
  <1>1. /\ texts = <<>> /\ cursor = 0 /\ i \in Iterations /\ at \in Reflecting
        /\ \A k \in 1..Jobs : cursor + k - 1 = k - 1 /\ k - 1 \in Ordinals
        /\ Jobs \in Nat
    <2>1. at \in {"reflect", "storeBatch"}  BY DEF ReplayBatch, CallBatch, FinishBatch
    <2>2. at \in Reflecting  BY <2>1 DEF Reflecting
    <2> QED  BY <2>1, <2>2, BatchIsInRange
  <1>2. UNCHANGED <<i, journaled, journal, evals, sampled, touched, skewed>>
    BY DEF ReplayBatch, CallBatch, FinishBatch, durable
  <1>3. CASE at' = "top"
    BY <1>2, <1>3, LeavingAgrees
  <1>4. CASE at' = "single" /\ UNCHANGED <<tasks, feedback, cursor, texts>>
    <2>1. Reflects  BY <1>1, <1>2, <1>4 DEF Reflects, Reflecting
    <2>2. CursorAgrees'  BY <1>1, <1>4 DEF CursorAgrees
    <2> QED  BY <2>1, <2>2, ReflectsAgrees
  <1>5. CASE at' = "children" /\ UNCHANGED <<tasks, feedback>> /\ ~journaled
    <2>1. Reflects  BY <1>1, <1>2, <1>5 DEF Reflects, Reflecting
    <2>2. CursorAgrees'  BY <1>2, <1>5 DEF CursorAgrees
    <2> QED  BY <2>1, <2>2, ReflectsAgrees
  <1>6. ASSUME at' = "children", UNCHANGED <<tasks, feedback>>, journaled,
               texts' = [k \in 1..Jobs |-> Recorded(cursor + k - 1).text],
               \A k \in 1..Jobs : Recorded(cursor + k - 1) # Nothing
        PROVE  AgreeInv'
    <2>1. Reflects  BY <1>1, <1>2, <1>6 DEF Reflects, Reflecting
    <2>2. \A k \in 1..Jobs : texts'[k] = journal[Slot(k - 1)].text /\ journal[Slot(k - 1)] # Nothing
      BY <1>1, <1>6 DEF Recorded
    <2>3. Len(texts') = Jobs  BY <1>1, <1>6
    <2>4. CursorAgrees'  BY <1>2, <1>6, <2>2, <2>3 DEF CursorAgrees, Calling, Slot
    <2> QED  BY <2>1, <2>4, ReflectsAgrees
  <1>7. CASE ReplayBatch
    <2>1. \A k \in 1..Jobs : Recorded(cursor + k - 1) # Nothing
      BY <1>7 DEF ReplayBatch, Missing
    <2>2. journaled
      <3>1. 1 \in 1..Jobs  BY <1>1, <1>7 DEF ReplayBatch
      <3> QED  BY <2>1, <3>1 DEF Recorded
    <2> QED  BY <1>6, <1>7, <2>1, <2>2 DEF ReplayBatch, ResolveBatch
  <1>8. CASE FinishBatch
    <2>1. at = "storeBatch" /\ pending = {} /\ journaled
      BY <1>8 DEF FinishBatch, TurnInv, Worded
    <2>2. CASE batch.error = "none" /\ ResolveBatch(LAMBDA k : Recorded(cursor + k - 1).text)
               /\ UNCHANGED <<tasks, feedback>>
      <3>1. \A k \in 1..Jobs : Recorded(cursor + k - 1) # Nothing
        BY <1>1, <2>1, <2>2 DEF TurnInv, Ordered, Holds, Recorded
      <3> QED  BY <1>6, <2>1, <2>2, <3>1 DEF ResolveBatch
    <2> QED  BY <1>3, <1>4, <1>8, <2>2 DEF FinishBatch, EndIteration
  <1>9. CASE CallBatch
    <2>1. CASE at' = "storeBatch"
      <3>1. PICK answers :
               pending' = {[ordinal |-> cursor + k - 1, request |-> Request(k),
                            text |-> Fresh(cursor + k - 1)] : k \in Said(answers, "text")}
        BY <1>9, <2>1, BatchBought
      <3>2. UNCHANGED <<tasks, feedback, texts>>
        BY <1>9, <2>1, BatchBought
      <3>3. Said(answers, "text") \subseteq 1..Jobs  BY DEF Said, Missing
      <3>4. \A e \in pending' : e.ordinal + 1 \in 1..Jobs /\ e.request = Request(e.ordinal + 1)
        <4> TAKE e \in pending'
        <4>1. PICK k \in Said(answers, "text") : e.ordinal = cursor + k - 1 /\ e.request = Request(k)
          BY <3>1
        <4>2. e.ordinal + 1 = k  BY <1>1, <3>3, <4>1
        <4> QED  BY <3>3, <4>1, <4>2
      <3>5. Reflects  BY <1>1, <1>2, <2>1, <3>2 DEF Reflects, Reflecting
      <3>6. CursorAgrees'
        <4>1. \A k : Request(k)' = Request(k)  BY <3>2 DEF Request
        <4>2. Jobs' = Jobs  BY <3>2 DEF Jobs
        <4> QED  BY <1>1, <2>1, <3>2, <3>4, <4>1, <4>2 DEF CursorAgrees, Calling
      <3> QED  BY <3>5, <3>6, ReflectsAgrees
    <2> QED  BY <1>3, <1>4, <1>5, <1>9, <2>1 DEF CallBatch, ResolveBatch, EndIteration, reflection
  <1> QED  BY <1>7, <1>8, <1>9

LEMMA CallAgrees ==
    ASSUME AgreeInv, TurnInv, IInv, ReplayCall \/ CallGivesText \/ CallGivesNone PROVE AgreeInv'
  <1>1. /\ texts \in Seq(Nat) /\ Len(texts) < Jobs /\ Jobs \in 1..N
        /\ cursor \in Ordinals /\ i \in Iterations /\ at \in Reflecting /\ Single
    BY TurnIsInRange DEF ReplayCall, CallGivesText, CallGivesNone
  <1>2. /\ UNCHANGED <<i, tasks, feedback, journaled, journal, evals, sampled, touched>>
        /\ skewed \subseteq skewed'
    BY DEF ReplayCall, CallGivesText, CallGivesNone, durable
  <1>3. at' \in {"single", "storeSingle", "children"}
    BY DEF ReplayCall, CallGivesText, CallGivesNone, Answered
  <1>4. Reflects  BY <1>1, <1>2, <1>3 DEF Reflects, Reflecting
  <1>5. journaled /\ Undisturbed(i) => cursor = Len(texts)  BY <1>1, CursorCounts
  <1>6. journaled /\ Undisturbed(i) =>
            \A k \in 1..Len(texts) :
               journal[Slot(k - 1)] # Nothing /\ texts[k] = journal[Slot(k - 1)].text
    BY <1>1 DEF AgreeInv, CursorAgrees
  <1>7. \A ordinal : Slot(ordinal)' = Slot(ordinal)  BY <1>2 DEF Slot
  <1>8. Undisturbed(i)' => Undisturbed(i)  BY <1>2 DEF Undisturbed
  <1>9. CASE ReplayCall
    <2>1. /\ texts' = Append(texts, Recorded(cursor).text) /\ cursor' = cursor + 1
          /\ Recorded(cursor) # Nothing
      BY <1>9 DEF ReplayCall, Answered
    <2>2. Recorded(cursor) = journal[Slot(cursor)]  BY <2>1 DEF Recorded
    <2>3. Recorded(cursor).text \in Nat
      BY <1>1, <2>1, <2>2 DEF TurnInv, Worded, Slot, Slots
    <2>4. /\ Len(texts') = Len(texts) + 1 /\ texts'[Len(texts) + 1] = journal[Slot(cursor)].text
          /\ \A k \in 1..Len(texts) : texts'[k] = texts[k]
      BY <1>1, <2>1, <2>2, <2>3
    <2>5. ASSUME journaled, Undisturbed(i)
          PROVE  /\ cursor' = Len(texts')
                 /\ \A k \in 1..Len(texts') :
                       journal[Slot(k - 1)] # Nothing /\ texts'[k] = journal[Slot(k - 1)].text
      <3>1. cursor' = Len(texts')  BY <1>5, <2>1, <2>4, <2>5
      <3>2. ASSUME NEW k \in 1..Len(texts')
            PROVE  journal[Slot(k - 1)] # Nothing /\ texts'[k] = journal[Slot(k - 1)].text
        <4>1. CASE k \in 1..Len(texts)  BY <1>6, <2>4, <2>5, <4>1
        <4>2. CASE k = Len(texts) + 1
          <5>1. k - 1 = cursor  BY <1>1, <1>5, <2>5, <4>2
          <5> QED  BY <2>1, <2>2, <2>4, <4>2, <5>1
        <4> QED  BY <1>1, <2>4, <4>1, <4>2
      <3> QED  BY <3>1, <3>2
    <2>6. CursorAgrees'  BY <1>2, <1>3, <1>7, <1>8, <2>5 DEF CursorAgrees
    <2> QED  BY <1>4, <2>6, ReflectsAgrees
  <1>10. CASE CallGivesText
    <2>1. cursor' = cursor /\ (journaled => texts' = texts)
      BY <1>10 DEF CallGivesText, ThroughJournal
    <2>2. CursorAgrees'
      BY <1>2, <1>3, <1>5, <1>6, <1>7, <1>8, <2>1 DEF CursorAgrees
    <2> QED  BY <1>4, <2>2, ReflectsAgrees
  <1>11. CASE CallGivesNone
    <2>1. \/ Jobs = 1 /\ texts' = texts /\ cursor' = 0
          \/ i \in skewed'
      BY <1>11 DEF CallGivesNone
    <2>2. Jobs = 1 => Len(texts) = 0  BY <1>1
    <2>3. i \in skewed' => ~Undisturbed(i)'  BY <1>2 DEF Undisturbed
    <2>4. CursorAgrees'
      BY <1>2, <1>3, <1>6, <1>7, <1>8, <2>1, <2>2, <2>3 DEF CursorAgrees
    <2> QED  BY <1>4, <2>4, ReflectsAgrees
  <1> QED  BY <1>9, <1>10, <1>11

\* A store into a free slot keeps the records, if it answers the slot's task.
LEMMA StoredAgrees ==
    ASSUME AgreeInv, TurnInv, IInv, at \in Reflecting,
           NEW e, Record(e), e.ordinal \in Ordinals, journal[Slot(e.ordinal)] = Nothing,
           journaled /\ Undisturbed(i) =>
               e.ordinal + 1 \in 1..Jobs /\ e.request = Request(e.ordinal + 1),
           UNCHANGED <<i, journaled, evals, sampled, touched, skewed>>
    PROVE  /\ RecordsAgree'
           /\ journal'[Slot(e.ordinal)] = [request |-> e.request, text |-> e.text]
           /\ \A s \in Slots : s # Slot(e.ordinal) => journal'[s] = journal[s]
  <1> DEFINE slot == <<i, e.ordinal>>
  <1>1. slot \in Slots /\ slot = Slot(e.ordinal) /\ i \in Iterations
    BY DEF Slots, Slot, IInv, Placed, Reflecting
  <1>2. journal'[slot] = [request |-> e.request, text |-> e.text]
    BY <1>1 DEF Record, IInv, Tables
  <1>3. \A s \in Slots : s # slot => journal'[s] = journal[s]
    BY <1>1 DEF Record, IInv, Tables
  <1>4. \A j : (Undisturbed(j)' <=> Undisturbed(j)) /\ HasResult(j)' = HasResult(j) /\ Result(j)' = Result(j)
    BY DEF Undisturbed, HasResult, Result
  <1>5. \A j : Size(j)' = Size(j) /\ \A k : Asked(j, k)' = Asked(j, k)
    BY <1>4 DEF Size, Asked
  <1>6. ParentsAgree'  BY <1>4 DEF AgreeInv, RecordsAgree, ParentsAgree
  <1>7. HasResult(i) /\ Jobs = Size(i) /\ \A k : Request(k) = Asked(i, k)
    BY RequestsAsked DEF AgreeInv
  <1>8. SlotsAgree'
    <2> SUFFICES ASSUME NEW j \in Iterations, NEW ordinal \in Ordinals,
                        journaled, Undisturbed(j), journal'[<<j, ordinal>>] # Nothing
                 PROVE  /\ HasResult(j) /\ ordinal + 1 \in 1..Size(j)
                        /\ journal'[<<j, ordinal>>].request = Asked(j, ordinal + 1)
      BY <1>4, <1>5 DEF SlotsAgree
    <2>1. CASE <<j, ordinal>> = slot
      BY <2>1, <1>2, <1>7
    <2>2. CASE <<j, ordinal>> # slot
      <3>1. journal'[<<j, ordinal>>] = journal[<<j, ordinal>>]  BY <2>2, <1>3 DEF Slots
      <3> QED  BY <3>1 DEF AgreeInv, RecordsAgree, SlotsAgree
    <2> QED  BY <2>1, <2>2
  <1>9. ChildrenAgree'
    <2> SUFFICES ASSUME NEW j \in Iterations, journaled, Undisturbed(j),
                        evals[<<j, "children">>] # Nothing
                 PROVE  /\ HasResult(j) /\ Size(j) \in 0..N
                        /\ \A k \in 1..Size(j) : journal'[<<j, k - 1>>] # Nothing
                        /\ evals[<<j, "children">>].items = Offered(j)'
      BY <1>4, <1>5 DEF ChildrenAgree
    <2>1. /\ HasResult(j) /\ Size(j) \in 0..N
          /\ \A k \in 1..Size(j) : journal[<<j, k - 1>>] # Nothing
          /\ evals[<<j, "children">>].items = Offered(j)
      BY DEF AgreeInv, RecordsAgree, ChildrenAgree
    <2>2. ASSUME NEW k \in 1..Size(j) PROVE journal'[<<j, k - 1>>] = journal[<<j, k - 1>>]
      <3>1. <<j, k - 1>> \in Slots  BY <2>1, ReplayAssumption DEF Slots, Ordinals
      <3>2. <<j, k - 1>> # slot  BY <1>1, <2>1
      <3> QED  BY <3>1, <3>2, <1>3
    <2>3. Offered(j)' = Offered(j)
      <3>1. Offered(j)' = [k \in {m \in 1..Size(j) : journal'[<<j, m - 1>>].text # NoText} |->
                              <<Asked(j, k), journal'[<<j, k - 1>>].text>>]
        BY <1>5 DEF Offered
      <3> QED  BY <2>2, <3>1 DEF Offered
    <2> QED  BY <2>1, <2>2, <2>3
  <1> QED  BY <1>1, <1>2, <1>3, <1>6, <1>8, <1>9 DEF RecordsAgree

LEMMA StoreOfBatchAgrees ==
    ASSUME AgreeInv, TurnInv, IInv, StoreOfBatch PROVE AgreeInv'
  <1>1. PICK e \in pending : Record(e) /\ pending' = pending \ {e}
    BY DEF StoreOfBatch
  <1>2. /\ at = "storeBatch" /\ at' = "storeBatch" /\ at \in Reflecting
        /\ UNCHANGED <<i, tasks, feedback, texts, journaled, evals, sampled, touched, skewed>>
    BY DEF StoreOfBatch, Reflecting
  <1>3. journaled /\ e.ordinal \in Ordinals /\ journal[Slot(e.ordinal)] = Nothing
    BY <1>2 DEF TurnInv, Worded, IInv, Free
  <1>4. \A f \in pending : f.ordinal + 1 \in 1..Jobs /\ f.request = Request(f.ordinal + 1)
    BY <1>2, <1>3 DEF AgreeInv, CursorAgrees
  <1>5. RecordsAgree'  BY <1>1, <1>2, <1>3, <1>4, StoredAgrees
  <1>6. TasksAgree'  BY <1>2 DEF AgreeInv, TasksAgree, HasResult, Result
  <1>7. texts = <<>>  BY <1>2, BatchIsInRange
  <1>8. \A k : Request(k)' = Request(k)  BY <1>2 DEF Request
  <1>9. Jobs' = Jobs  BY <1>2 DEF Jobs
  <1>10. CursorAgrees'
    BY <1>1, <1>2, <1>4, <1>7, <1>8, <1>9 DEF CursorAgrees, Calling
  <1>11. RefusalsAgree'  BY <1>2 DEF RefusalsAgree
  <1> QED  BY <1>5, <1>6, <1>10, <1>11 DEF AgreeInv

LEMMA StoreOfCallAgrees ==
    ASSUME AgreeInv, TurnInv, IInv, StoreOfCall PROVE AgreeInv'
  <1>1. PICK e \in pending : Record(e) /\ Answered(e.text)
    BY DEF StoreOfCall
  <1>2. /\ texts \in Seq(Nat) /\ Len(texts) < Jobs /\ Jobs \in 1..N
        /\ cursor \in Ordinals /\ i \in Iterations /\ at \in Reflecting
    BY TurnIsInRange DEF StoreOfCall
  <1>3. /\ UNCHANGED <<i, tasks, feedback, journaled, evals, sampled, touched, skewed>>
        /\ cursor' = cursor + 1 /\ at' \in {"single", "children"}
    BY <1>1 DEF StoreOfCall, Answered
  <1>4. /\ journaled /\ e.ordinal = cursor /\ e.request = Request(Turn) /\ e.text \in Nat
        /\ journal[Slot(e.ordinal)] = Nothing
    BY DEF StoreOfCall, TurnInv, Worded, Ordered, IInv, Free
  <1>5. Undisturbed(i) => cursor = Len(texts)
    BY <1>4, CursorCounts DEF StoreOfCall
  <1>6. Undisturbed(i) => e.ordinal + 1 \in 1..Jobs /\ e.request = Request(e.ordinal + 1)
    BY <1>2, <1>4, <1>5 DEF Turn
  <1>7. /\ RecordsAgree'
        /\ journal'[Slot(cursor)] = [request |-> e.request, text |-> e.text]
        /\ \A s \in Slots : s # Slot(cursor) => journal'[s] = journal[s]
    BY <1>1, <1>2, <1>3, <1>4, <1>6, StoredAgrees
  <1>8. TasksAgree'
    BY <1>2, <1>3 DEF AgreeInv, TasksAgree, HasResult, Result, Reflecting
  <1>9. RefusalsAgree'  BY <1>3 DEF RefusalsAgree
  <1>10. /\ Len(texts') = Len(texts) + 1 /\ texts'[Len(texts) + 1] = e.text
         /\ \A k \in 1..Len(texts) : texts'[k] = texts[k]
    BY <1>1, <1>2, <1>4 DEF Answered
  <1>11. ASSUME Undisturbed(i)
         PROVE  /\ cursor' = Len(texts')
                /\ \A k \in 1..Len(texts') :
                      journal'[Slot(k - 1)] # Nothing /\ texts'[k] = journal'[Slot(k - 1)].text
    <2>1. cursor' = Len(texts')  BY <1>3, <1>5, <1>10, <1>11
    <2>2. ASSUME NEW k \in 1..Len(texts')
          PROVE  journal'[Slot(k - 1)] # Nothing /\ texts'[k] = journal'[Slot(k - 1)].text
      <3>1. CASE k \in 1..Len(texts)
        <4>1. journal[Slot(k - 1)] # Nothing /\ texts[k] = journal[Slot(k - 1)].text
          BY <1>2, <1>4, <1>11, <3>1 DEF AgreeInv, CursorAgrees
        <4>2. Slot(k - 1) \in Slots
          BY <1>2, <3>1, ReplayAssumption DEF Slot, Slots, Ordinals
        <4>3. Slot(k - 1) # Slot(cursor)  BY <1>4, <4>1
        <4>4. journal'[Slot(k - 1)] = journal[Slot(k - 1)]  BY <4>2, <4>3, <1>7
        <4> QED  BY <4>1, <4>4, <3>1, <1>10
      <3>2. CASE k = Len(texts) + 1
        <4>1. k - 1 = cursor  BY <1>2, <1>5, <1>11, <3>2
        <4> QED  BY <4>1, <3>2, <1>7, <1>10, EntryIsSomething
      <3> QED  BY <1>2, <1>10, <3>1, <3>2
    <2> QED  BY <2>1, <2>2
  <1>12. CursorAgrees'
    BY <1>3, <1>11 DEF CursorAgrees, Slot, Undisturbed
  <1> QED  BY <1>7, <1>8, <1>9, <1>12 DEF AgreeInv

LEMMA StepAgrees ==
    ASSUME AgreeInv, SampleInv, TurnInv, IInv, [Next]_vars PROVE AgreeInv'
  <1>1. CASE Start \/ Die \/ Begin \/ Finish \/ MergeFindsNothing \/ MergeIsJudged
             \/ NothingProposed \/ Judge \/ CallFails
    BY <1>1, LeavingSteps
  <1>2. CASE Sample
    BY <1>2, SampleAgrees
  <1>3. ASSUME NEW phase \in Phases,
               ReplayStage(phase) \/ RefuseStage(phase) \/ RunStage(phase) \/ RecordStage(phase)
        PROVE  AgreeInv'
    <2>1. CASE RefuseStage(phase)  BY <2>1, RefusalAgrees
    <2>2. CASE ReplayStage(phase) \/ RunStage(phase)  BY <2>2, QuietStagesAgree
    <2>3. CASE RecordStage(phase)
      BY <2>3, RecordParentsAgrees, RecordChildrenAgrees DEF Phases
    <2> QED  BY <1>3, <2>1, <2>2, <2>3
  <1>4. CASE RefuseBatch \/ RefuseCall
    BY <1>4, RefusalAgrees
  <1>5. CASE ReplayBatch \/ CallBatch \/ FinishBatch
    BY <1>5, BatchAgrees
  <1>6. CASE ReplayCall \/ CallGivesText \/ CallGivesNone
    BY <1>6, CallAgrees
  <1>7. CASE StoreOfBatch
    BY <1>7, StoreOfBatchAgrees
  <1>8. CASE StoreOfCall
    BY <1>8, StoreOfCallAgrees
  <1>9. CASE UNCHANGED vars
    <2>1. RecordsAgree'
      BY <1>9, RecordsStay DEF vars, process, durable, history, AgreeInv
    <2>2. TasksAgree' /\ RefusalsAgree'
      BY <1>9 DEF vars, process, durable, history, AgreeInv, TasksAgree, RefusalsAgree,
                  HasResult, Result, Undisturbed
    <2>3. CursorAgrees'
      BY <1>9 DEF vars, process, durable, history, AgreeInv, CursorAgrees, Undisturbed,
                  Slot, Request, Jobs
    <2> QED  BY <2>1, <2>2, <2>3 DEF AgreeInv
  <1> QED  BY <1>1, <1>2, <1>3, <1>4, <1>5, <1>6, <1>7, <1>8, <1>9 DEF Next, Step

LEMMA AgreeHolds == Spec => [](AgreeInv /\ SampleInv /\ TurnInv /\ IInv)
  <1>1. SampleInv /\ IInv /\ [Next]_vars => SampleInv'
    BY StepCases, SampleKeeps, SaveKeeps, OthersKeep
  <1> QED  BY <1>1, InitAgreeInv, StepAgrees, InitSampleInv, InitTurnInv, StepTurns, IInvHolds, PTL
           DEF Spec

(***************************************************************************)
(* A resume is refused only in an iteration that a merge attempt or an      *)
(* answer without content disturbed.                                        *)
(***************************************************************************)
THEOREM ResumesAgree == Spec => []ResumeAgrees
  <1>1. AgreeInv => ResumeAgrees
    BY DEF AgreeInv, RefusalsAgree, ResumeAgrees, Undisturbed
  <1> QED  BY <1>1, AgreeHolds, PTL


\* There is a feedback only while it is used, and a journal only for a model
\* that has one.
FedInv ==
    /\ at \notin Reflecting \union {"refused"} => feedback = Nothing
    /\ ~journaled => \A s \in Slots : journal[s] = Nothing

LEMMA FeedbackStep ==
    ASSUME FedInv, [Next]_vars
    PROVE  /\ at' \notin Reflecting \union {"refused"} => feedback' = Nothing
           /\ journaled' = journaled
  <1> USE DEF FedInv, Reflecting, durable
  <1>1. CASE Start \/ Die
    BY <1>1 DEF Start, Die, Idle
  <1>2. CASE MergeIsJudged \/ NothingProposed \/ Judge
    BY <1>2 DEF MergeIsJudged, NothingProposed, Judge, EndIteration, Idle
  <1>3. CASE CallFails
    BY <1>3 DEF CallFails, Abort, EndIteration, Idle
  <1>4. CASE Begin \/ Finish \/ MergeFindsNothing
    BY <1>4 DEF Begin, Finish, MergeFindsNothing
  <1>5. CASE Sample
    BY <1>5 DEF Sample
  <1>6. ASSUME NEW phase \in Phases,
               ReplayStage(phase) \/ RefuseStage(phase) \/ RunStage(phase) \/ RecordStage(phase)
        PROVE  /\ at' \notin Reflecting \union {"refused"} => feedback' = Nothing
               /\ journaled' = journaled
    BY <1>6 DEF ReplayStage, RefuseStage, Refuse, RunStage, RecordStage, Phases
  <1>7. CASE RefuseBatch \/ RefuseCall
    BY <1>7 DEF RefuseBatch, RefuseCall, Refuse
  <1>8. CASE ReplayBatch \/ StoreOfBatch
    BY <1>8 DEF ReplayBatch, ResolveBatch, StoreOfBatch
  <1>9. CASE CallBatch \/ FinishBatch
    BY <1>9 DEF CallBatch, FinishBatch, ResolveBatch, EndIteration, Idle
  <1>10. CASE ReplayCall \/ CallGivesText \/ StoreOfCall \/ CallGivesNone
    BY <1>10 DEF ReplayCall, CallGivesText, StoreOfCall, CallGivesNone, Answered
  <1>11. CASE UNCHANGED vars
    BY <1>11 DEF vars, process, history
  <1> QED  BY <1>1, <1>2, <1>3, <1>4, <1>5, <1>6, <1>7, <1>8, <1>9, <1>10, <1>11 DEF Next, Step

LEMMA StepFeeds ==
    ASSUME FedInv, TurnInv, [Next]_vars PROVE FedInv'
  <1>1. ASSUME ~journaled PROVE journal' = journal
    <2>1. ~StoreOfBatch /\ ~StoreOfCall  BY <1>1 DEF StoreOfBatch, StoreOfCall, TurnInv, Worded
    <2>2. ASSUME NEW phase \in Phases, RecordStage(phase) PROVE journal' = journal
      BY <2>2 DEF RecordStage
    <2>3. CASE Quiet \/ UNCHANGED vars
      BY <2>3, QuietKeepsTables DEF vars, durable
    <2> QED  BY <2>1, <2>2, <2>3 DEF Next, Step, Quiet
  <1> QED  BY <1>1, FeedbackStep DEF FedInv

-----------------------------------------------------------------------------
(***************************************************************************)
(* The last purchase for a slot is what its journal holds or is about to    *)
(* hold, and the last run of a stage likewise.                              *)
(***************************************************************************)
PurchaseInv ==
    /\ bought = [s \in Slots |-> bought[s]]
    /\ ran = [s \in Stages |-> ran[s]]
    /\ \A s \in Stored : bought[s] = journal[s].text
    /\ \A s \in Stages : evals[s] # Nothing => ran[s] = evals[s].result.run
    /\ at \in {"storeBatch", "storeSingle"} =>
          \A e \in pending : bought[Slot(e.ordinal)] = e.text
    /\ at = "recordParents" => \A r \in pending : r.run = ran[<<i, "parents">>]
    /\ at = "recordChildren" => \A r \in pending : r.run = ran[<<i, "children">>]

LEMMA InitPurchaseInv == Init => PurchaseInv
  BY DEF Init, PurchaseInv, Stored

\* Steps that neither buy nor run nor record.
Thrifty ==
    /\ at' \notin {"storeBatch", "storeSingle", "recordParents", "recordChildren"}
    /\ UNCHANGED <<bought, ran, journal, evals>>

LEMMA ThriftyKeeps == ASSUME PurchaseInv, Thrifty PROVE PurchaseInv'
  BY DEF PurchaseInv, Thrifty, Stored

LEMMA ThriftySteps ==
    ASSUME Start \/ Die \/ Begin \/ Finish \/ MergeFindsNothing \/ MergeIsJudged \/ Sample
           \/ NothingProposed \/ Judge \/ RefuseBatch \/ ReplayBatch \/ FinishBatch
           \/ RefuseCall \/ ReplayCall \/ CallGivesNone \/ CallFails
           \/ \E phase \in Phases : ReplayStage(phase) \/ RefuseStage(phase)
    PROVE  Thrifty
  <1> USE DEF Thrifty, durable, history, spending
  <1>1. CASE Start \/ Die
    BY <1>1 DEF Start, Load, Die
  <1>2. CASE Begin \/ Finish \/ MergeFindsNothing \/ MergeIsJudged
    BY <1>2 DEF Begin, Finish, MergeFindsNothing, MergeIsJudged, EndIteration
  <1>3. CASE Sample
    BY <1>3 DEF Sample
  <1>4. CASE NothingProposed \/ Judge \/ CallFails
    BY <1>4 DEF NothingProposed, Judge, CallFails, Abort, EndIteration
  <1>5. CASE RefuseBatch \/ RefuseCall
    BY <1>5 DEF RefuseBatch, RefuseCall, Refuse
  <1>6. CASE ReplayBatch \/ ReplayCall
    BY <1>6 DEF ReplayBatch, ReplayCall, ResolveBatch, Answered
  <1>7. CASE FinishBatch
    BY <1>7 DEF FinishBatch, ResolveBatch, EndIteration
  <1>8. CASE CallGivesNone
    BY <1>8 DEF CallGivesNone, Answered
  <1>9. ASSUME NEW phase \in Phases, ReplayStage(phase) \/ RefuseStage(phase)
        PROVE  Thrifty
    BY <1>9 DEF ReplayStage, RefuseStage, Refuse
  <1> QED  BY <1>1, <1>2, <1>3, <1>4, <1>5, <1>6, <1>7, <1>8, <1>9

\* A stage is run when nothing of it is recorded, and the result of that run
\* is the one recorded.
LEMMA StagesPurchase ==
    ASSUME PurchaseInv, IInv, NEW phase \in Phases, RunStage(phase) \/ RecordStage(phase)
    PROVE  PurchaseInv'
  <1> DEFINE stage == <<i, phase>>
  <1>1. phase \in {"parents", "children"} /\ i' = i /\ UNCHANGED <<bought, journal>>
    BY DEF Phases, RunStage, RecordStage, spending, durable
  <1>2. stage \in Stages
    BY <1>1 DEF RunStage, RecordStage, IInv, Placed, Stages
  <1>3. Stored' = Stored  BY <1>1 DEF Stored
  <1>4. CASE RunStage(phase)
    <2>1. PICK jobs : pending' = {[run |-> ran'[stage], jobs |-> jobs]}
      BY <1>4 DEF RunStage
    <2>2. /\ ran' = [ran EXCEPT ![stage] = FreshRun(phase)] /\ evals' = evals
          /\ evals[stage] = Nothing
          /\ at' = IF phase = "parents" THEN "recordParents" ELSE "recordChildren"
      BY <1>4 DEF RunStage, Kept, durable
    <2>3. ran' = [s \in Stages |-> ran'[s]] /\ \A s \in Stages : s # stage => ran'[s] = ran[s]
      BY <2>2 DEF PurchaseInv
    <2> QED  BY <1>1, <1>3, <2>1, <2>2, <2>3 DEF PurchaseInv
  <1>5. CASE RecordStage(phase)
    <2>1. PICK result \in pending :
             evals' = [evals EXCEPT ![stage] = [items |-> Items(phase), result |-> result]]
      BY <1>5 DEF RecordStage
    <2>2. /\ ran' = ran /\ at' \in {"reflect", "judge"}
          /\ at = IF phase = "parents" THEN "recordParents" ELSE "recordChildren"
      BY <1>5 DEF RecordStage
    <2>3. result.run = ran[stage]  BY <1>1, <2>2 DEF PurchaseInv
    <2>4. /\ evals'[stage] = [items |-> Items(phase), result |-> result]
          /\ \A s \in Stages : s # stage => evals'[s] = evals[s]
      BY <1>2, <2>1 DEF IInv, Tables
    <2> QED  BY <1>1, <1>3, <2>2, <2>3, <2>4 DEF PurchaseInv
  <1> QED  BY <1>4, <1>5

\* An answer is bought for a slot that holds none.
LEMMA AnswersPurchase ==
    ASSUME PurchaseInv, TurnInv, FedInv, IInv, CallBatch \/ CallGivesText
    PROVE  PurchaseInv'
  <1>1. UNCHANGED <<i, journal, evals, ran>>
    BY DEF CallBatch, CallGivesText, durable
  <1>2. Stored' = Stored  BY <1>1 DEF Stored
  <1>3. ASSUME NEW ordinal, Recorded(ordinal) = Nothing PROVE Slot(ordinal) \notin Stored
    BY <1>3 DEF Recorded, Stored, FedInv
  <1>4. CASE CallBatch
    <2>1. PICK answers \in [Missing -> Outcomes] : CallBatch!3!(answers)
      BY <1>4 DEF CallBatch
    <2> DEFINE given == Said(answers, "text")
    <2>2. bought' = [s \in Slots |-> IF \E k \in given : s = Slot(cursor + k - 1)
                                      THEN Fresh(s[2]) ELSE bought[s]]
      BY <2>1
    <2>3. \A k \in given : k \in 1..Jobs /\ Recorded(cursor + k - 1) = Nothing
      BY DEF Said, Missing
    <2>4. \A s \in Stored : s \in Slots /\ bought'[s] = bought[s]
      BY <1>3, <2>2, <2>3 DEF Stored
    <2>5. at' \notin {"recordParents", "recordChildren", "storeSingle"}
      BY <2>1 DEF ResolveBatch, EndIteration
    <2>6. ASSUME at' = "storeBatch" PROVE \A e \in pending' : bought'[Slot(e.ordinal)'] = e.text
      <3>1. pending' = {[ordinal |-> cursor + k - 1, request |-> Request(k),
                         text |-> Fresh(cursor + k - 1)] : k \in given}
        BY <2>1, <2>6 DEF ResolveBatch, EndIteration
      <3>2. \A k \in 1..Jobs : cursor + k - 1 \in Ordinals /\ i \in Iterations
        BY <1>4, BatchIsInRange DEF CallBatch
      <3> SUFFICES ASSUME NEW e \in pending' PROVE bought'[Slot(e.ordinal)'] = e.text
        OBVIOUS
      <3> HIDE DEF given
      <3>3. PICK k \in given : e = [ordinal |-> cursor + k - 1, request |-> Request(k),
                                    text |-> Fresh(cursor + k - 1)]
        BY <3>1
      <3>4. Slot(e.ordinal)' = Slot(cursor + k - 1) /\ e.text = Fresh(cursor + k - 1)
        BY <3>3, <1>1 DEF Slot
      <3>5. Slot(cursor + k - 1) \in Slots /\ Slot(cursor + k - 1)[2] = cursor + k - 1
        BY <2>3, <3>2 DEF Slot, Slots
      <3> QED  BY <2>2, <3>4, <3>5
    <2>7. bought' = [s \in Slots |-> bought'[s]]  BY <2>2
    <2> QED  BY <1>1, <1>2, <2>4, <2>5, <2>6, <2>7 DEF PurchaseInv
  <1>5. CASE CallGivesText
    <2> DEFINE ordinal == IF journaled THEN cursor ELSE Turn - 1
               text == Fresh(ordinal)
    <2>1. /\ bought' = [bought EXCEPT ![Slot(ordinal)] = text]
          /\ Recorded(cursor) = Nothing
          /\ IF journaled
             THEN pending' = {[ordinal |-> ordinal, request |-> Request(Turn), text |-> text]}
                  /\ at' = "storeSingle"
             ELSE at' \in {"single", "children"}
      BY <1>5 DEF CallGivesText, ThroughJournal, Answered
    <2>2. Slot(ordinal) \notin Stored
      <3>1. CASE journaled  BY <2>1, <3>1, <1>3
      <3>2. CASE ~journaled  BY <3>2 DEF FedInv, Stored
      <3> QED  BY <3>1, <3>2
    <2>3. \A s \in Stored : bought'[s] = bought[s]
      <3>1. Stored \subseteq Slots  BY DEF Stored
      <3> HIDE DEF ordinal, text
      <3> QED  BY <2>1, <2>2, <3>1 DEF PurchaseInv
    <2>4. journaled => Slot(ordinal) \in Slots
      BY <1>5, TurnIsInRange DEF CallGivesText, Slot, Slots
    <2>5. bought' = [s \in Slots |-> bought'[s]]  BY <2>1 DEF PurchaseInv
    <2>6. ASSUME journaled PROVE \A e \in pending' : bought'[Slot(e.ordinal)'] = e.text
      <3>1. bought'[Slot(ordinal)] = text  BY <2>1, <2>4, <2>6 DEF PurchaseInv
      <3>2. \A e \in pending' : e.ordinal = ordinal /\ e.text = text  BY <2>1, <2>6
      <3> HIDE DEF ordinal, text
      <3> QED  BY <1>1, <3>1, <3>2 DEF Slot
    <2>7. at' \in {"storeSingle", "single", "children"} /\ (at' = "storeSingle" => journaled)
      BY <2>1
    <2> HIDE DEF ordinal, text
    <2> QED  BY <1>1, <1>2, <2>3, <2>5, <2>6, <2>7 DEF PurchaseInv
  <1> QED  BY <1>4, <1>5

\* What is stored is what was bought.
LEMMA StoresPurchase ==
    ASSUME PurchaseInv, TurnInv, IInv, StoreOfBatch \/ StoreOfCall
    PROVE  PurchaseInv'
  <1>1. PICK e \in pending : Record(e)  BY DEF StoreOfBatch, StoreOfCall
  <1>2. /\ at \in {"storeBatch", "storeSingle"} /\ UNCHANGED <<i, bought, ran, evals>>
        /\ pending' \subseteq pending
        /\ at' \in {"storeBatch", "single", "children"}
    BY DEF StoreOfBatch, StoreOfCall, Answered
  <1>3. Slot(e.ordinal) \in Slots
    BY <1>2 DEF TurnInv, Worded, IInv, Placed, Slot, Slots
  <1>4. bought[Slot(e.ordinal)] = e.text  BY <1>2 DEF PurchaseInv
  <1>5. journal'[Slot(e.ordinal)] = [request |-> e.request, text |-> e.text]
    BY <1>1, <1>3 DEF Record, IInv, Tables
  <1>6. \A s \in Slots : s # Slot(e.ordinal) => journal'[s] = journal[s]
    BY <1>1 DEF Record, IInv, Tables
  <1>7. \A s \in Stored' : bought[s] = journal'[s].text
    BY <1>4, <1>5, <1>6 DEF Stored, PurchaseInv
  <1>8. at' = "storeBatch" => \A f \in pending' : bought'[Slot(f.ordinal)'] = f.text
    BY <1>2 DEF PurchaseInv, Slot
  <1> QED  BY <1>2, <1>7, <1>8 DEF PurchaseInv

LEMMA StepPurchases ==
    ASSUME PurchaseInv, TurnInv, FedInv, IInv, [Next]_vars PROVE PurchaseInv'
  <1>1. CASE UNCHANGED vars
    BY <1>1 DEF vars, process, durable, history, PurchaseInv, Stored, Slot
  <1>2. CASE StoreOfBatch \/ StoreOfCall
    BY <1>2, StoresPurchase
  <1>3. CASE CallBatch \/ CallGivesText
    BY <1>3, AnswersPurchase
  <1>4. ASSUME NEW phase \in Phases, RunStage(phase) \/ RecordStage(phase) PROVE PurchaseInv'
    BY <1>4, StagesPurchase
  <1>5. ASSUME NEW phase \in Phases, ReplayStage(phase) \/ RefuseStage(phase) PROVE PurchaseInv'
    BY <1>5, ThriftySteps, ThriftyKeeps
  <1> QED  BY <1>1, <1>2, <1>3, <1>4, <1>5, ThriftySteps, ThriftyKeeps DEF Next, Step

(***************************************************************************)
(* Nothing that is recorded is paid for again: the last answer bought for a *)
(* slot, in whatever process, is the one its journal keeps, and the last    *)
(* run of a stage is the recorded one.  Of an undisturbed iteration no      *)
(* request has more recorded answers than tasks that ask it, because each   *)
(* slot is a task's own.                                                    *)
(***************************************************************************)
THEOREM AnswersArePaidOnce == Spec => []PaidOnce
  <1>1. AgreeInv /\ FedInv /\ IInv /\ PurchaseInv => PaidOnce
    <2> SUFFICES ASSUME AgreeInv, FedInv, IInv, PurchaseInv, feedback # Nothing, Undisturbed(i),
                        NEW s \in Stored, s[1] = i
                 PROVE  Cardinality(Holding(journal[s].request))
                          <= Cardinality({k \in 1..Jobs : Request(k) = journal[s].request})
      BY DEF PaidOnce, PurchaseInv, Undisturbed
    <2>1. journaled  BY DEF FedInv, Stored
    <2>2. at \in Reflecting  BY <2>1 DEF FedInv, AgreeInv, RefusalsAgree
    <2>3. /\ i \in Iterations /\ Jobs \in Nat /\ Jobs = Size(i)
          /\ \A k : Request(k) = Asked(i, k)
      <3>1. i \in Iterations /\ Jobs \in 0..N  BY <2>2 DEF IInv, Placed, Counted, Jobs, Reflecting
      <3>2. N \in Nat  BY ReplayAssumption
      <3> QED  BY <2>2, <3>1, <3>2, RequestsAsked DEF AgreeInv
    <2> DEFINE r == journal[s].request
               S == Holding(r)
               T == {k \in 1..Jobs : Request(k) = r}
               f == [x \in S |-> x[2] + 1]
    <2>4. ASSUME NEW x \in S PROVE x[2] + 1 \in T /\ x = <<i, x[2]>> /\ x[2] \in Nat
      <3>1. x \in Slots /\ journal[x] # Nothing /\ x[1] = i /\ journal[x].request = r
        BY DEF Holding, Stored
      <3>2. x = <<i, x[2]>> /\ x[2] \in Ordinals  BY <3>1 DEF Slots
      <3>3. x[2] + 1 \in 1..Size(i) /\ journal[x].request = Asked(i, x[2] + 1)
        BY <2>1, <2>3, <3>1, <3>2 DEF AgreeInv, RecordsAgree, SlotsAgree
      <3>4. x[2] \in Nat  BY <3>2 DEF Ordinals
      <3> QED  BY <2>3, <3>1, <3>2, <3>3, <3>4
    <2>5. IsFiniteSet(T)
      <3>1. IsFiniteSet(1..Jobs)  BY <2>3, FS_Interval
      <3>2. T \subseteq 1..Jobs  OBVIOUS
      <3> HIDE DEF T
      <3> QED  BY <3>1, <3>2, FS_Subset
    <2> HIDE DEF r, S, T
    <2>6. f \in Injection(S, T)
      <3>1. f \in [S -> T]  BY <2>4
      <3>2. ASSUME NEW x \in S, NEW y \in S, f[x] = f[y] PROVE x = y
        <4>1. x[2] = y[2]  BY <2>4, <3>2
        <4> QED  BY <2>4, <4>1
      <3> QED  BY <3>1, <3>2 DEF Injection, IsInjective
    <2>7. Cardinality(S) <= Cardinality(T)  BY <2>5, <2>6, FS_Injection
    <2> QED  BY <2>7 DEF r, S, T
  <1>2. Init => FedInv  BY DEF Init, FedInv
  <1> QED  BY <1>1, <1>2, InitPurchaseInv, StepPurchases, StepFeeds, AgreeHolds, PTL DEF Spec

=============================================================================
