------------------------------ MODULE ReplayedRun ------------------------------
(***************************************************************************)
(* The iterations of core/engine.py seen from what a death leaves behind:   *)
(* the checkpoint at the top of each iteration, the journal of language-    *)
(* model answers (lm.py, response_journal.py), the journal of evaluations   *)
(* (evaluation_journal.py), and the reflection of                           *)
(* reflective_mutation.py and reflection_lm.py, which calls the model for a *)
(* batch of tasks and falls back to one task at a time.                     *)
(*                                                                         *)
(* A new answer and a new result are numbered unlike what the journals hold *)
(* of their slot and stage, so a purchase never agrees with a record by     *)
(* chance: whatever is not replayed is different the second time. What was  *)
(* lost before it got to a record is not told apart from its repetition.    *)
(***************************************************************************)
EXTENDS Integers, Sequences, FiniteSets, BatchSampler

CONSTANTS N,              \* tasks per iteration, all of one parent
          Shuffles,       \* permutations of TrainIds a shuffle may draw
          LMs,            \* with a response journal (TRUE), without, or either
          UseMerge,       \* merges are on
          Malformed,      \* an answer may come without text content
          MaxIterations,  \* bound: iterations begun
          JobLists,       \* iteration -> the tasks that its parents' results may leave
          MaxFaults,      \* bound: provider errors, answers without content, and
                          \* deaths before anything paid for was recorded
          MaxDraws        \* bound: positions of the random stream

ASSUME ReplayAssumption ==
    /\ N \in Nat \ {0}
    /\ \A p \in Shuffles : /\ p \in [1..TrainSize -> TrainIds]
                            /\ \A x \in TrainIds : \E k \in 1..TrainSize : p[k] = x
    /\ {UseMerge, Malformed} \union LMs \subseteq BOOLEAN
    /\ \A j \in 0..(MaxIterations - 1) :
          JobLists[j] \subseteq UNION {[1..m -> 1..N] : m \in 0..N}
    /\ {MaxIterations, MaxFaults, MaxDraws} \subseteq Nat

Iterations == 0..(MaxIterations - 1)
Ordinals == 0..(N - 1)
Phases == {"parents", "children"}
Slots == Iterations \X Ordinals
Stages == Iterations \X Phases
Nothing == [empty |-> TRUE]
NoBatch == [answers |-> 0, error |-> "none"]

VARIABLES
    journaled, \* the language model has a response journal
    at,        \* where the process is
    i,         \* state.i
    rng,       \* position of the shared random stream
    sampler,   \* the batch sampler
    wanted,    \* a merge is due and the last iteration found a program
    tasks,     \* the tasks of the iteration
    feedback,  \* what the evaluation of the parents returned
    cursor,    \* the ordinal of the next call in the iteration's scope
    pending,   \* answers or results obtained and not yet in their journal
    batch,     \* of the batch in flight: its answers, and its worst error
    texts,     \* the outputs of the tasks answered so far
    retried,   \* the failed reflection is being repeated task by task
    cost,      \* LM.total_cost, in answers
    disk,      \* gepa_state.bin
    journal,   \* slot -> request and answer
    evals,     \* stage -> items and result
    shuffled,  \* random position -> the permutation it yields, once drawn
    bought,    \* slot -> the answer last bought for it, in any process
    ran,       \* stage -> the evaluation last run for it, in any process
    touched,   \* iterations in which a merge attempt drew before the sampling
    skewed,    \* iterations in which a task was given up over answers without content
    uncounted, \* answers counted in this process's cost and not journaled
    sampled,   \* iteration -> the tasks it last sampled
    gained,    \* an answer or a result this process paid for got to its journal
               \* or, without one, to its caller
    faults     \* what MaxFaults bounds, so far

process == <<at, i, rng, sampler, wanted, tasks, feedback, cursor, pending,
             batch, texts, retried, cost, uncounted>>
durable == <<journaled, disk, journal, evals>>
history == <<shuffled, bought, ran, touched, skewed, sampled, gained, faults>>
vars == <<process, durable, history>>

reflection == <<cursor, pending, batch, texts, retried>>
spending == <<cost, uncounted, bought, gained>>

\* The tasks that reflect are those the parents' results do not skip.
Jobs == Len(feedback.jobs)
Request(k) == [task |-> tasks[feedback.jobs[k]], feedback |-> feedback.run]
Slot(ordinal) == <<i, ordinal>>

\* What the journal has for the slot: without a journal, nothing.
Recorded(ordinal) == IF journaled THEN journal[Slot(ordinal)] ELSE Nothing
NoText == 0

Stored == {s \in Slots : journal[s] # Nothing}

-----------------------------------------------------------------------------
LoadMutant ==
    /\ at' = "top"
    /\ i' = disk.i /\ rng' = 0 /\ sampler' = disk.sampler
    /\ wanted' = FALSE
    /\ cost' = Cardinality(Stored)
    /\ uncounted' = 0

LoadSamplerMutant ==
    /\ at' = "top"
    /\ i' = disk.i /\ rng' = disk.rng /\ sampler' = NewSampler
    /\ wanted' = FALSE
    /\ cost' = Cardinality(Stored)
    /\ uncounted' = 0

\* A fresh process loads the checkpoint; its merge counters are not in it, and
\* its cost is summed from the journal.
Load ==
    /\ at' = "top"
    /\ i' = disk.i /\ rng' = disk.rng /\ sampler' = disk.sampler
    /\ wanted' = FALSE
    /\ cost' = Cardinality(Stored)
    /\ uncounted' = 0

Idle ==
    /\ tasks' = <<>> /\ feedback' = Nothing /\ cursor' = 0 /\ pending' = {}
    /\ batch' = NoBatch /\ texts' = <<>> /\ retried' = FALSE

Init ==
    /\ journaled \in LMs
    /\ at = "down" /\ i = -1 /\ rng = 0 /\ sampler = NewSampler /\ wanted = FALSE
    /\ tasks = <<>> /\ feedback = Nothing /\ cursor = 0 /\ pending = {}
    /\ batch = NoBatch /\ texts = <<>> /\ retried = FALSE
    /\ cost = 0 /\ uncounted = 0
    /\ disk = [i |-> -1, rng |-> 0, sampler |-> NewSampler]
    /\ journal = [s \in Slots |-> Nothing]
    /\ evals = [s \in Stages |-> Nothing]
    /\ shuffled = [r \in 0..MaxDraws |-> <<>>]
    /\ bought = [s \in Slots |-> NoText]
    /\ ran = [s \in Stages |-> 0]
    /\ touched = {} /\ skewed = {}
    /\ sampled = [j \in Iterations |-> <<>>]
    /\ gained = FALSE /\ faults = 0

Start ==
    /\ at = "down"
    /\ Load /\ Idle
    /\ UNCHANGED <<durable, history>>

Faulty(n) ==
    /\ faults + n <= MaxFaults
    /\ faults' = faults + n

\* The process is killed, or an exception leaves the loop. It dies
\* at the expense of the bound while nothing it paid for was recorded.
Die ==
    /\ at \notin {"down", "refused", "done"}
    /\ IF gained THEN UNCHANGED faults ELSE Faulty(1)
    /\ gained' = FALSE
    /\ at' = "down" /\ i' = -1 /\ rng' = 0 /\ sampler' = NewSampler
    /\ wanted' = FALSE /\ cost' = 0 /\ uncounted' = 0
    /\ Idle
    /\ UNCHANGED <<durable, shuffled, bought, ran, touched, skewed, sampled>>

\* ResponseJournalError is raised through the loop.  A new process reads the
\* same checkpoint and the same record, so it ends here again.
Refuse ==
    /\ at' = "refused"
    /\ UNCHANGED <<i, rng, sampler, wanted, tasks, feedback, reflection,
                   spending, durable, shuffled, ran, touched, skewed, sampled, faults>>

EndIteration ==
    /\ at' = "top"
    /\ Idle

-----------------------------------------------------------------------------
\* Top of the loop: the state, the sampler and the random stream are saved,
\* then the iteration is counted.
Begin ==
    /\ at = "top"
    /\ i < MaxIterations - 1
    /\ disk' = [i |-> i, rng |-> rng, sampler |-> sampler]
    /\ i' = i + 1
    /\ at' = IF wanted THEN "merge" ELSE "sample"
    /\ UNCHANGED <<rng, sampler, wanted, tasks, feedback, reflection, spending,
                   journaled, journal, evals, shuffled, ran, touched, skewed, sampled, faults>>

\* The loop was told to stop: the last save.
Finish ==
    /\ at = "top"
    /\ i = MaxIterations - 1
    /\ disk' = [i |-> i, rng |-> rng, sampler |-> sampler]
    /\ at' = "done"
    /\ UNCHANGED <<i, rng, sampler, wanted, tasks, feedback, reflection, spending,
                   journaled, journal, evals, shuffled, ran, touched, skewed, sampled, faults>>

\* A merge attempt finds nothing, with or without having drawn, and the
\* iteration goes on to reflection.
MergeFindsNothing ==
    /\ at = "merge"
    /\ \E drawn \in {0, 1} :
          /\ rng + drawn <= MaxDraws
          /\ rng' = rng + drawn
          /\ touched' = IF drawn = 1 THEN touched \union {i} ELSE touched
    /\ wanted' = FALSE
    /\ at' = "sample"
    /\ UNCHANGED <<i, sampler, tasks, feedback, reflection, spending, durable,
                   shuffled, ran, skewed, sampled, faults>>

\* A merge is proposed and judged; either way reflection is skipped.
MergeIsJudged ==
    /\ at = "merge"
    /\ rng < MaxDraws
    /\ rng' = rng + 1
    /\ wanted' = FALSE
    /\ EndIteration
    /\ UNCHANGED <<i, sampler, spending, durable, shuffled, ran, touched, skewed,
                   sampled, faults>>

-----------------------------------------------------------------------------
\* SameParentSampling: one draw for the parent, then a minibatch per task; the
\* sampler shuffles first when its epoch is over.
Sample ==
    /\ at = "sample"
    /\ rng + 2 <= MaxDraws
    /\ LET called == Called(sampler, i)
           fresh == NeedsRefresh(called, i)
       IN  \E perm \in Shuffles :
             LET first == IF fresh THEN Refreshed(called, i, perm) ELSE called
             IN  /\ IF fresh
                    THEN /\ shuffled[rng + 1] \in {<<>>, perm}
                         /\ shuffled' = [shuffled EXCEPT ![rng + 1] = perm]
                         /\ rng' = rng + 2
                    ELSE /\ UNCHANGED shuffled
                         /\ rng' = rng + 1
                 /\ tasks' = [k \in 1..N |->
                                [parent |-> rng, ids |-> Minibatch(Repeated(first, k - 1), i)]]
                 /\ sampler' = Repeated(first, N - 1)
                 /\ sampled' = [sampled EXCEPT ![i] = tasks']
    /\ at' = "parents"
    /\ UNCHANGED <<i, wanted, feedback, reflection, spending, durable, ran,
                   touched, skewed, faults>>

-----------------------------------------------------------------------------
\* EvaluationJournal.evaluate: a recorded stage is returned when its items are
\* the same and refused when they are not; otherwise the adapter runs and the
\* result is recorded before it is used.
Items(phase) ==
    IF phase = "parents" THEN tasks
    ELSE [k \in {j \in 1..Len(texts) : texts[j] # NoText} |-> <<Request(k), texts[k]>>]

KeptMutant(phase) == Nothing
Kept(phase) == evals[<<i, phase>>]

ReplayStage(phase) ==
    /\ at = phase
    /\ Kept(phase) # Nothing
    /\ Kept(phase).items = Items(phase)
    /\ at' = IF phase = "parents" THEN "reflect" ELSE "judge"
    /\ feedback' = IF phase = "parents" THEN Kept(phase).result ELSE feedback
    /\ UNCHANGED <<i, rng, sampler, wanted, tasks, reflection, spending, durable,
                   shuffled, ran, touched, skewed, sampled, faults>>

RefuseStage(phase) ==
    /\ at = phase
    /\ Kept(phase) # Nothing
    /\ Kept(phase).items # Items(phase)
    /\ Refuse

\* The number of a new run of the stage.
FreshRun(phase) ==
    LET kept == evals[<<i, phase>>]
    IN  IF kept # Nothing /\ kept.result.run = 1 THEN 2 ELSE 1

\* The parents' results decide which tasks are skipped (no trajectories, or
\* nothing to improve).
RunStage(phase) ==
    /\ at = phase
    /\ Kept(phase) = Nothing
    /\ phase = "children" => DOMAIN Items(phase) # {}
    /\ ran' = [ran EXCEPT ![<<i, phase>>] = FreshRun(phase)]
    /\ \E jobs \in IF phase = "parents" THEN JobLists[i] ELSE {<<>>} :
          pending' = {[run |-> ran'[<<i, phase>>], jobs |-> jobs]}
    /\ at' = IF phase = "parents" THEN "recordParents" ELSE "recordChildren"
    /\ UNCHANGED <<i, rng, sampler, wanted, tasks, feedback, cursor, batch, texts,
                   retried, spending, durable, shuffled, touched, skewed, sampled, faults>>

RecordStage(phase) ==
    /\ at = IF phase = "parents" THEN "recordParents" ELSE "recordChildren"
    /\ \E result \in pending :
          /\ evals' = [evals EXCEPT ![<<i, phase>>] =
                          [items |-> Items(phase), result |-> result]]
          /\ feedback' = IF phase = "parents" THEN result ELSE feedback
    /\ pending' = {}
    /\ gained' = TRUE
    /\ at' = IF phase = "parents" THEN "reflect" ELSE "judge"
    /\ UNCHANGED <<i, rng, sampler, wanted, tasks, cursor, batch, texts, retried,
                   cost, uncounted, bought, journaled, disk, journal, shuffled, ran,
                   touched, skewed, sampled, faults>>

-----------------------------------------------------------------------------
\* No task is left to reflect on, or no reflection gave a text, or a provider
\* error left the proposer and the loop goes on with the next iteration.
NothingProposed ==
    /\ \/ at = "reflect" /\ Jobs = 0
       \/ at = "children" /\ DOMAIN Items("children") = {}
    /\ EndIteration
    /\ UNCHANGED <<i, rng, sampler, wanted, spending, durable, shuffled, ran,
                   touched, skewed, sampled, faults>>

Abort ==
    /\ EndIteration
    /\ UNCHANGED <<i, rng, sampler, wanted, durable, shuffled, ran, touched,
                   skewed, sampled>>

\* LM.batch_complete: every slot of the batch is looked up first.
Mismatch(ordinal, k) == Recorded(ordinal) \notin {Nothing} /\ Recorded(ordinal).request # Request(k)
BatchMismatch == \E k \in 1..Jobs : Mismatch(cursor + k - 1, k)
MissingMutant ==
    IF \E k \in 1..Jobs : Recorded(cursor + k - 1) = Nothing THEN 1..Jobs ELSE {}
Missing == {k \in 1..Jobs : Recorded(cursor + k - 1) = Nothing}

RefuseBatch ==
    /\ at = "reflect" /\ Jobs > 1
    /\ BatchMismatch
    /\ Refuse

ResolveBatch(answer(_)) ==
    /\ texts' = [k \in 1..Jobs |-> answer(k)]
    /\ cursor' = cursor + Jobs
    /\ at' = "children"

ReplayBatch ==
    /\ at = "reflect" /\ Jobs > 1
    /\ ~BatchMismatch /\ Missing = {}
    /\ ResolveBatch(LAMBDA k : Recorded(cursor + k - 1).text)
    /\ UNCHANGED <<i, rng, sampler, wanted, tasks, feedback, pending, batch, retried,
                   spending, durable, shuffled, ran, touched, skewed, sampled, faults>>

\* What the provider makes of each missing request.  An answer without content
\* is a TypeError before anything of the batch is stored or counted; provider
\* errors leave the other answers of a journaled batch stored and counted.
Outcomes == {"text", "error", "exhausted"} \union (IF Malformed THEN {"none"} ELSE {})
Said(answers, outcome) == {k \in Missing : answers[k] = outcome}
WorstError(answers) ==
    IF Said(answers, "exhausted") # {} THEN "exhausted"
    ELSE IF Said(answers, "error") # {} THEN "error" ELSE "none"

\* Without a journal the answers are taken in the order of the tasks, and the
\* first bad one decides.
Bad(answers) == Missing \ Said(answers, "text")
FirstBad(answers) == answers[CHOOSE k \in Bad(answers) : \A l \in Bad(answers) : k <= l]

\* What an evaluation of the children recorded of the task's answer.
Evaluated(turn) ==
    LET kept == evals[<<i, "children">>]
    IN  IF kept # Nothing /\ turn \in DOMAIN kept.items THEN kept.items[turn][2] ELSE NoText

\* The number of a new answer for the slot, which is the task's turn when there
\* is no journal: of three numbers one is unlike both records.
Held(ordinal) ==
    IF journal[Slot(ordinal)] = Nothing THEN NoText ELSE journal[Slot(ordinal)].text
Fresh(ordinal) ==
    CHOOSE n \in (3 * ordinal + 1)..(3 * ordinal + 3) :
        n # Held(ordinal) /\ n # Evaluated(ordinal + 1)

CallBatch ==
    /\ at = "reflect" /\ Jobs > 1
    /\ ~BatchMismatch /\ Missing # {}
    /\ \E answers \in [Missing -> Outcomes] :
          LET given == Said(answers, "text")
              number(k) == Fresh(cursor + k - 1)
          IN  /\ Faulty(Cardinality(Bad(answers)))
              /\ bought' = [s \in Slots |->
                              IF \E k \in given : s = Slot(cursor + k - 1) THEN Fresh(s[2])
                              ELSE bought[s]]
              /\ \/ /\ journaled
                    /\ Said(answers, "none") = {}
                    /\ pending' = {[ordinal |-> cursor + k - 1, request |-> Request(k),
                                    text |-> number(k)] : k \in given}
                    /\ batch' = [answers |-> Cardinality(given), error |-> WorstError(answers)]
                    /\ at' = "storeBatch"
                    /\ UNCHANGED <<tasks, feedback, cursor, texts, retried, cost, uncounted, gained>>
                 \/ /\ ~journaled
                    /\ Bad(answers) = {}
                    /\ ResolveBatch(number)
                    /\ cost' = cost + Jobs
                    /\ gained' = TRUE
                    /\ UNCHANGED <<tasks, feedback, pending, batch, retried, uncounted>>
                 \/ /\ \/ journaled /\ Said(answers, "none") # {}
                       \/ ~journaled /\ Bad(answers) # {} /\ FirstBad(answers) # "exhausted"
                    /\ at' = "single"
                    /\ UNCHANGED <<tasks, feedback, reflection, cost, uncounted, gained>>
                 \/ /\ ~journaled
                    /\ Bad(answers) # {} /\ FirstBad(answers) = "exhausted"
                    /\ EndIteration
                    /\ UNCHANGED <<cost, uncounted, gained>>
    /\ UNCHANGED <<i, rng, sampler, wanted, durable, shuffled, ran, touched,
                   skewed, sampled>>

\* One transaction per answer, in the order of the tasks.  The store's own check
\* for a slot that is taken never fires here: a slot is looked up before a call
\* is made for it, so it is not modelled.
Record(entry) ==
    journal' = [journal EXCEPT ![Slot(entry.ordinal)] =
                  [request |-> entry.request, text |-> entry.text]]

StoreOfBatch ==
    /\ at = "storeBatch"
    /\ \E entry \in pending :
          /\ \A other \in pending : entry.ordinal <= other.ordinal
          /\ Record(entry)
          /\ pending' = pending \ {entry}
    /\ gained' = TRUE
    /\ UNCHANGED <<at, i, rng, sampler, wanted, tasks, feedback, cursor, batch, texts,
                   retried, cost, uncounted, bought, journaled, disk, evals, shuffled, ran,
                   touched, skewed, sampled, faults>>

ChargeMutant == IF batch.error = "none" THEN batch.answers ELSE 0
Charge == batch.answers

\* After the last store the answers are counted; then an exhausted request ends
\* the iteration, another provider error sends the tasks one by one.
FinishBatch ==
    /\ at = "storeBatch" /\ pending = {}
    /\ cost' = cost + Charge
    /\ \/ /\ batch.error = "none"
          /\ ResolveBatch(LAMBDA k : Recorded(cursor + k - 1).text)
          /\ batch' = NoBatch
          /\ UNCHANGED <<tasks, feedback, pending, retried>>
       \/ /\ batch.error = "error"
          /\ at' = "single"
          /\ batch' = NoBatch
          /\ UNCHANGED <<tasks, feedback, pending, cursor, texts, retried>>
       \/ /\ batch.error = "exhausted"
          /\ EndIteration
    /\ UNCHANGED <<i, rng, sampler, wanted, uncounted, bought, gained, durable,
                   shuffled, ran, touched, skewed, sampled, faults>>

-----------------------------------------------------------------------------
\* LM.__call__ for the next task, in the fallback and for a single task.
Single == \/ at = "single"
          \/ at = "reflect" /\ Jobs = 1
Turn == Len(texts) + 1

Answered(text) ==
    /\ texts' = Append(texts, text)
    /\ at' = IF Turn = Jobs THEN "children" ELSE "single"

RefuseCall ==
    /\ Single
    /\ Mismatch(cursor, Turn)
    /\ Refuse

ReplayCall ==
    /\ Single
    /\ Recorded(cursor) # Nothing
    /\ ~Mismatch(cursor, Turn)
    /\ Answered(Recorded(cursor).text)
    /\ cursor' = cursor + 1
    /\ UNCHANGED <<i, rng, sampler, wanted, tasks, feedback, pending, batch, retried,
                   spending, durable, shuffled, ran, touched, skewed, sampled, faults>>

\* The call goes through the journal: the model has one, and the proposer's
\* scope is active.
ThroughJournalMutant == journaled /\ Jobs = 1
ThroughJournal == journaled

\* A text: counted at once, stored next.
CallGivesText ==
    /\ Single
    /\ Recorded(cursor) = Nothing
    /\ LET ordinal == IF ThroughJournal THEN cursor ELSE Turn - 1
           text    == Fresh(ordinal)
       IN  /\ bought' = [bought EXCEPT ![Slot(ordinal)] = text]
           /\ IF ThroughJournal
              THEN /\ pending' = {[ordinal |-> ordinal, request |-> Request(Turn), text |-> text]}
                   /\ at' = "storeSingle"
                   /\ UNCHANGED <<texts, gained>>
              ELSE Answered(text) /\ gained' = TRUE /\ UNCHANGED pending
    /\ cost' = cost + 1
    /\ UNCHANGED <<i, rng, sampler, wanted, tasks, feedback, cursor, batch, retried,
                   uncounted, durable, shuffled, ran, touched, skewed, sampled, faults>>

StoreOfCall ==
    /\ at = "storeSingle"
    /\ \E entry \in pending : Record(entry) /\ Answered(entry.text)
    /\ pending' = {}
    /\ cursor' = cursor + 1
    /\ gained' = TRUE
    /\ UNCHANGED <<i, rng, sampler, wanted, tasks, feedback, batch, retried, cost, uncounted,
                   bought, journaled, disk, evals, shuffled, ran, touched, skewed, sampled,
                   faults>>

\* An answer without content: counted, not stored, and its slot is not used up.
\* A single task is tried once more from the saved cursor; in the fallback the
\* task is left without an output.
CallGivesNone ==
    /\ Single /\ Malformed
    /\ Recorded(cursor) = Nothing
    /\ Faulty(1)
    /\ cost' = cost + 1 /\ uncounted' = uncounted + 1
    /\ \/ /\ Jobs = 1 /\ ~retried
          /\ retried' = TRUE /\ cursor' = 0
          /\ at' = "single"
          /\ UNCHANGED <<texts, skewed>>
       \/ /\ Jobs > 1 \/ retried
          /\ Answered(NoText)
          /\ skewed' = skewed \union {i}
          /\ UNCHANGED <<cursor, retried>>
    /\ UNCHANGED <<i, rng, sampler, wanted, tasks, feedback, pending, batch, bought, gained,
                   durable, shuffled, ran, touched, sampled>>

\* LMProviderError is not retried here: it ends the iteration, whose evaluations
\* were charged, so the loop goes on (raise_on_exception would be a death).
CallFails ==
    /\ Single
    /\ Recorded(cursor) = Nothing
    /\ Faulty(1)
    /\ Abort
    /\ UNCHANGED spending

-----------------------------------------------------------------------------
\* Acceptance, selection, validation and the addition to the pool.
Judge ==
    /\ at = "judge"
    /\ \E accepted \in BOOLEAN : wanted' = (accepted /\ UseMerge)
    /\ EndIteration
    /\ UNCHANGED <<i, rng, sampler, spending, durable, shuffled, ran, touched,
                   skewed, sampled, faults>>

Step ==
    \/ Start \/ Begin \/ Finish
    \/ MergeFindsNothing \/ MergeIsJudged \/ Sample
    \/ \E phase \in Phases :
          ReplayStage(phase) \/ RefuseStage(phase) \/ RunStage(phase) \/ RecordStage(phase)
    \/ NothingProposed \/ Judge
    \/ RefuseBatch \/ ReplayBatch \/ CallBatch \/ StoreOfBatch \/ FinishBatch
    \/ RefuseCall \/ ReplayCall \/ CallGivesText \/ StoreOfCall \/ CallGivesNone \/ CallFails

Next == Step \/ Die

Spec == Init /\ [][Next]_vars /\ WF_vars(Step)

-----------------------------------------------------------------------------
\* With a journaled language model a resumed run is refused only in an
\* iteration where a merge attempt drew from the shared random stream before
\* the sampling, or where a task was given up over an answer without content,
\* of which no journal keeps anything: its slot goes to the next task, and a
\* resume asks again (engine.py's order of merge and reflection, lm.py).
ResumeAgrees ==
    at = "refused" /\ journaled => i \in touched \union skewed

\* A resumed iteration samples what it sampled before it died, unless a merge
\* attempt drew first: the sampler's cursor, its epoch and the random stream
\* are checkpointed together (engine.py save, batch_sampler.py get_state).
ResampleIsSame ==
    [][\A j \in Iterations :
          sampled[j] # <<>> /\ sampled'[j] # sampled[j] => j \in touched]_vars

\* Whatever faults and skipped iterations there were, an epoch in which every
\* iteration sampled has shown the first task of its iterations every training
\* example (batch_sampler.py, next_minibatch_ids and _update_shuffled).
IterationsOf(epoch) == {j \in Iterations : (j * MinibatchSize) \div EpochLength = epoch}
Shown(j) == {sampled[j][1].ids[k] : k \in 1..MinibatchSize}
EpochCovers ==
    \A epoch \in 0..MaxIterations :
        LET js == IterationsOf(epoch)
        IN  Cardinality(js) * MinibatchSize = EpochLength
              /\ (\A j \in js : sampled[j] # <<>>) /\ js \intersect touched = {}
            => TrainIds = UNION {Shown(j) : j \in js}

\* An output reaches the evaluation of the children only after it is in the
\* journal under its task's own request, and a result reaches acceptance only
\* after it is in the journal of evaluations under the same items, so a resumed
\* run finds both (lm.py _run_journaled, evaluation_journal.py evaluate).
JournaledFirst ==
    /\ journaled /\ at \in {"children", "recordChildren", "judge"} =>
          \A k \in 1..Jobs : texts[k] = NoText \/
              \E ordinal \in Ordinals :
                  journal[Slot(ordinal)] = [request |-> Request(k), text |-> texts[k]]
    /\ at = "judge" => Kept("children").items = Items("children")

\* What was kept is not paid for again, not by a resume, not by a batch whose
\* other requests failed, not by the task-by-task retry: of no slot that holds
\* an answer, and of no stage that holds a result, was another one bought since;
\* and the answers kept for an iteration answer requests of its tasks, no request
\* more often than tasks made it (lm.py _run_journaled and batch_complete,
\* evaluation_journal.py evaluate).
Holding(request) == {s \in Stored : s[1] = i /\ journal[s].request = request}
PaidOnce ==
    /\ \A s \in Stored : bought[s] = journal[s].text
    /\ \A s \in Stages : evals[s] # Nothing => ran[s] = evals[s].result.run
    /\ feedback # Nothing /\ i \notin skewed \union touched =>
          \A s \in Stored : s[1] = i =>
              LET request == journal[s].request
              IN  Cardinality(Holding(request))
                    <= Cardinality({k \in 1..Jobs : Request(k) = request})

\* The cost of a language model is the cost of the answers its journal holds,
\* of all processes, and of this process's answers without content; while an
\* answer is being stored the two may differ (lm.py's counters at construction,
\* in __call__ and at the end of a batch; response_journal.py usage_totals).
CostAgrees ==
    journaled /\ at \notin {"down", "storeBatch", "storeSingle", "refused"}
        => cost = Cardinality(Stored) + uncounted

\* A recorded answer or result is never overwritten or dropped, over any number
\* of faults and resumes (response_journal.py store, evaluation_journal.py).
Answers == INSTANCE WriteOnceTable WITH Keys <- Slots, Empty <- Nothing, table <- journal
Results == INSTANCE WriteOnceTable WITH Keys <- Stages, Empty <- Nothing, table <- evals
AnswersKept == Answers!Spec
ResultsKept == Results!Spec

\* Both journals are write-once tables, the abstract specification that
\* WriteOnceTable states; a resume only ever adds to what they hold.
JournalsKept == AnswersKept /\ ResultsKept

\* However often it dies, a run whose language model has a journal comes to its
\* end or to a refusal, if all but finitely many of its processes live until one
\* answer or result that they paid for has got to its journal: a resume replays
\* what its predecessors paid for and goes further, instead of paying for the
\* same again for ever (lm.py, evaluation_journal.py, engine.py's checkpoint).
RunEnds == journaled => <>(at \in {"done", "refused"})

\* What the documentation of run_dir promises: the run resumes.
ResumeProceeds == at # "refused"
=============================================================================
