----------------------------- MODULE ProgressLog -----------------------------
(***************************************************************************)
(* What oa/eval_server.py reports while it runs: the progress log with its  *)
(* candidate registry, and summary.json.  Engine threads and HTTP handlers  *)
(* call log_progress and finish evaluations (_track) at the same time; the  *)
(* tables change under _lock, the files under _io_lock, and the answer and  *)
(* the budget are read under neither.  One action per critical section or   *)
(* read; a file write is one action, since nothing else happens under its   *)
(* lock.  EvalServer has the budget, the semaphore and the record files.    *)
(***************************************************************************)
EXTENDS Integers, Sequences, SequencesExt

CONSTANTS
    Threads,       \* callers of the server
    Candidates,
    NoCandidate,   \* log_progress without a candidate
    Scores,
    NegInf,        \* float("-inf")
    MaxCalls,      \* bound: calls made
    Free           \* nobody holds the lock

ASSUME ProgressAssumption ==
    /\ Scores \subseteq Int /\ NegInf \in Int /\ \A s \in Scores : NegInf < s
    /\ NoCandidate \notin Candidates /\ Free \notin Threads /\ MaxCalls \in Nat

VARIABLES
    at,            \* what each thread is doing: a record with a pc
    lock,          \* the holder of _lock across two actions
    bestVal,       \* _best_val_score
    registry,      \* _candidate_registry: ids are positions
    progress,      \* _progress_log
    evalLog,       \* eval_log: scores and budget stamps
    bestScore,     \* best_score
    used,          \* budget.used
    candidateRows, \* candidates.jsonl: ids
    progressRows,  \* progress_log.jsonl: positions in progress
    summary,       \* summary.json: a snapshot, or the empty sequence
    answers,       \* the last answer of log_progress to each thread
    calls

vars == <<at, lock, bestVal, registry, progress, evalLog, bestScore, used, candidateRows,
          progressRows, summary, answers, calls>>

Idle == [pc |-> "idle"]
NoAnswer == [entry |-> 0, best |-> NegInf]

Init ==
    /\ at = [t \in Threads |-> Idle] /\ lock = Free
    /\ bestVal = NegInf /\ bestScore = NegInf /\ used = 0
    /\ registry = <<>> /\ progress = <<>> /\ evalLog = <<>>
    /\ candidateRows = <<>> /\ progressRows = <<>> /\ summary = <<>>
    /\ answers = [t \in Threads |-> NoAnswer]
    /\ calls = 0

Become(t, s) == at' = [at EXCEPT ![t] = s]

Higher(a, b) == IF a > b THEN a ELSE b

-----------------------------------------------------------------------------
(* log_progress.                                                             *)

CallProgress(t, cand, score) ==
    /\ at[t].pc = "idle" /\ calls < MaxCalls
    /\ calls' = calls + 1
    /\ Become(t, IF cand = NoCandidate THEN [pc |-> "enter", id |-> 0, score |-> score]
                 ELSE [pc |-> "register", cand |-> cand, score |-> score])
    /\ UNCHANGED <<lock, bestVal, registry, progress, evalLog, bestScore, used, candidateRows,
                   progressRows, summary, answers>>

\* _register_candidate under the lock: a known candidate keeps its id, a new
\* one still has to be written to candidates.jsonl.
IsKnownMutant(cand) == Len(registry) > 0 /\ registry[Len(registry)] = cand
IsKnown(cand) == \E k \in DOMAIN registry : registry[k] = cand
IdOf(cand) == CHOOSE k \in DOMAIN registry : registry[k] = cand

Register(t) ==
    /\ at[t].pc = "register" /\ lock = Free
    /\ \/ /\ IsKnown(at[t].cand)
          /\ Become(t, [pc |-> "enter", id |-> IdOf(at[t].cand), score |-> at[t].score])
          /\ UNCHANGED registry
       \/ /\ ~IsKnown(at[t].cand)
          /\ registry' = Append(registry, at[t].cand)
          /\ Become(t, [pc |-> "announce", id |-> Len(registry) + 1, score |-> at[t].score])
    /\ UNCHANGED <<lock, bestVal, progress, evalLog, bestScore, used, candidateRows, progressRows,
                   summary, answers, calls>>

WriteCandidate(t) ==
    /\ at[t].pc = "announce"
    /\ candidateRows' = Append(candidateRows, at[t].id)
    /\ Become(t, [pc |-> "enter", id |-> at[t].id, score |-> at[t].score])
    /\ UNCHANGED <<lock, bestVal, registry, progress, evalLog, bestScore, used, progressRows,
                   summary, answers, calls>>

\* The entry is made under the lock, with the best score as of then.
EntryMutant(t) == [val |-> at[t].score, best |-> bestVal, evals |-> used, id |-> at[t].id]
Entry(t) ==
    [val |-> at[t].score, best |-> Higher(bestVal, at[t].score), evals |-> used, id |-> at[t].id]

Enter(t) ==
    /\ at[t].pc = "enter" /\ lock = Free
    /\ bestVal' = Higher(bestVal, at[t].score)
    /\ progress' = Append(progress, Entry(t))
    /\ Become(t, [pc |-> "row", entry |-> Len(progress) + 1])
    /\ UNCHANGED <<lock, registry, evalLog, bestScore, used, candidateRows, progressRows, summary,
                   answers, calls>>

RowMutant(t) == Len(progress)
Row(t) == at[t].entry

WriteRow(t) ==
    /\ at[t].pc = "row"
    /\ progressRows' = Append(progressRows, Row(t))
    /\ Become(t, [pc |-> "answer", entry |-> at[t].entry])
    /\ UNCHANGED <<lock, bestVal, registry, progress, evalLog, bestScore, used, candidateRows,
                   summary, answers, calls>>

\* The best score is read once more for the answer, without the lock.
AnsweredMutant(t) == progress[progressRows[Len(progressRows)]].best
Answered(t) == bestVal

Answer(t) ==
    /\ at[t].pc = "answer"
    /\ answers' = [answers EXCEPT ![t] = [entry |-> at[t].entry, best |-> Answered(t)]]
    /\ Become(t, Idle)
    /\ UNCHANGED <<lock, bestVal, registry, progress, evalLog, bestScore, used, candidateRows,
                   progressRows, summary, calls>>

-----------------------------------------------------------------------------
(* The end of an evaluation.                                                 *)

\* budget.record, under the budget's own lock.
Charge(t, score) ==
    /\ at[t].pc = "idle" /\ calls < MaxCalls
    /\ calls' = calls + 1
    /\ used' = used + 1
    /\ Become(t, [pc |-> "track", score |-> score])
    /\ UNCHANGED <<lock, bestVal, registry, progress, evalLog, bestScore, candidateRows,
                   progressRows, summary, answers>>

\* _track under the lock: the entry with its stamp of the budget ...
Track(t) ==
    /\ at[t].pc = "track" /\ lock = Free
    /\ lock' = t
    /\ evalLog' = Append(evalLog, [score |-> at[t].score, eval |-> used])
    /\ bestScore' = Higher(bestScore, at[t].score)
    /\ Become(t, [pc |-> "snapshot"])
    /\ UNCHANGED <<bestVal, registry, progress, used, candidateRows, progressRows, summary,
                   answers, calls>>

\* ... and, still under it, the snapshot, which reads the budget once more.  The
\* code reads budget.used and budget.status() one after the other, here they are
\* one reading.
Snapshot == [entries |-> Len(evalLog), best |-> bestScore, evals |-> used]

TakeSnapshot(t) ==
    /\ at[t].pc = "snapshot"
    /\ lock' = Free
    /\ Become(t, [pc |-> "summary", snapshot |-> Snapshot])
    /\ UNCHANGED <<bestVal, registry, progress, evalLog, bestScore, used, candidateRows,
                   progressRows, summary, answers, calls>>

\* The file is replaced as a whole, by whichever writer comes last.
WrittenMutant(t) == [at[t].snapshot EXCEPT !.best = bestScore]
Written(t) == at[t].snapshot

WriteSummary(t) ==
    /\ at[t].pc = "summary"
    /\ summary' = <<Written(t)>>
    /\ Become(t, Idle)
    /\ UNCHANGED <<lock, bestVal, registry, progress, evalLog, bestScore, used, candidateRows,
                   progressRows, answers, calls>>

Step(t) ==
    \/ Register(t) \/ WriteCandidate(t) \/ Enter(t) \/ WriteRow(t) \/ Answer(t)
    \/ Track(t) \/ TakeSnapshot(t) \/ WriteSummary(t)

Next == \E t \in Threads :
    \/ Step(t)
    \/ \E score \in Scores :
          Charge(t, score) \/ \E cand \in Candidates \union {NoCandidate} : CallProgress(t, cand, score)

Spec == Init /\ [][Next]_vars

-----------------------------------------------------------------------------
(* Properties.                                                               *)

\* The progress log read from the start: every entry gives the best validation
\* score up to and including itself, and the budget spent never goes back,
\* although threads read the budget and their own scores long before.
BestOverTime ==
    \A j \in DOMAIN progress :
        /\ \E i \in 1..j : progress[j].best = progress[i].val
        /\ \A i \in 1..j : progress[i].val <= progress[j].best /\ progress[i].evals <= progress[j].evals

\* One candidate, one id, one row in candidates.jsonl; one row in
\* progress_log.jsonl for each entry, in some order.  What is missing is about
\* to be written, by a thread that another one overtook.
FilesResolve ==
    /\ IsInjective(registry) /\ IsInjective(candidateRows) /\ IsInjective(progressRows)
    /\ \A k \in DOMAIN registry :
          k \in Range(candidateRows) \/ \E t \in Threads : at[t].pc = "announce" /\ at[t].id = k
    /\ \A k \in DOMAIN progress :
          k \in Range(progressRows) \/ \E t \in Threads : at[t].pc = "row" /\ at[t].entry = k

\* The answer of log_progress, read late, never understates the entry that it
\* logged and never reports a score that nobody logged.
AnswersCoverEntry ==
    \A t \in Threads : answers[t].entry > 0 =>
        /\ answers[t].best >= progress[answers[t].entry].best
        /\ \E k \in DOMAIN progress : answers[t].best = progress[k].val

\* summary.json may be that of a slow writer, older than what it replaced, but
\* it is true of one moment: its best score is that of the evaluations it
\* counts, all of which had been charged.
SummaryIsConsistent ==
    summary # <<>> =>
        LET s == summary[1]
            scores == {evalLog[k].score : k \in 1..s.entries}
        IN  /\ s.best \in scores /\ \A x \in scores : x <= s.best
            /\ s.entries <= s.evals
            /\ evalLog[s.entries].eval <= s.evals /\ s.evals <= used
=============================================================================
