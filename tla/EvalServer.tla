------------------------------ MODULE EvalServer ------------------------------
(***************************************************************************)
(* The evaluation server of optimize_anything (oa/eval_server.py) and its  *)
(* budget (oa/budget.py) under concurrent callers: engine threads and HTTP *)
(* handlers call evaluate, evaluate_batch and evaluate_examples; the last  *)
(* fans out to the server's own thread pool. One action per critical       *)
(* section; a caller is bound by the evaluation semaphore between Acquire  *)
(* and the action that releases it.                                        *)
(*                                                                         *)
(* A candidate is identified by its caller. Every evaluate_examples call   *)
(* and every batch covers the same number of examples.                     *)
(***************************************************************************)
EXTENDS Integers, Sequences, FiniteSets, FiniteSetsExt

CONSTANTS
    Clients,         \* threads calling the server
    Workers,         \* threads of the pool
    None,            \* no client
    MaxConcurrency,  \* max_concurrency: permits of the semaphore
    MaxEvals,        \* BudgetTracker.max_evals
    Examples,        \* examples of a stage, pairs of a batch
    Scores,          \* scores of the user's evaluator
    Batches,         \* the server was given batch_evaluate (TRUE), was not, or either
    CanFail,         \* BOOLEAN: the user's functions may raise
    MaxCalls         \* bound: calls of one client

ASSUME ServerAssumption ==
    /\ MaxConcurrency \in Nat \ {0} /\ MaxEvals \in Nat \ {0} /\ Examples \in Nat \ {0}
    /\ Scores \subseteq Nat /\ Batches \subseteq BOOLEAN /\ CanFail \in BOOLEAN /\ MaxCalls \in Nat
    /\ Clients \intersect Workers = {} /\ None \notin Clients
    /\ IsFiniteSet(Clients) /\ IsFiniteSet(Workers)

VARIABLES
    hasBatch,        \* self.batch_evaluate is set
    ag,              \* what each thread is doing
    permits,         \* _eval_semaphore
    used,            \* budget._used
    log,             \* eval_log: [eval, score, by]
    best,            \* best_score, best_candidate
    files,           \* evals/<idx>.json: idx -> candidate
    todo,            \* examples submitted to the pool, per client
    tally,           \* outcomes of a stage's examples, per client
    outcome,         \* how each client's last call ended
    calls,           \* calls made, per client
    executed         \* pairs handed to the user's functions

vars == <<hasBatch, ag, permits, used, log, best, files, todo, tally, outcome, calls, executed>>

Agents == Clients \union Workers

\* grouped: evaluate_batch; staged: on behalf of evaluate_examples; left: pairs
\* not yet recorded; idx: the log entry to write.
Thread(p, g, s, n, c) ==
    [pc |-> p, grouped |-> g, staged |-> s, left |-> n, score |-> 0, idx |-> 0, for |-> c]

Idle == Thread("idle", FALSE, FALSE, 0, None)

Records == [pc : {"idle", "acquire", "check", "run", "fail", "record", "track", "write", "wait"},
            grouped : BOOLEAN, staged : BOOLEAN, left : 0..Examples,
            score : Nat, idx : Nat, for : Clients \union {None}]

NoTally == [ok |-> 0, failed |-> 0, refused |-> 0]

\* Code runs inside the semaphore until it is released: a grouped call gives it
\* up before it records.
Holding(a) ==
    \/ ag[a].pc \in {"check", "run", "fail"}
    \/ ag[a].pc \in {"record", "track", "write"} /\ ~ag[a].grouped

Exhausted == used >= MaxEvals

Init ==
    /\ hasBatch \in Batches
    /\ ag = [a \in Agents |-> Idle]
    /\ permits = MaxConcurrency
    /\ used = 0 /\ log = <<>> /\ files = <<>>
    /\ best = [score |-> -1, by |-> None]
    /\ todo = [c \in Clients |-> 0] /\ tally = [c \in Clients |-> NoTally]
    /\ outcome = [c \in Clients |-> "none"] /\ calls = [c \in Clients |-> 0]
    /\ executed = 0

-----------------------------------------------------------------------------
(* Calls.                                                                  *)

Call(c) ==
    /\ ag[c].pc = "idle" /\ calls[c] < MaxCalls
    /\ calls' = [calls EXCEPT ![c] = @ + 1]
    /\ UNCHANGED <<permits, used, log, best, files, executed, hasBatch>>

CallEvaluate(c) ==
    /\ Call(c)
    /\ ag' = [ag EXCEPT ![c] = Thread("acquire", FALSE, FALSE, 1, None)]
    /\ UNCHANGED <<todo, tally, outcome>>

CallBatch(c) ==
    /\ hasBatch /\ Call(c)
    /\ ag' = [ag EXCEPT ![c] = Thread("acquire", TRUE, FALSE, Examples, None)]
    /\ UNCHANGED <<todo, tally, outcome>>

\* The stage is submitted to the pool, one task per example.
FanOut(c) ==
    /\ ag' = [ag EXCEPT ![c] = Thread("wait", FALSE, TRUE, 0, None)]
    /\ todo' = [todo EXCEPT ![c] = Examples]
    /\ tally' = [tally EXCEPT ![c] = NoTally]
    /\ UNCHANGED outcome

\* evaluate_examples refuses a stage that does not fit, and prefers one grouped
\* call to the pool.
CallExamples(c) ==
    /\ Call(c)
    /\ \/ /\ MaxEvals - used < Examples
          /\ outcome' = [outcome EXCEPT ![c] = "exhausted"]
          /\ UNCHANGED <<ag, todo, tally>>
       \/ /\ MaxEvals - used >= Examples /\ hasBatch
          /\ ag' = [ag EXCEPT ![c] = Thread("acquire", TRUE, TRUE, Examples, None)]
          /\ UNCHANGED <<todo, tally, outcome>>
       \/ MaxEvals - used >= Examples /\ ~hasBatch /\ FanOut(c)

\* A pool thread takes a task and runs evaluate on it.
Take(w, c) ==
    /\ ag[w].pc = "idle" /\ todo[c] > 0
    /\ todo' = [todo EXCEPT ![c] = @ - 1]
    /\ ag' = [ag EXCEPT ![w] = Thread("acquire", FALSE, FALSE, 1, c)]
    /\ UNCHANGED <<permits, used, log, best, files, tally, outcome, calls, executed, hasBatch>>

-----------------------------------------------------------------------------
(* evaluate and evaluate_batch.                                            *)

\* The finally clause and what the caller makes of the outcome: evaluate_examples
\* falls back to the pool when its grouped call failed, and a pool task turns
\* every exception into a 0.0.
PermitsAfterMutant(a, how) == IF Holding(a) /\ how # "exhausted" THEN permits + 1 ELSE permits
PermitsAfter(a, how) == IF Holding(a) THEN permits + 1 ELSE permits

Leave(a, how) ==
    /\ permits' = PermitsAfter(a, how)
    /\ UNCHANGED <<calls, executed, hasBatch>>
    /\ \/ /\ a \in Workers
          /\ LET c == ag[a].for IN
             tally' = CASE how = "ok"        -> [tally EXCEPT ![c].ok = @ + 1]
                        [] how = "error"     -> [tally EXCEPT ![c].failed = @ + 1]
                        [] how = "exhausted" -> [tally EXCEPT ![c].refused = @ + 1]
          /\ ag' = [ag EXCEPT ![a] = Idle]
          /\ UNCHANGED <<todo, outcome>>
       \/ a \in Clients /\ ag[a].staged /\ how = "error" /\ FanOut(a)
       \/ /\ a \in Clients /\ ~(ag[a].staged /\ how = "error")
          /\ outcome' = [outcome EXCEPT ![a] = how]
          /\ ag' = [ag EXCEPT ![a] = Idle]
          /\ UNCHANGED <<todo, tally>>

Acquire(a) ==
    /\ ag[a].pc = "acquire" /\ permits > 0
    /\ permits' = permits - 1
    /\ ag' = [ag EXCEPT ![a].pc = "check"]
    /\ UNCHANGED <<used, log, best, files, todo, tally, outcome, calls, executed, hasBatch>>

\* budget.check, once per call; then the user's function gets all the pairs.
CheckMutant(a) ==
    /\ ag[a].pc = "check"
    /\ ag' = [ag EXCEPT ![a].pc = "run"]
    /\ executed' = executed + ag[a].left
    /\ UNCHANGED <<permits, used, log, best, files, todo, tally, outcome, calls, hasBatch>>
Check(a) ==
    /\ ag[a].pc = "check"
    /\ UNCHANGED <<used, log, best, files>>
    /\ \/ Exhausted /\ Leave(a, "exhausted")
       \/ /\ ~Exhausted
          /\ ag' = [ag EXCEPT ![a].pc = "run"]
          /\ executed' = executed + ag[a].left
          /\ UNCHANGED <<permits, todo, tally, outcome, calls, hasBatch>>

\* The user's function returns, or raises.
Return(a) ==
    /\ ag[a].pc = "run"
    /\ \E s \in Scores : ag' = [ag EXCEPT ![a].pc = "record", ![a].score = s]
    /\ permits' = IF ag[a].grouped THEN permits + 1 ELSE permits
    /\ UNCHANGED <<used, log, best, files, todo, tally, outcome, calls, executed, hasBatch>>

Raise(a) ==
    /\ ag[a].pc = "run" /\ CanFail
    /\ ag' = [ag EXCEPT ![a].pc = "fail"]
    /\ UNCHANGED <<permits, used, log, best, files, todo, tally, outcome, calls, executed, hasBatch>>

\* budget.record of one result.
RecordMutant(a) ==
    /\ ag[a].pc = "record"
    /\ UNCHANGED <<log, best, files>>
    /\ used' = IF Exhausted THEN used ELSE used + 1
    /\ ag' = [ag EXCEPT ![a].pc = "track"]
    /\ UNCHANGED <<permits, todo, tally, outcome, calls, executed, hasBatch>>
Record(a) ==
    /\ ag[a].pc = "record"
    /\ UNCHANGED <<log, best, files>>
    /\ \/ Exhausted /\ Leave(a, "exhausted") /\ UNCHANGED used
       \/ /\ ~Exhausted
          /\ used' = used + 1
          /\ ag' = [ag EXCEPT ![a].pc = "track"]
          /\ UNCHANGED <<permits, todo, tally, outcome, calls, executed, hasBatch>>

\* A failed evaluate costs one tick; if the budget ran out meanwhile, its record
\* raises in place of the user's exception.
RecordFailureMutant(a) ==
    /\ ag[a].pc = "fail" /\ ~ag[a].grouped
    /\ UNCHANGED <<log, best, files, used>>
    /\ Leave(a, "error")
RecordFailure(a) ==
    /\ ag[a].pc = "fail" /\ ~ag[a].grouped
    /\ UNCHANGED <<log, best, files>>
    /\ IF Exhausted THEN Leave(a, "exhausted") /\ UNCHANGED used
       ELSE Leave(a, "error") /\ used' = used + 1

\* A failed grouped call costs one tick per pair, as far as the budget goes.
RecordGroupFailure(a) ==
    /\ ag[a].pc = "fail" /\ ag[a].grouped
    /\ UNCHANGED <<log, best, files>>
    /\ IF Exhausted \/ ag[a].left = 0
       THEN Leave(a, "error") /\ UNCHANGED used
       ELSE /\ used' = used + 1
            /\ ag' = [ag EXCEPT ![a].left = @ - 1]
            /\ UNCHANGED <<permits, todo, tally, outcome, calls, executed, hasBatch>>

Candidate(a) == IF a \in Workers THEN ag[a].for ELSE a

\* _track, under _lock: the entry is stamped with the budget as it is now.  A
\* cost that is no number, or a summary that cannot be written, would raise here;
\* evaluators that give such a cost, and failing disks, are left out.
BetterMutant(s) == s >= best.score
Better(s) == s > best.score
IndexMutant(a) == used
Index(a) == Len(log) + 1

Track(a) ==
    /\ ag[a].pc = "track"
    /\ log' = Append(log, [eval |-> used, score |-> ag[a].score, by |-> Candidate(a)])
    /\ best' = IF Better(ag[a].score) THEN [score |-> ag[a].score, by |-> Candidate(a)] ELSE best
    /\ ag' = [ag EXCEPT ![a].pc = "write", ![a].idx = Index(a)]
    /\ UNCHANGED <<permits, used, files, todo, tally, outcome, calls, executed, hasBatch>>

\* _write_eval_record, under _io_lock: the code passes over a write that fails,
\* here every write succeeds; a grouped call goes on with its next pair.
WriteRecord(a) ==
    /\ ag[a].pc = "write"
    /\ files' = [i \in DOMAIN files \union {ag[a].idx} |->
                    IF i = ag[a].idx THEN Candidate(a) ELSE files[i]]
    /\ UNCHANGED <<used, log, best>>
    /\ IF ag[a].left = 1 THEN Leave(a, "ok")
       ELSE /\ \E s \in Scores : ag' = [ag EXCEPT ![a].pc = "record", ![a].left = @ - 1, ![a].score = s]
            /\ UNCHANGED <<permits, todo, tally, outcome, calls, executed, hasBatch>>

\* as_completed is through: the stage answers, zeros and all.
Done(c) == tally[c].ok + tally[c].failed + tally[c].refused

Gather(c) ==
    /\ ag[c].pc = "wait" /\ Done(c) = Examples
    /\ outcome' = [outcome EXCEPT ![c] = "ok"]
    /\ ag' = [ag EXCEPT ![c] = Idle]
    /\ UNCHANGED <<permits, used, log, best, files, todo, tally, calls, executed, hasBatch>>

Evaluating(a) ==
    \/ Acquire(a) \/ Check(a) \/ Return(a) \/ Raise(a) \/ Record(a)
    \/ RecordFailure(a) \/ RecordGroupFailure(a) \/ Track(a) \/ WriteRecord(a)

Running(a) ==
    \/ Evaluating(a)
    \/ a \in Clients /\ Gather(a)
    \/ a \in Workers /\ \E c \in Clients : Take(a, c)

Next ==
    \/ \E c \in Clients : CallEvaluate(c) \/ CallBatch(c) \/ CallExamples(c)
    \/ \E a \in Agents : Running(a)

\* Threads are scheduled fairly and the user's functions return or raise; a
\* waiter gets a permit that keeps becoming free (calls are finitely many).
Spec == Init /\ [][Next]_vars /\ \A a \in Agents : WF_vars(Running(a))

-----------------------------------------------------------------------------
(* Properties.                                                             *)

\* Pairs handed to the user's function and not yet recorded by a.
Unrecorded(a) ==
    CASE ag[a].pc \in {"run", "record", "fail"} -> ag[a].left
      [] ag[a].pc \in {"track", "write"} -> ag[a].left - 1
      [] OTHER -> 0

\* While the budget lasts every pair handed to the user's function, failed ones
\* included, is charged or still in flight: nothing is evaluated for free and
\* nothing is charged twice.
EveryPairCharged == ~Exhausted => executed = used + MapThenSumSet(Unrecorded, Agents)

\* What can be in flight at once: one pair per permit, or with grouped calls one
\* stage per client.
Width == IF hasBatch THEN Cardinality(Clients) * Examples ELSE MaxConcurrency

\* The cap is checked before the call and counted after it; the work done past
\* it is no more than what can be in flight.
OverrunBounded == executed <= MaxEvals - 1 + Width

\* However calls interleave, fail or fall back, the server is a ledger with a
\* width: it hands out work only while the budget lasts and no further ahead of
\* the charges than the width, charges only what it handed out, and logs a result
\* only after its charge, with the budget as it is then (budget.py check and
\* record, eval_server.py evaluate, evaluate_batch and _track).
Ledger == INSTANCE EvalLedger WITH Budget <- MaxEvals, width <- Width,
              handed <- executed, charged <- used, entries <- log
LedgerKept == Ledger!Spec

\* No path out of evaluate, evaluate_batch or their failures keeps a permit.
PermitsConserved == permits + Cardinality({a \in Agents : Holding(a)}) = MaxConcurrency

\* The log never runs ahead of the ledger, and its budget stamps never go back
\* although they are read outside the budget's lock (eval_server.py:547).
LogOrdered ==
    \A i \in DOMAIN log :
        /\ i <= log[i].eval /\ log[i].eval <= used
        /\ \A j \in 1..(i - 1) : log[j].eval <= log[i].eval

\* best_candidate is the first candidate that reached the best logged score.
BestIsFirst ==
    log # <<>> =>
        \E i \in DOMAIN log :
            /\ best = [score |-> log[i].score, by |-> log[i].by]
            /\ \A j \in DOMAIN log : log[j].score <= log[i].score
            /\ \A j \in 1..(i - 1) : log[j].score < log[i].score

\* evals/<idx>.json is written by the thread that owns entry idx, though the
\* index is taken under one lock and the file written under another; when
\* nobody is writing, every entry has its file.
FilesMatchLog ==
    /\ \A i \in DOMAIN files : i \in DOMAIN log /\ files[i] = log[i].by
    /\ (\A a \in Agents : ag[a].pc # "write") => DOMAIN files = DOMAIN log

\* Every call of every client returns.
CallsReturn == \A c \in Clients : ag[c].pc # "idle" ~> ag[c].pc = "idle"

\* eval_server.py: "A failed grouped call must not zero the whole stage": a stage
\* that falls back to the pool gets at least one of its examples evaluated.
StageNotZeroed == \A c \in Clients : tally[c].refused < Examples

=============================================================================
