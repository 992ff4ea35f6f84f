--------------------------- MODULE EvalServer_proofs ---------------------------
(***************************************************************************)
(* The evaluation server's permits, log, best candidate and record files,  *)
(* the charge for every pair handed to the user's functions, the work done *)
(* past the cap, and its implementation of EvalLedger, for any number of   *)
(* callers and pool threads, any budget and any semaphore width. The sum   *)
(* over the threads is reasoned about by minimal counterexamples among the *)
(* subsets of a finite set.                                                *)
(***************************************************************************)
EXTENDS EvalServer, TLAPS, FiniteSetTheorems, WellFoundedInduction

\* A call under way has a pair left, until a failed grouped call has charged all.
Typed ==
    /\ ag \in [Agents -> Records]
    /\ \A a \in Agents : ag[a].pc \in {"idle", "wait", "fail"} \/ ag[a].left # 0
    /\ used \in 0..MaxEvals

Entries == [eval : Nat, score : Nat, by : Clients \union {None}]

LogTyped == log \in Seq(Entries)

\* The permits a thread in state r holds.
Held(r) ==
    IF \/ r.pc \in {"check", "run", "fail"}
       \/ r.pc \in {"record", "track", "write"} /\ ~r.grouped
    THEN 1 ELSE 0

\* What a step of thread a may do to the budget, the log and the best candidate.
Charges(a) ==
    /\ ag[a].pc # "track" /\ UNCHANGED <<log, best>>
    /\ \/ UNCHANGED used /\ ag[a]'.pc # "track"
       \/ used < MaxEvals /\ used' = used + 1
Tracks(a) ==
    /\ ag[a].pc = "track" /\ ag[a]'.pc # "track" /\ UNCHANGED used
    /\ log' = Append(log, [eval |-> used, score |-> ag[a].score, by |-> Candidate(a)])
    /\ best' = IF ag[a].score > best.score
               THEN [score |-> ag[a].score, by |-> Candidate(a)] ELSE best

\* A step moves one thread, balances the permits and does one of the two.
Moves(a) ==
    /\ ag' \in [Agents -> Records]
    /\ \A b \in Agents \ {a} : ag[b]' = ag[b]
    /\ ag[a]'.pc \in {"idle", "wait", "fail"} \/ ag[a]'.left # 0
    /\ permits' = permits + Held(ag[a]) - Held(ag[a]')
Effect(a) == Moves(a) /\ (Charges(a) \/ Tracks(a))

LEMMA ThreadTyped ==
  ASSUME NEW p \in {"idle", "wait", "acquire"}, NEW g \in BOOLEAN, NEW s \in BOOLEAN,
         NEW n \in 0..Examples, NEW c \in Clients \union {None}
  PROVE  /\ Thread(p, g, s, n, c) \in Records
         /\ Thread(p, g, s, n, c).pc = p /\ Thread(p, g, s, n, c).left = n
         /\ Held(Thread(p, g, s, n, c)) = 0
  BY DEF Thread, Records, Held

LEMMA HeldIsHolding ==
  /\ \A a : Held(ag[a]) = IF Holding(a) THEN 1 ELSE 0
  /\ \A r : Held(r) \in {0, 1}
  BY DEF Held, Holding

LEMMA Lefts == {0, 1, Examples} \subseteq 0..Examples /\ Examples # 0
  BY ServerAssumption

\* A thread put into a state that holds no permit.
LEMMA Released ==
  ASSUME Typed, NEW a \in Agents, NEW p \in {"idle", "wait", "acquire"}, NEW g \in BOOLEAN,
         NEW s \in BOOLEAN, NEW n \in 0..Examples, NEW c \in Clients \union {None},
         p = "acquire" => n # 0,
         permits \in Int, permits' = permits + Held(ag[a]),
         ag' = [ag EXCEPT ![a] = Thread(p, g, s, n, c)]
  PROVE  Moves(a) /\ ag[a]'.pc = p
<1>1. ag[a]' = Thread(p, g, s, n, c)
  BY DEF Typed
<1>2. ag' \in [Agents -> Records] /\ \A b \in Agents \ {a} : ag[b]' = ag[b]
  BY ThreadTyped DEF Typed
<1>3. permits' = permits + Held(ag[a]) - Held(ag[a]')
  <2>1. Held(ag[a]) \in Int /\ Held(ag[a]') = 0
    BY <1>1, ThreadTyped, HeldIsHolding
  <2> QED
    BY <2>1
<1> QED
  BY <1>1, <1>2, <1>3, ThreadTyped DEF Moves

\* Leaving a call gives back the permit and lets the thread rest or wait.
LEMMA LeaveMoves ==
  ASSUME Typed, permits \in Int, NEW a \in Agents, NEW how, Leave(a, how)
  PROVE  Moves(a) /\ ag[a]'.pc \in {"idle", "wait"}
<1>1. permits' = permits + Held(ag[a])
  BY HeldIsHolding DEF Leave, PermitsAfter
<1>2. CASE ag' = [ag EXCEPT ![a] = Idle]
  BY <1>1, <1>2, Lefts, Released DEF Idle
<1>3. CASE FanOut(a)
  BY <1>1, <1>3, Lefts, Released DEF FanOut
<1> QED
  BY <1>2, <1>3 DEF Leave

\* Every call starts outside the semaphore.
LEMMA CallEffect ==
  ASSUME Typed, permits \in Int, NEW c \in Clients,
         CallEvaluate(c) \/ CallBatch(c) \/ CallExamples(c)
  PROVE  Effect(c) /\ ag[c].pc = "idle" /\ ag[c]'.pc \in {"idle", "wait", "acquire"}
<1>1. c \in Agents /\ ag[c].pc = "idle" /\ ag[c] \in Records
  BY DEF Call, CallEvaluate, CallBatch, CallExamples, Agents, Typed
<1>2. Held(ag[c]) = 0
  BY <1>1 DEF Held
<1>3. UNCHANGED <<permits, used, log, best>>
  BY DEF Call, CallEvaluate, CallBatch, CallExamples
<1>4. permits' = permits + Held(ag[c])
  BY <1>2, <1>3
<1>5. Moves(c) /\ ag[c]'.pc \in {"idle", "wait", "acquire"}
  <2>1. CASE UNCHANGED ag
    <3>1. ag[c]' = ag[c] /\ \A b \in Agents \ {c} : ag[b]' = ag[b]
      BY <2>1
    <3>2. permits' = permits + Held(ag[c]) - Held(ag[c]')
      BY <1>2, <1>3, <3>1
    <3> QED
      BY <1>1, <2>1, <3>1, <3>2 DEF Typed, Moves
  <2>2. CASE CallEvaluate(c)
    <3>1. PICK n \in 0..Examples : n = 1
      BY Lefts
    <3>2. ag' = [ag EXCEPT ![c] = Thread("acquire", FALSE, FALSE, n, None)] /\ n # 0
      BY <2>2, <3>1 DEF CallEvaluate
    <3> QED
      BY <1>1, <1>4, <3>2, Released
  <2>3. CASE CallBatch(c)
    BY <1>1, <1>4, <2>3, Lefts, Released DEF CallBatch
  <2>4. CASE ag' = [ag EXCEPT ![c] = Thread("acquire", TRUE, TRUE, Examples, None)]
    BY <1>1, <1>4, <2>4, Lefts, Released
  <2>5. CASE FanOut(c)
    BY <1>1, <1>4, <2>5, Lefts, Released DEF FanOut
  <2> QED
    BY <2>1, <2>2, <2>3, <2>4, <2>5 DEF CallExamples
<1> QED
  BY <1>1, <1>3, <1>5 DEF Effect, Charges

\* One action of evaluate or evaluate_batch.
LEMMA EvaluatingEffect ==
  ASSUME Typed, LogTyped, permits \in Int, NEW a \in Agents, Evaluating(a)
  PROVE  Effect(a)
<1>1. ag[a] \in Records /\ (ag[a].pc \in {"idle", "wait", "fail"} \/ ag[a].left # 0)
  BY DEF Typed
<1>2. ASSUME NEW how, Leave(a, how), ag[a].pc # "track", UNCHANGED <<log, best>>,
             UNCHANGED used \/ (used < MaxEvals /\ used' = used + 1)
      PROVE  Effect(a)
  BY <1>2, LeaveMoves DEF Effect, Charges
<1>3. ~Exhausted <=> used < MaxEvals
  BY ServerAssumption DEF Typed, Exhausted
<1>4. \A n \in 0..Examples : n # 0 => n - 1 \in 0..Examples
  BY ServerAssumption
<1>5. CASE Acquire(a)
  <2>1. Moves(a)
    BY <1>1, <1>5 DEF Acquire, Typed, Records, Moves, Held
  <2> QED
    BY <1>1, <1>5, <2>1 DEF Acquire, Typed, Effect, Charges
<1>6. CASE Check(a)
  <2>1. CASE Exhausted /\ Leave(a, "exhausted")
    BY <1>2, <1>6, <2>1 DEF Check
  <2>2. CASE ag' = [ag EXCEPT ![a].pc = "run"] /\ UNCHANGED permits
    <3>1. Moves(a)
      BY <1>1, <1>6, <2>2 DEF Check, Typed, Records, Moves, Held
    <3> QED
      BY <1>1, <1>6, <2>2, <3>1 DEF Check, Typed, Effect, Charges
  <2> QED
    BY <1>6, <2>1, <2>2 DEF Check
<1>7. CASE Return(a)
  <2>1. PICK s \in Scores : ag' = [ag EXCEPT ![a].pc = "record", ![a].score = s]
    BY <1>7 DEF Return
  <2>2. /\ ag' \in [Agents -> Records] /\ \A b \in Agents \ {a} : ag[b]' = ag[b]
        /\ ag[a]'.pc = "record" /\ ag[a]'.left = ag[a].left /\ ag[a]'.grouped = ag[a].grouped
    <3>1. s \in Nat
      BY ServerAssumption
    <3> QED
      BY <1>1, <2>1, <3>1 DEF Typed, Records
  <2>3. ag[a].pc = "run" /\ permits' = (IF ag[a].grouped THEN permits + 1 ELSE permits)
    BY <1>7 DEF Return
  <2>4. Held(ag[a]) = 1 /\ Held(ag[a]') = (IF ag[a].grouped THEN 0 ELSE 1)
    BY <2>2, <2>3 DEF Held
  <2>5. Moves(a)
    BY <1>1, <2>2, <2>3, <2>4 DEF Moves
  <2> QED
    BY <1>7, <2>2, <2>3, <2>5 DEF Return, Effect, Charges
<1>8. CASE Raise(a)
  <2>1. Moves(a)
    BY <1>1, <1>8 DEF Raise, Typed, Records, Moves, Held
  <2> QED
    BY <1>1, <1>8, <2>1 DEF Raise, Typed, Effect, Charges
<1>9. CASE Record(a)
  <2>1. CASE Exhausted /\ Leave(a, "exhausted") /\ UNCHANGED used
    BY <1>2, <1>9, <2>1 DEF Record
  <2>2. CASE ~Exhausted /\ used' = used + 1 /\ ag' = [ag EXCEPT ![a].pc = "track"] /\ UNCHANGED permits
    <3>1. Moves(a)
      BY <1>1, <1>9, <2>2 DEF Record, Typed, Records, Moves, Held
    <3> QED
      BY <1>3, <1>9, <2>2, <3>1 DEF Record, Effect, Charges
  <2> QED
    BY <1>9, <2>1, <2>2 DEF Record
<1>10. CASE RecordFailure(a)
  BY <1>2, <1>3, <1>10 DEF RecordFailure
<1>11. CASE RecordGroupFailure(a)
  <2>1. CASE Leave(a, "error") /\ UNCHANGED used
    BY <1>2, <1>11, <2>1 DEF RecordGroupFailure
  <2>2. CASE /\ ~Exhausted /\ ag[a].left # 0 /\ used' = used + 1
             /\ ag' = [ag EXCEPT ![a].left = @ - 1] /\ UNCHANGED permits
    <3>1. ag[a].left - 1 \in 0..Examples
      BY <1>1, <1>4, <2>2 DEF Records
    <3>2. Moves(a)
      BY <1>1, <1>11, <2>2, <3>1 DEF RecordGroupFailure, Typed, Records, Moves, Held
    <3> QED
      BY <1>3, <1>11, <2>2, <3>2 DEF RecordGroupFailure, Effect, Charges
  <2> QED
    BY <1>11, <2>1, <2>2 DEF RecordGroupFailure
<1>12. CASE Track(a)
  <2>1. Index(a) \in Nat
    BY DEF LogTyped, Index
  <2>2. /\ ag' \in [Agents -> Records] /\ \A b \in Agents \ {a} : ag[b]' = ag[b]
        /\ ag[a]'.pc = "write" /\ ag[a]'.left = ag[a].left /\ ag[a]'.grouped = ag[a].grouped
    BY <1>1, <1>12, <2>1 DEF Track, Typed, Records
  <2>3. ag[a].pc = "track" /\ UNCHANGED permits /\ Held(ag[a]) = Held(ag[a]')
    BY <1>12, <2>2 DEF Track, Held
  <2>4. Moves(a)
    BY <1>1, <2>2, <2>3, HeldIsHolding DEF Moves
  <2> QED
    BY <1>12, <2>2, <2>4 DEF Track, Effect, Tracks, Better
<1>13. CASE WriteRecord(a)
  <2>1. CASE Leave(a, "ok")
    BY <1>2, <1>13, <2>1 DEF WriteRecord
  <2>2. CASE ag[a].left # 1 /\ UNCHANGED permits /\
             \E s \in Scores : ag' = [ag EXCEPT ![a].pc = "record", ![a].left = @ - 1, ![a].score = s]
    <3>1. ag[a].left - 1 \in 0..Examples /\ ag[a].left - 1 # 0
      BY <1>1, <1>4, <1>13, <2>2 DEF Records, WriteRecord
    <3>2. PICK s \in Scores : ag' = [ag EXCEPT ![a].pc = "record", ![a].left = @ - 1, ![a].score = s]
      BY <2>2
    <3>3. /\ ag' \in [Agents -> Records] /\ \A b \in Agents \ {a} : ag[b]' = ag[b]
          /\ ag[a]'.pc = "record" /\ ag[a]'.left # 0 /\ ag[a]'.grouped = ag[a].grouped
      BY <1>1, <3>1, <3>2 DEF Typed, Records
    <3>4. Held(ag[a]) = Held(ag[a]')
      BY <1>13, <3>3 DEF WriteRecord, Held
    <3>5. Moves(a)
      BY <2>2, <3>3, <3>4, HeldIsHolding DEF Moves
    <3> QED
      BY <1>13, <3>3, <3>5 DEF WriteRecord, Effect, Charges
  <2> QED
    BY <1>13, <2>1, <2>2 DEF WriteRecord
<1> QED
  BY <1>5, <1>6, <1>7, <1>8, <1>9, <1>10, <1>11, <1>12, <1>13 DEF Evaluating

\* A pool thread takes a task, a caller gathers its stage.
LEMMA HandoverEffect ==
  ASSUME Typed, permits \in Int, NEW a \in Agents,
         \/ a \in Clients /\ Gather(a)
         \/ a \in Workers /\ \E c \in Clients : Take(a, c)
  PROVE  Effect(a) /\ ag[a].pc \in {"idle", "wait"} /\ ag[a]'.pc \in {"idle", "acquire"}
<1>1. /\ ag[a].pc \in {"idle", "wait"} /\ UNCHANGED <<permits, used, log, best>>
      /\ \/ ag' = [ag EXCEPT ![a] = Thread("idle", FALSE, FALSE, 0, None)]
         \/ \E c \in Clients : ag' = [ag EXCEPT ![a] = Thread("acquire", FALSE, FALSE, 1, c)]
  BY DEF Gather, Take, Idle
<1>2. permits' = permits + Held(ag[a])
  BY <1>1 DEF Held
<1>3. Moves(a) /\ ag[a]'.pc \in {"idle", "acquire"}
  <2>1. CASE ag' = [ag EXCEPT ![a] = Thread("idle", FALSE, FALSE, 0, None)]
    BY <1>2, <2>1, Lefts, Released
  <2>2. ASSUME NEW c \in Clients, ag' = [ag EXCEPT ![a] = Thread("acquire", FALSE, FALSE, 1, c)]
        PROVE  Moves(a) /\ ag[a]'.pc = "acquire"
    <3>1. PICK n \in 0..Examples : n = 1
      BY Lefts
    <3>2. ag' = [ag EXCEPT ![a] = Thread("acquire", FALSE, FALSE, n, c)] /\ n # 0
      BY <2>2, <3>1
    <3> QED
      BY <1>2, <3>2, Released
  <2> QED
    BY <1>1, <2>1, <2>2
<1> QED
  BY <1>1, <1>3 DEF Effect, Charges

\* Every step of the server is the step of one thread.
LEMMA StepEffect ==
  ASSUME Typed, LogTyped, permits \in Int, Next
  PROVE  \E a \in Agents : Effect(a)
<1>1. ASSUME NEW c \in Clients, CallEvaluate(c) \/ CallBatch(c) \/ CallExamples(c)
      PROVE  Effect(c) /\ c \in Agents
  BY <1>1, CallEffect DEF Agents
<1>2. ASSUME NEW a \in Agents, Running(a) PROVE Effect(a)
  BY <1>2, EvaluatingEffect, HandoverEffect DEF Running
<1> QED
  BY <1>1, <1>2 DEF Next

\* Sets that differ in one element only.
LEMMA CountOne ==
  ASSUME NEW S, NEW T, IsFiniteSet(S), IsFiniteSet(T), NEW a, S \ {a} = T \ {a}
  PROVE  /\ Cardinality(S) \in Nat /\ Cardinality(T) \in Nat
         /\ Cardinality(T) = Cardinality(S) - (IF a \in S THEN 1 ELSE 0) + (IF a \in T THEN 1 ELSE 0)
<1>1. Cardinality(S \ {a}) = Cardinality(S) - (IF a \in S THEN 1 ELSE 0)
  BY FS_RemoveElement, FS_CardinalityType
<1>2. Cardinality(T \ {a}) = Cardinality(T) - (IF a \in T THEN 1 ELSE 0)
  BY FS_RemoveElement, FS_CardinalityType
<1>3. Cardinality(S) \in Nat /\ Cardinality(T) \in Nat
  BY FS_CardinalityType
<1>4. Cardinality(S \ {a}) = Cardinality(T \ {a})
  OBVIOUS
<1> QED
  BY <1>1, <1>2, <1>3, <1>4

LEMMA AgentsFinite ==
  ASSUME NEW S, S \subseteq Agents
  PROVE  IsFiniteSet(S) /\ Cardinality(S) \in Nat
  BY ServerAssumption, FS_Union, FS_Subset, FS_CardinalityType DEF Agents

-----------------------------------------------------------------------------
(* Permits.                                                                *)

Holders == {a \in Agents : Holding(a)}

PermitsInv == Typed /\ LogTyped /\ permits \in Int /\ PermitsConserved

LEMMA EffectTyped ==
  ASSUME Typed, LogTyped, permits \in Int, NEW a \in Agents, Effect(a)
  PROVE  Typed' /\ LogTyped' /\ permits' \in Int
<1>1. used' \in 0..MaxEvals
  BY ServerAssumption DEF Effect, Charges, Tracks, Typed
<1>2. Typed'
  <2> SUFFICES ASSUME NEW b \in Agents
               PROVE  ag[b]'.pc \in {"idle", "wait", "fail"} \/ ag[b]'.left # 0
    BY <1>1 DEF Effect, Moves, Typed
  <2> QED
    BY DEF Effect, Moves, Typed
<1>3. LogTyped'
  <2>1. CASE Charges(a)
    BY <2>1 DEF Charges, LogTyped
  <2>2. CASE Tracks(a)
    <3>1. used \in Nat /\ ag[a].score \in Nat
      BY ServerAssumption DEF Typed, Records
    <3>2. Candidate(a) \in Clients \union {None}
      BY DEF Typed, Records, Candidate, Agents
    <3>3. [eval |-> used, score |-> ag[a].score, by |-> Candidate(a)] \in Entries
      BY <3>1, <3>2 DEF Entries
    <3> QED
      BY <2>2, <3>3 DEF Tracks, LogTyped
  <2> QED
    BY <2>1, <2>2 DEF Effect
<1>4. permits' \in Int
  BY HeldIsHolding DEF Effect, Moves
<1> QED
  BY <1>2, <1>3, <1>4

LEMMA QuietTyped ==
  ASSUME Typed, LogTyped, permits \in Int, UNCHANGED vars
  PROVE  Typed' /\ LogTyped' /\ permits' \in Int
  BY DEF Typed, LogTyped, vars

LEMMA InitTyped ==
  ASSUME Init
  PROVE  /\ Typed /\ LogTyped /\ permits \in Int
         /\ \A a \in Agents : ag[a].pc = "idle"
         /\ log = <<>> /\ used = 0 /\ permits = MaxConcurrency /\ best.score = -1
<1>1. Idle \in Records /\ Idle.pc = "idle"
  BY ServerAssumption DEF Idle, Thread, Records
<1> QED
  BY <1>1, ServerAssumption DEF Init, Typed, LogTyped

\* permits and the threads holding one add up, on every path out of a call.
THEOREM PermitsNeverLeak == Spec => []PermitsConserved
<1>1. Init => PermitsInv
  <2> SUFFICES ASSUME Init PROVE PermitsInv
    OBVIOUS
  <2>1. \A a \in Agents : ~Holding(a)
    BY InitTyped DEF Holding
  <2>2. {a \in Agents : Holding(a)} = {}
    BY <2>1
  <2>3. Cardinality({a \in Agents : Holding(a)}) = 0
    BY <2>2, FS_EmptySet
  <2> QED
    BY <2>3, InitTyped, ServerAssumption DEF PermitsInv, PermitsConserved
<1>2. PermitsInv /\ [Next]_vars => PermitsInv'
  <2> SUFFICES ASSUME PermitsInv, [Next]_vars PROVE PermitsInv'
    OBVIOUS
  <2>1. CASE Next
    <3>1. PICK a \in Agents : Effect(a)
      BY <2>1, StepEffect DEF PermitsInv
    <3>2. Holders \ {a} = Holders' \ {a}
      BY <3>1 DEF Holders, Holding, Effect, Moves
    <3>3. Cardinality(Holders') = Cardinality(Holders)
            - (IF a \in Holders THEN 1 ELSE 0) + (IF a \in Holders' THEN 1 ELSE 0)
      <4>1. IsFiniteSet(Holders) /\ IsFiniteSet(Holders')
        BY AgentsFinite DEF Holders
      <4> QED
        BY <3>2, <4>1, CountOne
    <3>4. /\ Held(ag[a]) = (IF a \in Holders THEN 1 ELSE 0)
          /\ Held(ag[a]') = (IF a \in Holders' THEN 1 ELSE 0)
      BY DEF Held, Holding, Holders
    <3>5. permits + Cardinality(Holders) = MaxConcurrency /\ Cardinality(Holders) \in Nat
      BY AgentsFinite DEF PermitsInv, PermitsConserved, Holders
    <3>6. permits' + Cardinality(Holders') = MaxConcurrency
      BY <3>1, <3>3, <3>4, <3>5 DEF Effect, Moves, PermitsInv
    <3> QED
      BY <3>1, <3>6, EffectTyped DEF PermitsInv, PermitsConserved, Holders
  <2>2. CASE UNCHANGED vars
    <3>1. PermitsConserved'
      BY <2>2 DEF PermitsInv, PermitsConserved, Holding, vars
    <3> QED
      BY <2>2, <3>1, QuietTyped DEF PermitsInv
  <2> QED
    BY <2>1, <2>2
<1>3. PermitsInv => PermitsConserved
  BY DEF PermitsInv
<1> QED
  BY <1>1, <1>2, <1>3, PTL DEF Spec

-----------------------------------------------------------------------------
(* The log and the best candidate.                                         *)

\* Charged, not yet logged.
Tracking == {a \in Agents : ag[a].pc = "track"}

\* What makes LogOrdered inductive: every entry was charged, and so was every
\* result on its way to the log.
LogInv ==
    /\ Typed /\ LogTyped /\ permits \in Int
    /\ LogOrdered
    /\ Len(log) + Cardinality(Tracking) <= used

LEMMA LogShape ==
  ASSUME LogTyped
  PROVE  /\ Len(log) \in Nat /\ DOMAIN log = 1..Len(log)
         /\ \A i \in DOMAIN log : log[i].eval \in Nat /\ log[i].score \in Nat
<1>1. \A i \in DOMAIN log : log[i] \in Entries
  BY DEF LogTyped
<1> QED
  BY <1>1 DEF LogTyped, Entries

LEMMA LogGrows ==
  ASSUME LogTyped, NEW x, log' = Append(log, x)
  PROVE  /\ DOMAIN log' = 1..(Len(log) + 1) /\ Len(log') = Len(log) + 1 /\ log' # <<>>
         /\ \A i \in 1..Len(log) : log'[i] = log[i]
         /\ log'[Len(log) + 1] = x
  BY DEF LogTyped

\* The entry a step appends comes after all others.
LEMMA TrackKeepsOrder ==
  ASSUME LogTyped, LogOrdered, used \in Nat, Len(log) < used,
         NEW x, x.eval = used, log' = Append(log, x), UNCHANGED used
  PROVE  LogOrdered'
<1>1. /\ Len(log) \in Nat /\ DOMAIN log = 1..Len(log)
      /\ DOMAIN log' = 1..(Len(log) + 1)
      /\ \A i \in 1..Len(log) : log'[i] = log[i] /\ log[i].eval \in Nat
      /\ log'[Len(log) + 1] = x
  BY LogShape, LogGrows
<1> SUFFICES ASSUME NEW i \in 1..(Len(log) + 1)
             PROVE  /\ i <= log'[i].eval /\ log'[i].eval <= used
                    /\ \A j \in 1..(i - 1) : log'[j].eval <= log'[i].eval
  BY <1>1 DEF LogOrdered
<1>2. CASE i \in 1..Len(log)
  BY <1>1, <1>2 DEF LogOrdered
<1>3. CASE i = Len(log) + 1
  BY <1>1, <1>3 DEF LogOrdered
<1> QED
  BY <1>1, <1>2, <1>3

LEMMA LogInvHolds == Spec => []LogInv
<1>1. Init => LogInv
  <2> SUFFICES ASSUME Init PROVE LogInv
    OBVIOUS
  <2>1. Tracking = {}
    BY InitTyped DEF Tracking
  <2>2. Cardinality(Tracking) = 0 /\ Len(log) = 0 /\ used = 0
    BY <2>1, InitTyped, FS_EmptySet
  <2> QED
    BY <2>2, InitTyped DEF LogInv, LogOrdered
<1>2. LogInv /\ [Next]_vars => LogInv'
  <2> SUFFICES ASSUME LogInv, [Next]_vars PROVE LogInv'
    OBVIOUS
  <2>1. CASE Next
    <3>1. PICK a \in Agents : Effect(a)
      BY <2>1, StepEffect DEF LogInv
    <3>2. /\ Cardinality(Tracking) \in Nat
          /\ Cardinality(Tracking') = Cardinality(Tracking)
               - (IF a \in Tracking THEN 1 ELSE 0) + (IF a \in Tracking' THEN 1 ELSE 0)
      <4>1. IsFiniteSet(Tracking) /\ IsFiniteSet(Tracking')
        BY AgentsFinite DEF Tracking
      <4>2. Tracking \ {a} = Tracking' \ {a}
        BY <3>1 DEF Tracking, Effect, Moves
      <4> QED
        BY <4>1, <4>2, CountOne
    <3>3. Len(log) \in Nat /\ used \in Nat
      BY ServerAssumption DEF LogInv, LogTyped, Typed
    <3>4. CASE Charges(a)
      <4>1. a \notin Tracking /\ Len(log') = Len(log)
        BY <3>4 DEF Charges, Tracking
      <4>2. \/ used' = used /\ a \notin Tracking'
            \/ used' = used + 1
        BY <3>4 DEF Charges, Tracking
      <4>3. Len(log') + Cardinality(Tracking') <= used'
        BY <3>2, <3>3, <4>1, <4>2 DEF LogInv
      <4>4. LogOrdered'
        <5> SUFFICES ASSUME NEW i \in DOMAIN log
                     PROVE  log[i].eval <= used'
          BY <3>4 DEF Charges, LogInv, LogOrdered
        <5>1. log[i].eval \in Nat /\ log[i].eval <= used
          BY LogShape DEF LogInv, LogOrdered
        <5> QED
          BY <3>3, <4>2, <5>1
      <4> QED
        BY <3>1, <4>3, <4>4, EffectTyped DEF LogInv
    <3>5. CASE Tracks(a)
      <4>1. a \in Tracking /\ a \notin Tracking'
        BY <3>5 DEF Tracks, Tracking
      <4>2. Cardinality(Tracking) # 0
        BY <4>1, AgentsFinite, FS_EmptySet DEF Tracking
      <4>3. Len(log') = Len(log) + 1 /\ used' = used
        BY <3>5 DEF Tracks, LogInv, LogTyped
      <4>4. Len(log') + Cardinality(Tracking') <= used'
        BY <3>2, <3>3, <4>1, <4>3 DEF LogInv
      <4>5. Len(log) < used
        BY <3>2, <3>3, <4>2 DEF LogInv
      <4>6. LogOrdered'
        BY <3>3, <3>5, <4>5, TrackKeepsOrder DEF LogInv, Tracks
      <4> QED
        BY <3>1, <4>4, <4>6, EffectTyped DEF LogInv
    <3> QED
      BY <3>1, <3>4, <3>5 DEF Effect
  <2>2. CASE UNCHANGED vars
    <3>1. LogOrdered' /\ Tracking' = Tracking
      BY <2>2 DEF LogInv, LogOrdered, Tracking, vars
    <3> QED
      BY <2>2, <3>1, QuietTyped DEF LogInv, vars
  <2> QED
    BY <2>1, <2>2
<1> QED
  BY <1>1, <1>2, PTL DEF Spec

\* The log never runs ahead of the ledger and its stamps never go back.
THEOREM LogStaysOrdered == Spec => []LogOrdered
<1>1. LogInv => LogOrdered
  BY DEF LogInv
<1> QED
  BY <1>1, LogInvHolds, PTL

\* The best candidate: what BestIsFirst says, and -1 as long as nothing is logged.
BestInv ==
    /\ Typed /\ LogTyped /\ permits \in Int
    /\ BestIsFirst
    /\ log = <<>> => best.score = -1

LEMMA BestWitness ==
  ASSUME NEW i \in DOMAIN log', best' = [score |-> log'[i].score, by |-> log'[i].by],
         \A j \in DOMAIN log' : log'[j].score <= log'[i].score,
         \A j \in 1..(i - 1) : log'[j].score < log'[i].score
  PROVE  BestIsFirst'
  BY DEF BestIsFirst

\* best_candidate is the first that reached the best score of the log.
THEOREM BestStaysFirst == Spec => []BestIsFirst
<1>1. Init => BestInv
  BY InitTyped DEF BestInv, BestIsFirst
<1>2. BestInv /\ [Next]_vars => BestInv'
  <2> SUFFICES ASSUME BestInv, [Next]_vars PROVE BestInv'
    OBVIOUS
  <2>1. ASSUME NEW a \in Agents, Effect(a), Charges(a) PROVE BestInv'
    <3>1. UNCHANGED <<log, best>>
      BY <2>1 DEF Charges
    <3>2. BestIsFirst' /\ (log = <<>> => best.score = -1)'
      BY <3>1 DEF BestInv, BestIsFirst
    <3> QED
      BY <2>1, <3>2, EffectTyped DEF BestInv
  <2>2. ASSUME NEW a \in Agents, Effect(a), Tracks(a) PROVE BestInv'
    <3> DEFINE s == ag[a].score
               n == Len(log) + 1
    <3>1. /\ Len(log) \in Nat /\ DOMAIN log = 1..Len(log)
          /\ DOMAIN log' = 1..n /\ log' # <<>>
          /\ \A i \in 1..Len(log) : log'[i] = log[i] /\ log[i].score \in Nat
          /\ log'[n].score = s /\ log'[n].by = Candidate(a)
      <4> DEFINE x == [eval |-> used, score |-> s, by |-> Candidate(a)]
      <4>1. log' = Append(log, x) /\ x.score = s /\ x.by = Candidate(a)
        BY <2>2 DEF Tracks
      <4> HIDE DEF x, s
      <4> QED
        BY <4>1, LogShape, LogGrows DEF BestInv
    <3>2. s \in Nat
      BY ServerAssumption DEF BestInv, Typed, Records
    <3>3. best' = IF s > best.score THEN [score |-> s, by |-> Candidate(a)] ELSE best
      BY <2>2 DEF Tracks
    <3> HIDE DEF s, n
    <3>4. ASSUME log = <<>> PROVE BestIsFirst'
      <4>1. Len(log) = 0 /\ n = 1 /\ best.score = -1
        BY <3>4 DEF BestInv, n
      <4>2. best' = [score |-> log'[1].score, by |-> log'[1].by] /\ DOMAIN log' = {1}
        BY <3>1, <3>2, <3>3, <4>1
      <4>3. 1 \in DOMAIN log' /\ 1..(1 - 1) = {}
        BY <4>2
      <4>4. \A j \in DOMAIN log' : log'[j].score <= log'[1].score
        BY <3>1, <3>2, <4>1, <4>2
      <4>5. \A j \in 1..(1 - 1) : log'[j].score < log'[1].score
        BY <4>3
      <4> QED
        BY <4>2, <4>3, <4>4, <4>5, BestWitness
    <3>5. ASSUME log # <<>> PROVE BestIsFirst'
      <4>1. PICK i \in DOMAIN log :
              /\ best = [score |-> log[i].score, by |-> log[i].by]
              /\ \A j \in DOMAIN log : log[j].score <= log[i].score
              /\ \A j \in 1..(i - 1) : log[j].score < log[i].score
        BY <3>5 DEF BestInv, BestIsFirst
      <4>2. CASE s > log[i].score
        <5>1. best' = [score |-> log'[n].score, by |-> log'[n].by]
          BY <3>1, <3>3, <4>1, <4>2
        <5>2. \A j \in 1..Len(log) : log'[j].score < s
          BY <3>1, <3>2, <4>1, <4>2
        <5>3. n \in DOMAIN log' /\ n - 1 = Len(log)
          BY <3>1 DEF n
        <5>4. \A j \in DOMAIN log' : log'[j].score <= log'[n].score
          BY <3>1, <3>2, <5>2 DEF n
        <5>5. \A j \in 1..(n - 1) : log'[j].score < log'[n].score
          BY <3>1, <5>2, <5>3
        <5> QED
          BY <5>1, <5>3, <5>4, <5>5, BestWitness
      <4>3. CASE ~(s > log[i].score)
        <5>1. best' = [score |-> log'[i].score, by |-> log'[i].by]
          BY <3>1, <3>3, <4>1, <4>3
        <5>2. \A j \in 1..n : log'[j].score <= log'[i].score
          <6>1. log'[n].score <= log'[i].score
            BY <3>1, <3>2, <4>1, <4>3
          <6>2. ASSUME NEW j \in 1..Len(log) PROVE log'[j].score <= log'[i].score
            BY <3>1, <4>1
          <6> QED
            BY <3>1, <6>1, <6>2 DEF n
        <5>3. \A j \in 1..(i - 1) : log'[j].score < log'[i].score
          BY <3>1, <4>1
        <5>4. i \in DOMAIN log'
          BY <3>1 DEF n
        <5>5. \A j \in DOMAIN log' : log'[j].score <= log'[i].score
          BY <3>1, <5>2
        <5> QED
          BY <5>1, <5>3, <5>4, <5>5, BestWitness
      <4> QED
        BY <4>2, <4>3
    <3> QED
      BY <2>2, <3>1, <3>4, <3>5, EffectTyped DEF BestInv
  <2>3. CASE UNCHANGED vars
    <3>1. BestIsFirst' /\ (log = <<>> => best.score = -1)'
      BY <2>3 DEF BestInv, BestIsFirst, vars
    <3> QED
      BY <2>3, <3>1, QuietTyped DEF BestInv
  <2> QED
    BY <2>1, <2>2, <2>3, StepEffect DEF BestInv, Effect
<1>3. BestInv => BestIsFirst
  BY DEF BestInv
<1> QED
  BY <1>1, <1>2, <1>3, PTL DEF Spec

-----------------------------------------------------------------------------
(* The record files.                                                       *)

\* A step of thread a takes an index and leaves its file to be written, or
\* writes the file, or does neither.
TakesIndex(a) ==
    /\ ag[a].pc = "track" /\ ag[a]'.pc = "write"
    /\ ag[a]'.idx = Len(log) + 1 /\ ag[a]'.for = ag[a].for
    /\ \E x : x.by = Candidate(a) /\ log' = Append(log, x)
    /\ UNCHANGED files
WritesFile(a) ==
    /\ ag[a].pc = "write" /\ ag[a]'.pc # "write"
    /\ files' = [i \in DOMAIN files \union {ag[a].idx} |->
                    IF i = ag[a].idx THEN Candidate(a) ELSE files[i]]
    /\ UNCHANGED log
NoFile(a) == ag[a].pc # "write" /\ ag[a]'.pc # "write" /\ UNCHANGED <<log, files>>

LEMMA StepFile ==
  ASSUME Typed, LogTyped, permits \in Int, Next
  PROVE  \E a \in Agents : Effect(a) /\ (TakesIndex(a) \/ WritesFile(a) \/ NoFile(a))
<1>1. ASSUME NEW c \in Clients, CallEvaluate(c) \/ CallBatch(c) \/ CallExamples(c)
      PROVE  c \in Agents /\ Effect(c) /\ NoFile(c)
  <2>1. UNCHANGED <<log, files>>
    BY <1>1 DEF Call, CallEvaluate, CallBatch, CallExamples
  <2> QED
    BY <1>1, <2>1, CallEffect DEF Agents, NoFile
<1>2. ASSUME NEW a \in Agents,
             \/ a \in Clients /\ Gather(a)
             \/ a \in Workers /\ \E c \in Clients : Take(a, c)
      PROVE  Effect(a) /\ NoFile(a)
  <2>1. UNCHANGED <<log, files>>
    BY <1>2 DEF Gather, Take
  <2> QED
    BY <1>2, <2>1, HandoverEffect DEF NoFile
<1>3. ASSUME NEW a \in Agents, Evaluating(a)
      PROVE  Effect(a) /\ (TakesIndex(a) \/ WritesFile(a) \/ NoFile(a))
  <2>0. Effect(a) /\ ag[a] \in Records /\ ag[a]' \in Records
    BY <1>3, EvaluatingEffect DEF Typed, Effect, Moves
  <2>1. ASSUME NEW how, Leave(a, how) PROVE ag[a]'.pc # "write"
    BY <2>1, LeaveMoves
  <2>2. ASSUME NEW p \in {"check", "run", "fail", "record", "track"},
               \/ ag' = [ag EXCEPT ![a].pc = p]
               \/ \E s \in Scores : ag' = [ag EXCEPT ![a].pc = p, ![a].score = s]
               \/ \E s \in Scores : ag' = [ag EXCEPT ![a].pc = p, ![a].left = @ - 1, ![a].score = s]
        PROVE  ag[a]'.pc # "write"
    BY <2>2 DEF Typed, Records
  <2>3. CASE Acquire(a)
    BY <2>0, <2>2, <2>3 DEF Acquire, NoFile
  <2>4. CASE Check(a)
    BY <2>0, <2>1, <2>2, <2>4 DEF Check, NoFile
  <2>5. CASE Return(a)
    BY <2>0, <2>2, <2>5 DEF Return, NoFile
  <2>6. CASE Raise(a)
    BY <2>0, <2>2, <2>6 DEF Raise, NoFile
  <2>7. CASE Record(a)
    BY <2>0, <2>1, <2>2, <2>7 DEF Record, NoFile
  <2>8. CASE RecordFailure(a)
    BY <2>0, <2>1, <2>8 DEF RecordFailure, NoFile
  <2>9. CASE RecordGroupFailure(a)
    <3>1. CASE ag' = [ag EXCEPT ![a].left = @ - 1]
      <4>1. ag[a]'.pc = ag[a].pc /\ ag[a].pc = "fail"
        BY <2>0, <2>9, <3>1 DEF RecordGroupFailure, Typed, Records
      <4> QED
        BY <2>0, <2>9, <4>1 DEF RecordGroupFailure, NoFile
    <3> QED
      BY <2>0, <2>1, <2>9, <3>1 DEF RecordGroupFailure, NoFile
  <2>10. CASE Track(a)
    <3>1. ag[a]'.pc = "write" /\ ag[a]'.idx = Len(log) + 1 /\ ag[a]'.for = ag[a].for
      BY <2>0, <2>10 DEF Track, Index, Typed, Records
    <3>2. \E x : x.by = Candidate(a) /\ log' = Append(log, x)
      <4> WITNESS [eval |-> used, score |-> ag[a].score, by |-> Candidate(a)]
      <4> QED  BY <2>10 DEF Track
    <3> QED
      BY <2>0, <2>10, <3>1, <3>2 DEF Track, TakesIndex
  <2>11. CASE WriteRecord(a)
    <3>1. ag[a]'.pc # "write"
      BY <2>1, <2>2, <2>11 DEF WriteRecord
    <3> QED
      BY <2>0, <2>11, <3>1 DEF WriteRecord, WritesFile
  <2> QED
    BY <1>3, <2>3, <2>4, <2>5, <2>6, <2>7, <2>8, <2>9, <2>10, <2>11 DEF Evaluating
<1> QED
  BY <1>1, <1>2, <1>3 DEF Next, Running

\* An entry has its file or a thread that is about to write it, and a thread
\* writes the file of an entry of its own candidate.
Writing(a, i) == ag[a].pc = "write" /\ ag[a].idx = i
FileInv ==
    /\ Typed /\ LogTyped /\ permits \in Int
    /\ \A i \in DOMAIN files : i \in DOMAIN log /\ files[i] = log[i].by
    /\ \A a \in Agents : ag[a].pc = "write" =>
          ag[a].idx \in DOMAIN log /\ log[ag[a].idx].by = Candidate(a)
    /\ \A i \in DOMAIN log : i \in DOMAIN files \/ \E a \in Agents : Writing(a, i)

\* Every entry of the log has its file, or will have it.
THEOREM FilesFollowLog == Spec => []FilesMatchLog
<1>1. Init => FileInv
  BY InitTyped DEF FileInv, Init
<1>2. FileInv /\ [Next]_vars => FileInv'
  <2> SUFFICES ASSUME FileInv, [Next]_vars PROVE FileInv'
    OBVIOUS
  <2>0. ASSUME NEW a \in Agents, Effect(a)
        PROVE  /\ Typed' /\ LogTyped' /\ (permits \in Int)'
               /\ \A b \in Agents \ {a} : ag[b]' = ag[b] /\ Candidate(b)' = Candidate(b)
    BY <2>0, EffectTyped DEF FileInv, Effect, Moves, Candidate
  <2>1. ASSUME NEW a \in Agents, Effect(a), TakesIndex(a) PROVE FileInv'
    <3>1. PICK x : x.by = Candidate(a) /\ log' = Append(log, x)
      BY <2>1 DEF TakesIndex
    <3>2. /\ DOMAIN log = 1..Len(log) /\ Len(log) \in Nat
          /\ DOMAIN log' = 1..(Len(log) + 1)
          /\ \A i \in DOMAIN log : log'[i] = log[i]
          /\ log'[Len(log) + 1].by = Candidate(a)
      BY <3>1, LogShape, LogGrows DEF FileInv
    <3>3. Candidate(a)' = Candidate(a) /\ ag[a]'.pc = "write" /\ ag[a]'.idx = Len(log) + 1 /\ files' = files
      BY <2>1 DEF TakesIndex, Candidate
    <3>4. \A i \in DOMAIN files' : i \in DOMAIN log' /\ files'[i] = log'[i].by
      BY <3>2, <3>3 DEF FileInv
    <3>5. ASSUME NEW b \in Agents, ag[b]'.pc = "write"
          PROVE  ag[b]'.idx \in DOMAIN log' /\ log'[ag[b]'.idx].by = Candidate(b)'
      <4>1. CASE b = a
        BY <3>2, <3>3, <4>1
      <4>2. CASE b # a
        BY <2>0, <2>1, <3>2, <3>5, <4>2 DEF FileInv
      <4> QED  BY <4>1, <4>2
    <3>6. ASSUME NEW i \in DOMAIN log', i \notin DOMAIN files'
          PROVE  \E b \in Agents : Writing(b, i)'
      <4>1. CASE i = Len(log) + 1
        BY <3>3, <4>1 DEF Writing
      <4>2. CASE i \in DOMAIN log
        <5>1. PICK b \in Agents : Writing(b, i)
          BY <3>3, <3>6, <4>2 DEF FileInv
        <5>2. b # a
          BY <2>1, <5>1 DEF TakesIndex, Writing
        <5> QED
          BY <2>0, <2>1, <5>1, <5>2 DEF Writing
      <4> QED  BY <3>2, <4>1, <4>2
    <3> QED
      BY <2>0, <2>1, <3>4, <3>5, <3>6 DEF FileInv
  <2>2. ASSUME NEW a \in Agents, Effect(a), WritesFile(a) PROVE FileInv'
    <3> DEFINE n == ag[a].idx
    <3>1. n \in DOMAIN log /\ log[n].by = Candidate(a) /\ log' = log /\ ag[a].pc = "write"
      BY <2>2 DEF WritesFile, FileInv
    <3>2. /\ DOMAIN files' = DOMAIN files \union {n}
          /\ files'[n] = Candidate(a)
          /\ \A i \in DOMAIN files : i # n => files'[i] = files[i]
      BY <2>2 DEF WritesFile
    <3>3. \A i \in DOMAIN files' : i \in DOMAIN log' /\ files'[i] = log'[i].by
      BY <3>1, <3>2 DEF FileInv
    <3>4. ASSUME NEW b \in Agents, ag[b]'.pc = "write"
          PROVE  ag[b]'.idx \in DOMAIN log' /\ log'[ag[b]'.idx].by = Candidate(b)'
      <4>1. b # a
        BY <2>2, <3>4 DEF WritesFile
      <4> QED
        BY <2>0, <2>2, <3>1, <3>4, <4>1 DEF FileInv
    <3>5. ASSUME NEW i \in DOMAIN log', i \notin DOMAIN files'
          PROVE  \E b \in Agents : Writing(b, i)'
      <4>1. PICK b \in Agents : Writing(b, i)
        BY <3>1, <3>2, <3>5 DEF FileInv
      <4>2. b # a
        BY <3>2, <3>5, <4>1 DEF Writing
      <4> QED
        BY <2>0, <2>2, <4>1, <4>2 DEF Writing
    <3> QED
      BY <2>0, <2>2, <3>3, <3>4, <3>5 DEF FileInv
  <2>3. ASSUME NEW a \in Agents, Effect(a), NoFile(a) PROVE FileInv'
    <3>1. \A b \in Agents : ag[b].pc = "write" \/ ag[b]'.pc = "write" =>
              ag[b]' = ag[b] /\ Candidate(b)' = Candidate(b)
      BY <2>0, <2>3 DEF NoFile
    <3>2. UNCHANGED <<log, files>>
      BY <2>3 DEF NoFile
    <3>3. \A i : \A b \in Agents : Writing(b, i) => Writing(b, i)'
      BY <3>1 DEF Writing
    <3> QED
      BY <2>0, <2>3, <3>1, <3>2, <3>3 DEF FileInv
  <2>4. CASE UNCHANGED vars
    BY <2>4, QuietTyped DEF FileInv, Writing, Candidate, vars
  <2> QED
    BY <2>1, <2>2, <2>3, <2>4, StepFile DEF FileInv
<1>3. FileInv => FilesMatchLog
  BY DEF FileInv, FilesMatchLog, Writing
<1> QED
  BY <1>1, <1>2, <1>3, PTL DEF Spec

-----------------------------------------------------------------------------
(* Sums over a finite set.                                                 *)

Some(s) == CHOOSE x \in s : TRUE

\* The equation a sum over the subsets of S solves.
IsSum(it, f, S) ==
    it = [s \in SUBSET S |-> IF s = {} THEN 0 ELSE f[Some(s)] + it[s \ {Some(s)}]]

Sum(f, S) == (CHOOSE it : IsSum(it, f, S))[S]

\* Induction over the subsets of a finite set: a set of subsets that is not
\* empty has one of which no proper subset is in it.
LEMMA MinimalSubset ==
  ASSUME NEW S, IsFiniteSet(S), NEW Bad, Bad \subseteq SUBSET S, Bad # {}
  PROVE  \E T \in Bad : IsFiniteSet(T) /\ \A U \in SUBSET T : U # T => U \notin Bad
<1>1. IsWellFoundedOn(StrictSubsetOrdering(S), FiniteSubsetsOf(S))
  BY FS_StrictSubsetOrderingWellFounded
<1>2. Bad \subseteq FiniteSubsetsOf(S)
  BY FS_Subset DEF FiniteSubsetsOf
<1>3. \E T \in Bad : \A U \in Bad : <<U, T>> \notin StrictSubsetOrdering(S)
  BY <1>1, <1>2, WFMin
<1> QED
  BY <1>2, <1>3 DEF StrictSubsetOrdering, FiniteSubsetsOf

LEMMA SomeIsIn == ASSUME NEW s, s # {} PROVE Some(s) \in s
  BY DEF Some

\* Two solutions agree where both are defined.
LEMMA SumUnique ==
  ASSUME NEW S, IsFiniteSet(S), NEW f, NEW g, NEW it, NEW jt, IsSum(it, f, S),
         NEW T, T \subseteq S, IsSum(jt, g, T), \A x \in T : f[x] = g[x]
  PROVE  it[T] = jt[T]
<1> DEFINE Bad == {s \in SUBSET T : it[s] # jt[s]}
<1> SUFFICES ASSUME Bad # {} PROVE FALSE
  OBVIOUS
<1>1. IsFiniteSet(T)
  BY FS_Subset
<1>2. PICK s \in Bad : \A U \in SUBSET s : U # s => U \notin Bad
  <2>1. Bad \subseteq SUBSET T
    OBVIOUS
  <2> HIDE DEF Bad
  <2> QED
    BY <1>1, <2>1, MinimalSubset
<1>3. /\ it[s] = IF s = {} THEN 0 ELSE f[Some(s)] + it[s \ {Some(s)}]
      /\ jt[s] = IF s = {} THEN 0 ELSE g[Some(s)] + jt[s \ {Some(s)}]
  BY DEF IsSum
<1>4. CASE s = {}
  BY <1>3, <1>4
<1>5. CASE s # {}
  <2>1. Some(s) \in s
    BY <1>5, SomeIsIn
  <2>2. s \ {Some(s)} \notin Bad
    BY <1>2, <2>1
  <2>3. it[s \ {Some(s)}] = jt[s \ {Some(s)}]
    BY <2>2
  <2>4. f[Some(s)] = g[Some(s)]
    BY <2>1
  <2> QED
    BY <1>3, <1>5, <2>3, <2>4
<1> QED
  BY <1>4, <1>5

\* The equation has a solution.
LEMMA SumExists ==
  ASSUME NEW S, IsFiniteSet(S), NEW f
  PROVE  \E it : IsSum(it, f, S)
<1> DEFINE Bad == {T \in SUBSET S : ~ \E it : IsSum(it, f, T)}
<1> SUFFICES ASSUME Bad # {} PROVE FALSE
  OBVIOUS
<1>1. PICK T \in Bad : IsFiniteSet(T) /\ \A U \in SUBSET T : U # T => U \notin Bad
  <2>1. Bad \subseteq SUBSET S
    OBVIOUS
  <2> HIDE DEF Bad
  <2> QED
    BY <2>1, MinimalSubset
<1>2. \A U \in SUBSET T : U # T => \E it : IsSum(it, f, U)
  BY <1>1
<1> DEFINE part == [U \in SUBSET T |-> CHOOSE it : IsSum(it, f, U)]
           h == [s \in SUBSET T |-> IF s = {} THEN 0 ELSE f[Some(s)] + part[s \ {Some(s)}][s \ {Some(s)}]]
<1>3. \A U \in SUBSET T : U # T => IsSum(part[U], f, U)
  BY <1>2
<1>4. \A U \in SUBSET T : U # T => h[U] = part[U][U]
  <2> SUFFICES ASSUME NEW U \in SUBSET T, U # T PROVE h[U] = part[U][U]
    OBVIOUS
  <2>1. part[U][U] = IF U = {} THEN 0 ELSE f[Some(U)] + part[U][U \ {Some(U)}]
    <3> HIDE DEF part
    <3> QED BY <1>3 DEF IsSum
  <2>2. ASSUME U # {} PROVE part[U][U \ {Some(U)}] = part[U \ {Some(U)}][U \ {Some(U)}]
    <3> DEFINE V == U \ {Some(U)}
    <3>1. V \in SUBSET T /\ V # T /\ V \subseteq U
      BY <2>2, SomeIsIn
    <3>2. IsSum(part[U], f, U) /\ IsSum(part[V], f, V)
      BY <1>3, <3>1
    <3>3. IsFiniteSet(U)
      BY <1>1, FS_Subset
    <3> HIDE DEF V, part
    <3> QED
      BY <3>1, <3>2, <3>3, SumUnique DEF V
  <2> HIDE DEF part
  <2> QED
    BY <2>1, <2>2
<1>5. IsSum(h, f, T)
  <2>1. \A s \in SUBSET T : s # {} => h[s \ {Some(s)}] = part[s \ {Some(s)}][s \ {Some(s)}]
    <3> SUFFICES ASSUME NEW s \in SUBSET T, s # {}
                 PROVE  h[s \ {Some(s)}] = part[s \ {Some(s)}][s \ {Some(s)}]
      OBVIOUS
    <3>1. s \ {Some(s)} \in SUBSET T /\ s \ {Some(s)} # T
      BY SomeIsIn
    <3> HIDE DEF h, part
    <3> QED
      BY <1>4, <3>1
  <2>2. h = [s \in SUBSET T |-> IF s = {} THEN 0 ELSE f[Some(s)] + h[s \ {Some(s)}]]
    <3> HIDE DEF part
    <3>0. h = [s \in SUBSET T |-> IF s = {} THEN 0 ELSE f[Some(s)] + part[s \ {Some(s)}][s \ {Some(s)}]]
      OBVIOUS
    <3> HIDE DEF h
    <3> QED BY <2>1, <3>0
  <2> HIDE DEF h
  <2> QED
    BY <2>2 DEF IsSum
<1> HIDE DEF h
<1> QED
  BY <1>1, <1>5

LEMMA SumSolves ==
  ASSUME NEW S, IsFiniteSet(S), NEW f
  PROVE  /\ Sum(f, {}) = 0
         /\ S # {} => Sum(f, S) = f[Some(S)] + Sum(f, S \ {Some(S)})
<1> DEFINE it(T) == CHOOSE jt : IsSum(jt, f, T)
<1>1. \A T \in SUBSET S : IsSum(it(T), f, T)
  BY SumExists, FS_Subset
<1>2. \A T \in SUBSET S : it(S)[T] = it(T)[T]
  <2> HIDE DEF it
  <2> QED BY <1>1, SumUnique
<1>3. \A T \in SUBSET S : Sum(f, T) = it(T)[T]
  BY DEF Sum
<1> HIDE DEF it
<1>4. it(S)[{}] = 0 /\ (S # {} => it(S)[S] = f[Some(S)] + it(S)[S \ {Some(S)}])
  BY <1>1 DEF IsSum
<1> QED
  BY <1>2, <1>3, <1>4

\* Sums over the same values are the same.
LEMMA SumSame ==
  ASSUME NEW S, IsFiniteSet(S), NEW f, NEW g, \A x \in S : f[x] = g[x]
  PROVE  Sum(f, S) = Sum(g, S)
<1>1. IsSum(CHOOSE it : IsSum(it, f, S), f, S) /\ IsSum(CHOOSE it : IsSum(it, g, S), g, S)
  BY SumExists
<1> QED
  BY <1>1, SumUnique DEF Sum

\* Any element may be summed first.
LEMMA SumSplits ==
  ASSUME NEW S, IsFiniteSet(S), NEW f, \A x \in S : f[x] \in Nat
  PROVE  /\ Sum(f, S) \in Nat
         /\ \A x \in S : Sum(f, S) = f[x] + Sum(f, S \ {x}) /\ Sum(f, S \ {x}) \in Nat
<1> DEFINE Good(T) == /\ Sum(f, T) \in Nat
                      /\ \A x \in T : Sum(f, T) = f[x] + Sum(f, T \ {x}) /\ Sum(f, T \ {x}) \in Nat
           Bad == {T \in SUBSET S : ~Good(T)}
<1> SUFFICES ASSUME Bad # {} PROVE FALSE
  OBVIOUS
<1>1. PICK T \in Bad : IsFiniteSet(T) /\ \A U \in SUBSET T : U # T => U \notin Bad
  <2>1. Bad \subseteq SUBSET S
    OBVIOUS
  <2> HIDE DEF Bad
  <2> QED
    BY <2>1, MinimalSubset
<1>2. /\ T \subseteq S /\ ~Good(T)
      /\ \A U \in SUBSET T : U # T => Good(U)
  BY <1>1
<1> DEFINE y == Some(T)
<1> HIDE DEF Bad
<1>3. CASE T = {}
  <2>1. Sum(f, T) = 0
    BY <1>1, <1>3, SumSolves
  <2>2. Good(T)
    BY <1>3, <2>1
  <2> QED
    BY <1>2, <2>2
<1>4. CASE T # {}
  <2>1. y \in T /\ Sum(f, T) = f[y] + Sum(f, T \ {y})
    BY <1>1, <1>4, SomeIsIn, SumSolves
  <2>2. f[y] \in Nat /\ Good(T \ {y})
    <3>1. T \ {y} \in SUBSET T /\ T \ {y} # T /\ y \in S
      BY <1>2, <2>1
    <3> HIDE DEF y, Good
    <3> QED
      BY <1>2, <3>1
  <2>3. Sum(f, T) \in Nat
    BY <2>1, <2>2
  <2>4. ASSUME NEW x \in T, x # y
        PROVE  Sum(f, T) = f[x] + Sum(f, T \ {x}) /\ Sum(f, T \ {x}) \in Nat
    <3>1. Good(T \ {x}) /\ y \in T \ {x} /\ x \in T \ {y}
      BY <1>2, <2>1, <2>4
    <3>2. (T \ {x}) \ {y} = (T \ {y}) \ {x}
      OBVIOUS
    <3>3. /\ Sum(f, T \ {x}) = f[y] + Sum(f, (T \ {x}) \ {y}) /\ Sum(f, T \ {x}) \in Nat
          /\ Sum(f, (T \ {x}) \ {y}) \in Nat
      BY <3>1
    <3>4. Sum(f, T \ {y}) = f[x] + Sum(f, (T \ {y}) \ {x})
      BY <2>2, <3>1
    <3>5. f[x] \in Nat /\ f[y] \in Nat
      BY <1>2, <2>2, <2>4
    <3>6. Sum(f, T) = f[y] + Sum(f, T \ {y}) /\ Sum(f, (T \ {y}) \ {x}) = Sum(f, (T \ {x}) \ {y})
      BY <2>1, <3>2
    <3> HIDE DEF y, Good
    <3> QED
      BY <3>3, <3>4, <3>5, <3>6
  <2>5. Good(T)
    BY <2>1, <2>2, <2>3, <2>4
  <2> QED
    BY <1>2, <2>5
<1> QED
  BY <1>3, <1>4

\* A sum changes by what one of its values changes by.
LEMMA SumMoves ==
  ASSUME NEW S, IsFiniteSet(S), NEW a \in S, NEW f, NEW g,
         \A x \in S : f[x] \in Nat /\ g[x] \in Nat, \A x \in S \ {a} : f[x] = g[x]
  PROVE  Sum(f, S) \in Nat /\ Sum(g, S) \in Nat /\ Sum(g, S) = Sum(f, S) + g[a] - f[a]
<1>1. /\ Sum(f, S) = f[a] + Sum(f, S \ {a}) /\ Sum(f, S \ {a}) \in Nat
      /\ Sum(g, S) = g[a] + Sum(g, S \ {a}) /\ Sum(g, S \ {a}) \in Nat
  BY SumSplits
<1>2. Sum(f, S \ {a}) = Sum(g, S \ {a})
  BY FS_RemoveElement, SumSame
<1> QED
  BY <1>1, <1>2

LEMMA SumUnion ==
  ASSUME NEW S, NEW R, IsFiniteSet(S), IsFiniteSet(R), S \intersect R = {},
         NEW f, \A x \in S \union R : f[x] \in Nat
  PROVE  Sum(f, S \union R) = Sum(f, S) + Sum(f, R)
<1> DEFINE Bad == {T \in SUBSET R : Sum(f, S \union T) # Sum(f, S) + Sum(f, T)}
<1> SUFFICES ASSUME Bad # {} PROVE FALSE
  OBVIOUS
<1>1. PICK T \in Bad : IsFiniteSet(T) /\ \A U \in SUBSET T : U # T => U \notin Bad
  <2>1. Bad \subseteq SUBSET R
    OBVIOUS
  <2> HIDE DEF Bad
  <2> QED
    BY <2>1, MinimalSubset
<1>2. Sum(f, S) \in Nat
  BY SumSplits
<1>5. T \subseteq R /\ Sum(f, S \union T) # Sum(f, S) + Sum(f, T)
  BY <1>1
<1>3. CASE T = {}
  <2>1. Sum(f, T) = 0 /\ S \union T = S
    BY <1>1, <1>3, SumSolves
  <2>2. Sum(f, S \union T) = Sum(f, S)
    BY <2>1, Zenon
  <2> QED
    BY <1>2, <1>5, <2>1, <2>2
<1>4. CASE T # {}
  <2>1. PICK x : x \in T
    BY <1>4
  <2>2. Sum(f, S \union (T \ {x})) = Sum(f, S) + Sum(f, T \ {x})
    BY <1>1, <2>1
  <2>3. Sum(f, T) = f[x] + Sum(f, T \ {x}) /\ Sum(f, T \ {x}) \in Nat /\ f[x] \in Nat
    BY <1>1, <2>1, SumSplits
  <2>4. IsFiniteSet(S \union T) /\ (S \union T) \ {x} = S \union (T \ {x})
    BY <1>1, <2>1, FS_Union
  <2>5. Sum(f, S \union T) = f[x] + Sum(f, S \union (T \ {x}))
    BY <2>1, <2>4, SumSplits
  <2> QED
    BY <1>1, <1>2, <2>2, <2>3, <2>5
<1> QED
  BY <1>3, <1>4

\* Values of at most m add up to at most m for each that is not zero.
LEMMA SumBounded ==
  ASSUME NEW S, IsFiniteSet(S), NEW m \in Nat, NEW f, \A x \in S : f[x] \in 0..m
  PROVE  Sum(f, S) <= m * Cardinality({x \in S : f[x] # 0})
<1> DEFINE Count(T) == Cardinality({x \in T : f[x] # 0})
           Bad == {T \in SUBSET S : ~(Sum(f, T) <= m * Count(T))}
<1> SUFFICES ASSUME Bad # {} PROVE FALSE
  OBVIOUS
<1>1. PICK T \in Bad : IsFiniteSet(T) /\ \A U \in SUBSET T : U # T => U \notin Bad
  <2>1. Bad \subseteq SUBSET S
    OBVIOUS
  <2> HIDE DEF Bad
  <2> QED
    BY <2>1, MinimalSubset
<1>2. CASE T = {}
  <2>1. Sum(f, T) = 0 /\ Count(T) = 0
    <3>1. {x \in T : f[x] # 0} = {}
      BY <1>2
    <3> QED
      BY <1>1, <1>2, <3>1, SumSolves, FS_EmptySet
  <2> HIDE DEF Count
  <2> QED
    BY <1>1, <2>1
<1>3. CASE T # {}
  <2>1. PICK x : x \in T
    BY <1>3
  <2>2. Sum(f, T \ {x}) <= m * Count(T \ {x})
    BY <1>1, <2>1
  <2>3. Sum(f, T) = f[x] + Sum(f, T \ {x}) /\ Sum(f, T \ {x}) \in Nat /\ f[x] \in 0..m
    BY <1>1, <2>1, SumSplits
  <2>4. Count(T \ {x}) \in Nat /\ Count(T) = Count(T \ {x}) + (IF f[x] # 0 THEN 1 ELSE 0)
    <3> DEFINE N == {z \in T \ {x} : f[z] # 0}
    <3>1. IsFiniteSet(N) /\ Cardinality(N) \in Nat /\ x \notin N
      BY <1>1, FS_Subset, FS_CardinalityType
    <3>2. {z \in T : f[z] # 0} = IF f[x] # 0 THEN N \union {x} ELSE N
      BY <2>1
    <3>3. Cardinality(N \union {x}) = Cardinality(N) + 1
      <4> HIDE DEF N
      <4> QED BY <3>1, FS_AddElement
    <3>4. Count(T \ {x}) = Cardinality(N)
      OBVIOUS
    <3>5. Count(T) = Cardinality(IF f[x] # 0 THEN N \union {x} ELSE N)
      BY <3>2, Zenon
    <3> HIDE DEF N, Count
    <3> QED
      BY <3>1, <3>3, <3>4, <3>5
  <2> HIDE DEF Count
  <2>5. PICK k \in Nat : k = Count(T \ {x})
    BY <2>4
  <2>6. m * (k + 1) = m * k + m /\ m * k \in Nat
    OBVIOUS
  <2> QED
    BY <1>1, <2>2, <2>3, <2>4, <2>5, <2>6
<1> QED
  BY <1>2, <1>3

\* If the values of each owner add up to at most m, all of them add up to at
\* most m per owner.
LEMMA SumByOwner ==
  ASSUME NEW A, IsFiniteSet(A), NEW C, IsFiniteSet(C), NEW owner \in [A -> C],
         NEW m \in Nat, NEW f, \A x \in A : f[x] \in Nat,
         \A c \in C : Sum(f, {x \in A : owner[x] = c}) <= m
  PROVE  Sum(f, A) <= Cardinality(C) * m
<1> DEFINE Of(D) == {x \in A : owner[x] \in D}
           Bad == {D \in SUBSET C : ~(Sum(f, Of(D)) <= Cardinality(D) * m)}
<1>0. Of(C) = A
  OBVIOUS
<1> SUFFICES ASSUME Bad # {} PROVE FALSE
  BY <1>0
<1>1. PICK D \in Bad : IsFiniteSet(D) /\ \A U \in SUBSET D : U # D => U \notin Bad
  <2>1. Bad \subseteq SUBSET C
    OBVIOUS
  <2> HIDE DEF Bad
  <2> QED
    BY <2>1, MinimalSubset
<1>2. CASE D = {}
  <2>1. Of(D) = {} /\ Cardinality(D) = 0
    BY <1>2, FS_EmptySet
  <2>2. Sum(f, Of(D)) = 0
    BY <2>1, FS_EmptySet, SumSolves
  <2>3. ~(Sum(f, Of(D)) <= Cardinality(D) * m)
    BY <1>1
  <2> HIDE DEF Of, Bad
  <2> QED
    BY <2>1, <2>2, <2>3
<1>3. CASE D # {}
  <2>1. PICK c : c \in D
    BY <1>3
  <2> DEFINE E == D \ {c}
             one == {x \in A : owner[x] = c}
  <2>2. Sum(f, Of(E)) <= Cardinality(E) * m
    BY <1>1, <2>1
  <2>3. Cardinality(E) \in Nat /\ Cardinality(D) = Cardinality(E) + 1
    <3>1. IsFiniteSet(D)
      BY <1>1
    <3> HIDE DEF Bad
    <3>2. IsFiniteSet(E) /\ Cardinality(E) = Cardinality(D) - 1
      BY <2>1, <3>1, FS_RemoveElement
    <3>3. Cardinality(E) \in Nat /\ Cardinality(D) \in Nat
      BY <3>1, <3>2, FS_CardinalityType
    <3> QED
      BY <3>2, <3>3
  <2>4. /\ IsFiniteSet(Of(E)) /\ IsFiniteSet(one)
        /\ Of(E) \intersect one = {} /\ Of(E) \union one = Of(D)
    BY <2>1, FS_Subset
  <2>5. Sum(f, Of(D)) = Sum(f, Of(E)) + Sum(f, one)
    <3>1. \A x \in Of(E) \union one : f[x] \in Nat
      OBVIOUS
    <3> HIDE DEF Of, E, one
    <3> QED
      BY <2>4, <3>1, SumUnion
  <2>6. Sum(f, one) <= m /\ Sum(f, one) \in Nat /\ Sum(f, Of(E)) \in Nat
    <3>1. (\A x \in Of(E) : f[x] \in Nat) /\ (\A x \in one : f[x] \in Nat) /\ c \in C
      BY <2>1
    <3>2. Sum(f, one) <= m
      BY <3>1
    <3> HIDE DEF Of, E, one
    <3> QED
      BY <2>4, <3>1, <3>2, SumSplits
  <2>7. ~(Sum(f, Of(D)) <= Cardinality(D) * m)
    BY <1>1
  <2> HIDE DEF Of, E, one
  <2>8. PICK k \in Nat : k = Cardinality(E)
    BY <2>3
  <2>9. (k + 1) * m = k * m + m /\ k * m \in Nat
    OBVIOUS
  <2> QED
    BY <2>2, <2>3, <2>5, <2>6, <2>7, <2>8, <2>9
<1> QED
  BY <1>2, <1>3

-----------------------------------------------------------------------------
(* What is in flight.                                                      *)

\* The function whose values EveryPairCharged adds up.
Load == [a \in Agents |-> Unrecorded(a)]

LEMMA LoadIsSum == MapThenSumSet(Unrecorded, Agents) = Sum(Load, Agents)
<1> DEFINE P(it) == it = [s \in SUBSET Agents |->
                            IF s = {} THEN 0
                            ELSE Unrecorded(CHOOSE x \in s : TRUE) + it[s \ {CHOOSE x \in s : TRUE}]]
<1>0. IsFiniteSet(Agents)
  BY AgentsFinite
<1>1. MapThenSumSet(Unrecorded, Agents) = (CHOOSE it : P(it))[Agents]
  BY DEF MapThenSumSet, MapThenFoldSet
<1>2. \A it : P(it) <=> IsSum(it, Load, Agents)
  <2>1. \A s \in SUBSET Agents : s # {} => Unrecorded(Some(s)) = Load[Some(s)]
    BY SomeIsIn DEF Load
  <2> QED
    BY <2>1 DEF IsSum, Some
<1>3. \E it : P(it)
  <2> HIDE DEF P
  <2> QED
    BY <1>0, <1>2, SumExists
<1>4. P(CHOOSE it : P(it))
  <2> HIDE DEF P
  <2> QED
    BY <1>3
<1>5. PICK jt : jt = CHOOSE it : P(it)
  OBVIOUS
<1>6. IsSum(jt, Load, Agents)
  <2> HIDE DEF P
  <2> QED
    BY <1>2, <1>4, <1>5
<1>7. IsSum(CHOOSE it : IsSum(it, Load, Agents), Load, Agents)
  BY <1>0, SumExists
<1> HIDE DEF P
<1> QED
  BY <1>0, <1>1, <1>5, <1>6, <1>7, SumUnique DEF Sum

\* A single call has one pair, a grouped one is a client's, and a pool thread
\* works for a client.
Shape(a) ==
    /\ ag[a].grouped => hasBatch /\ a \in Clients
    /\ ~ag[a].grouped /\ ag[a].pc \notin {"idle", "wait"} => ag[a].left = 1
    /\ a \in Workers => ag[a].pc # "wait" /\ (ag[a].for \in Clients <=> ag[a].pc # "idle")
Shaped == hasBatch \in BOOLEAN /\ \A a \in Agents : Shape(a)

\* The pool threads on a stage, and the examples of a stage: submitted, taken
\* or done.
Tasks(c) == {w \in Workers : ag[w].for = c}
Booked(c) ==
    IF ag[c].pc = "wait" THEN todo[c] + Cardinality(Tasks(c)) + Done(c) = Examples
    ELSE todo[c] = 0 /\ Tasks(c) = {}
Tallies == [ok : Nat, failed : Nat, refused : Nat]
Staged ==
    /\ todo \in [Clients -> Nat] /\ tally \in [Clients -> Tallies]
    /\ \A c \in Clients : Booked(c)

\* What a step of thread a does to the stages.
Opens(a) ==
    /\ a \in Clients /\ ag[a].pc # "wait" /\ ag[a]'.pc = "wait"
    /\ todo' = [todo EXCEPT ![a] = Examples]
    /\ tally' = [tally EXCEPT ![a] = NoTally]
Closes(a) ==
    /\ a \in Clients /\ ag[a].pc = "wait" /\ Done(a) = Examples /\ ag[a]'.pc = "idle"
    /\ UNCHANGED <<todo, tally>>
Takes(a) ==
    /\ a \in Workers /\ ag[a].for \notin Clients
    /\ \E c \in Clients : /\ ag[a]'.for = c /\ todo[c] > 0
                          /\ todo' = [todo EXCEPT ![c] = @ - 1]
    /\ UNCHANGED tally
Ends(a) ==
    /\ a \in Workers /\ ag[a].for \in Clients /\ ag[a]'.for \notin Clients
    /\ LET c == ag[a].for IN
       tally' \in {[tally EXCEPT ![c].ok = @ + 1], [tally EXCEPT ![c].failed = @ + 1],
                   [tally EXCEPT ![c].refused = @ + 1]}
    /\ UNCHANGED todo
Stays(a) ==
    /\ a \in Workers => ag[a]'.for = ag[a].for
    /\ a \in Clients => ag[a].pc # "wait" /\ ag[a]'.pc # "wait"
    /\ UNCHANGED <<todo, tally>>
Stages(a) == Opens(a) \/ Closes(a) \/ Takes(a) \/ Ends(a) \/ Stays(a)

\* What it does to the pairs: what is charged leaves those in flight, and only
\* a check that found budget left adds to them.
Accounts(a) ==
    /\ used' < MaxEvals => executed' - executed = (used' - used) + (Unrecorded(a)' - Unrecorded(a))
    /\ executed' = executed \/ (used < MaxEvals /\ used' = used)

\* A thread at work has no more pairs in flight than its call has.
LEMMA UnrecordedTyped ==
  ASSUME Typed, NEW a \in Agents
  PROVE  Unrecorded(a) \in 0..Examples
<1>1. ag[a] \in Records /\ (ag[a].pc \in {"idle", "wait", "fail"} \/ ag[a].left # 0)
  BY DEF Typed
<1>2. ag[a].left \in 0..Examples /\ Examples \in Nat
  BY <1>1, ServerAssumption DEF Records
<1>3. ag[a].pc \in {"track", "write"} => ag[a].left - 1 \in 0..Examples
  BY <1>1, <1>2
<1> QED
  BY <1>2, <1>3, ServerAssumption DEF Unrecorded

LEMMA UnrecordedLater ==
  ASSUME Typed', NEW a \in Agents
  PROVE  Unrecorded(a)' \in Nat
<1>1. ag'[a] \in Records /\ (ag'[a].pc \in {"idle", "wait", "fail"} \/ ag'[a].left # 0)
  BY DEF Typed
<1>2. ag'[a].left \in Nat
  BY <1>1, ServerAssumption DEF Records
<1>3. ag'[a].pc \in {"track", "write"} => ag'[a].left - 1 \in Nat
  BY <1>1, <1>2
<1> QED
  BY <1>2, <1>3 DEF Unrecorded

\* A call that ends has nothing in flight any more, and its stage is told.
LEMMA LeaveEnds ==
  ASSUME Typed, Shaped, permits \in Nat, NEW a \in Agents, ag[a].pc \notin {"idle", "wait"},
         NEW how \in {"ok", "error", "exhausted"}, Leave(a, how)
  PROVE  /\ Unrecorded(a)' = 0 /\ Shape(a)' /\ Stages(a)
         /\ permits' \in Nat /\ UNCHANGED <<executed, hasBatch>>
<1>0. Shape(a) /\ a \in DOMAIN ag
  BY DEF Shaped, Typed
<1>1. permits' \in Nat /\ UNCHANGED <<executed, hasBatch>>
  BY DEF Leave, PermitsAfter
<1>2. CASE a \in Workers
  <2>1. ag[a]' = Idle
    BY <1>0, <1>2, ServerAssumption DEF Leave
  <2>2. UNCHANGED todo /\
        LET c == ag[a].for IN
          tally' \in {[tally EXCEPT ![c].ok = @ + 1], [tally EXCEPT ![c].failed = @ + 1],
                   [tally EXCEPT ![c].refused = @ + 1]}
    BY <1>2, ServerAssumption DEF Leave
  <2>3. Idle.pc = "idle" /\ Idle.for = None /\ ~Idle.grouped
    BY DEF Idle, Thread
  <2>4. Ends(a)
    BY <1>0, <1>2, <2>1, <2>2, <2>3, ServerAssumption DEF Ends, Shape
  <2>5. Shape(a)' /\ Unrecorded(a)' = 0
    BY <1>2, <2>1, <2>3, ServerAssumption DEF Shape, Unrecorded
  <2> QED
    BY <1>1, <2>4, <2>5 DEF Stages
<1>3. CASE a \in Clients /\ FanOut(a)
  <2>1. ag[a]' = Thread("wait", FALSE, TRUE, 0, None)
    BY <1>0, <1>3 DEF FanOut
  <2>2. ag[a]'.pc = "wait" /\ ~ag[a]'.grouped
    BY <2>1 DEF Thread
  <2>3. Opens(a)
    BY <1>3, <2>2 DEF FanOut, Opens
  <2>4. Shape(a)' /\ Unrecorded(a)' = 0
    BY <1>3, <2>2, ServerAssumption DEF Shape, Unrecorded
  <2> QED
    BY <1>1, <2>3, <2>4 DEF Stages
<1>4. CASE a \in Clients /\ ag' = [ag EXCEPT ![a] = Idle] /\ UNCHANGED <<todo, tally>>
  <2>1. ag[a]' = Idle
    BY <1>0, <1>4
  <2>2. ag[a]'.pc = "idle" /\ ~ag[a]'.grouped
    BY <2>1 DEF Idle, Thread
  <2>3. Stays(a)
    BY <1>4, <2>2, ServerAssumption DEF Stays
  <2>4. Shape(a)' /\ Unrecorded(a)' = 0
    BY <1>4, <2>2, ServerAssumption DEF Shape, Unrecorded
  <2> QED
    BY <1>1, <2>3, <2>4 DEF Stages
<1> QED
  BY <1>2, <1>3, <1>4 DEF Leave, Agents

\* A thread that goes on with its call.
LEMMA GoesOn ==
  ASSUME Typed, Shaped, NEW a \in Agents, ag[a].pc \notin {"idle", "wait"},
         UNCHANGED <<hasBatch, todo, tally>>,
         ag[a]'.pc \notin {"idle", "wait"}, ag[a]'.grouped = ag[a].grouped,
         ag[a]'.for = ag[a].for, ag[a]'.left = ag[a].left \/ ag[a].grouped
  PROVE  Shape(a)' /\ Stages(a)
<1>1. Shape(a)
  BY DEF Shaped
<1>2. Shape(a)'
  BY <1>1 DEF Shape
<1> QED
  BY <1>2 DEF Stages, Stays

\* What a call that ends may leave unpaid: nothing, unless the budget is gone.
Settles(a) ==
    \/ UNCHANGED used /\ (Exhausted \/ Unrecorded(a) = 0)
    \/ used' = used + 1 /\ Unrecorded(a) = 1

\* All a step of thread a owes the pairs and the stages.
Books(a) ==
    /\ Accounts(a) /\ Stages(a) /\ Shape(a)'
    /\ permits' \in Nat /\ executed' \in Nat /\ UNCHANGED hasBatch

\* One action of evaluate or evaluate_batch.
LEMMA EvaluatingAccounts ==
  ASSUME Typed, LogTyped, Shaped, permits \in Nat, executed \in Nat, NEW a \in Agents, Evaluating(a)
  PROVE  Books(a)
<1>0. /\ a \in DOMAIN ag /\ ag[a] \in Records /\ Shape(a)
      /\ used \in 0..MaxEvals /\ MaxEvals \in Nat /\ (~Exhausted <=> used < MaxEvals)
  BY ServerAssumption DEF Shaped, Typed, Exhausted
<1>1. Unrecorded(a) \in 0..Examples /\ ag[a].left \in 0..Examples /\ Examples \in Nat
  BY <1>0, UnrecordedTyped, ServerAssumption DEF Records
<1>2. ASSUME NEW how \in {"ok", "error", "exhausted"}, Leave(a, how), ag[a].pc \notin {"idle", "wait"},
             Settles(a)
      PROVE  Books(a)
  <2>1. /\ Unrecorded(a)' = 0 /\ Shape(a)' /\ Stages(a)
        /\ permits' \in Nat /\ UNCHANGED <<executed, hasBatch>>
    BY <1>2, LeaveEnds
  <2> QED
    BY <1>0, <1>1, <1>2, <2>1 DEF Accounts, Books, Settles
<1>3. ASSUME ag[a].pc \notin {"idle", "wait"}, UNCHANGED <<hasBatch, todo, tally>>,
             ag[a]'.pc \notin {"idle", "wait"}, ag[a]'.grouped = ag[a].grouped,
             ag[a]'.for = ag[a].for, ag[a]'.left = ag[a].left \/ ag[a].grouped,
             permits' \in Nat, executed' \in Nat, Accounts(a)
      PROVE  Books(a)
  BY <1>3, GoesOn DEF Books
<1>5. CASE Acquire(a)
  <2>1. ag[a]' = [ag[a] EXCEPT !.pc = "check"]
    BY <1>0, <1>5 DEF Acquire
  <2>2. /\ ag[a]'.pc = "check" /\ ag[a]'.grouped = ag[a].grouped
        /\ ag[a]'.for = ag[a].for /\ ag[a]'.left = ag[a].left
    BY <1>0, <2>1 DEF Records
  <2>3. Unrecorded(a) = 0 /\ Unrecorded(a)' = 0
    BY <1>5, <2>2 DEF Acquire, Unrecorded
  <2>4. permits' \in Nat
    BY <1>5 DEF Acquire
  <2> QED
    BY <1>0, <1>3, <1>5, <2>2, <2>3, <2>4 DEF Acquire, Accounts
<1>6. CASE Check(a)
  <2>1. CASE Exhausted /\ Leave(a, "exhausted")
    <3>1. ag[a].pc \notin {"idle", "wait"} /\ Settles(a)
      BY <1>6, <2>1 DEF Check, Settles
    <3> QED
      BY <1>2, <2>1, <3>1
  <2>2. CASE ~Exhausted /\ ag' = [ag EXCEPT ![a].pc = "run"] /\ executed' = executed + ag[a].left
             /\ UNCHANGED <<permits, todo, tally, hasBatch>>
    <3>1. ag[a]' = [ag[a] EXCEPT !.pc = "run"]
      BY <1>0, <2>2
    <3>2. /\ ag[a]'.pc = "run" /\ ag[a]'.grouped = ag[a].grouped
          /\ ag[a]'.for = ag[a].for /\ ag[a]'.left = ag[a].left
      BY <1>0, <3>1 DEF Records
    <3>3. Unrecorded(a) = 0 /\ Unrecorded(a)' = ag[a].left
      BY <1>6, <3>2 DEF Check, Unrecorded
    <3>4. Accounts(a)
      BY <1>0, <1>1, <1>6, <2>2, <3>3 DEF Check, Accounts
    <3> QED
      BY <1>1, <1>3, <1>6, <2>2, <3>2, <3>4 DEF Check
  <2> QED
    BY <1>6, <2>1, <2>2 DEF Check
<1>7. CASE Return(a)
  <2>1. PICK s \in Scores : ag[a]' = [ag[a] EXCEPT !.pc = "record", !.score = s]
    BY <1>0, <1>7 DEF Return
  <2>2. /\ ag[a]'.pc = "record" /\ ag[a]'.grouped = ag[a].grouped
        /\ ag[a]'.for = ag[a].for /\ ag[a]'.left = ag[a].left
    BY <1>0, <2>1 DEF Records
  <2>3. Unrecorded(a) = ag[a].left /\ Unrecorded(a)' = ag[a].left
    BY <1>7, <2>2 DEF Return, Unrecorded
  <2>4. permits' \in Nat
    BY <1>7 DEF Return
  <2>5. Accounts(a)
    BY <1>0, <1>1, <1>7, <2>3 DEF Return, Accounts
  <2> QED
    BY <1>3, <1>7, <2>2, <2>4, <2>5 DEF Return
<1>8. CASE Raise(a)
  <2>1. ag[a]' = [ag[a] EXCEPT !.pc = "fail"]
    BY <1>0, <1>8 DEF Raise
  <2>2. /\ ag[a]'.pc = "fail" /\ ag[a]'.grouped = ag[a].grouped
        /\ ag[a]'.for = ag[a].for /\ ag[a]'.left = ag[a].left
    BY <1>0, <2>1 DEF Records
  <2>3. Unrecorded(a) = ag[a].left /\ Unrecorded(a)' = ag[a].left
    BY <1>8, <2>2 DEF Raise, Unrecorded
  <2>5. Accounts(a)
    BY <1>0, <1>1, <1>8, <2>3 DEF Raise, Accounts
  <2> QED
    BY <1>3, <1>8, <2>2, <2>5 DEF Raise
<1>9. CASE Record(a)
  <2>1. CASE Exhausted /\ Leave(a, "exhausted") /\ UNCHANGED used
    <3>1. ag[a].pc \notin {"idle", "wait"} /\ Settles(a)
      BY <1>9, <2>1 DEF Record, Settles
    <3> QED
      BY <1>2, <2>1, <3>1
  <2>2. CASE ~Exhausted /\ used' = used + 1 /\ ag' = [ag EXCEPT ![a].pc = "track"]
             /\ UNCHANGED <<permits, todo, tally, executed, hasBatch>>
    <3>1. ag[a]' = [ag[a] EXCEPT !.pc = "track"]
      BY <1>0, <2>2
    <3>2. /\ ag[a]'.pc = "track" /\ ag[a]'.grouped = ag[a].grouped
          /\ ag[a]'.for = ag[a].for /\ ag[a]'.left = ag[a].left
      BY <1>0, <3>1 DEF Records
    <3>3. Unrecorded(a) = ag[a].left /\ Unrecorded(a)' = ag[a].left - 1
      BY <1>9, <3>2 DEF Record, Unrecorded
    <3>4. Accounts(a)
      BY <1>0, <1>1, <2>2, <3>3 DEF Accounts
    <3> QED
      BY <1>3, <1>9, <2>2, <3>2, <3>4 DEF Record
  <2> QED
    BY <1>9, <2>1, <2>2 DEF Record
<1>10. CASE RecordFailure(a)
  <2>1. Unrecorded(a) = 1
    BY <1>0, <1>10 DEF RecordFailure, Unrecorded, Shape
  <2>2. ag[a].pc \notin {"idle", "wait"} /\ Settles(a)
    BY <1>10, <2>1 DEF RecordFailure, Settles
  <2>3. Leave(a, "exhausted") \/ Leave(a, "error")
    BY <1>10 DEF RecordFailure
  <2> QED
    BY <1>2, <2>2, <2>3
<1>11. CASE RecordGroupFailure(a)
  <2>0. Unrecorded(a) = ag[a].left
    BY <1>11 DEF RecordGroupFailure, Unrecorded
  <2>1. CASE (Exhausted \/ ag[a].left = 0) /\ Leave(a, "error") /\ UNCHANGED used
    <3>1. ag[a].pc \notin {"idle", "wait"} /\ Settles(a)
      BY <1>11, <2>0, <2>1 DEF RecordGroupFailure, Settles
    <3> QED
      BY <1>2, <2>1, <3>1
  <2>2. CASE /\ ~Exhausted /\ ag[a].left # 0 /\ used' = used + 1
             /\ ag' = [ag EXCEPT ![a].left = @ - 1]
             /\ UNCHANGED <<permits, todo, tally, executed, hasBatch>>
    <3>1. ag[a]' = [ag[a] EXCEPT !.left = @ - 1]
      BY <1>0, <2>2
    <3>2. /\ ag[a]'.pc = "fail" /\ ag[a]'.grouped = ag[a].grouped /\ ag[a].grouped
          /\ ag[a]'.for = ag[a].for /\ ag[a]'.left = ag[a].left - 1
      BY <1>0, <1>11, <3>1 DEF Records, RecordGroupFailure
    <3>3. Unrecorded(a)' = ag[a].left - 1
      BY <3>2 DEF Unrecorded
    <3>4. Accounts(a)
      BY <1>0, <1>1, <2>0, <2>2, <3>3 DEF Accounts
    <3> QED
      BY <1>3, <1>11, <2>2, <3>2, <3>4 DEF RecordGroupFailure
  <2> QED
    BY <1>11, <2>1, <2>2 DEF RecordGroupFailure
<1>12. CASE Track(a)
  <2>1. ag[a]' = [ag[a] EXCEPT !.pc = "write", !.idx = Index(a)]
    BY <1>0, <1>12 DEF Track
  <2>2. /\ ag[a]'.pc = "write" /\ ag[a]'.grouped = ag[a].grouped
        /\ ag[a]'.for = ag[a].for /\ ag[a]'.left = ag[a].left
    BY <1>0, <2>1 DEF Records
  <2>3. Unrecorded(a) = ag[a].left - 1 /\ Unrecorded(a)' = ag[a].left - 1
    BY <1>12, <2>2 DEF Track, Unrecorded
  <2>5. Accounts(a)
    BY <1>0, <1>1, <1>12, <2>3 DEF Track, Accounts
  <2> QED
    BY <1>3, <1>12, <2>2, <2>5 DEF Track
<1>13. CASE WriteRecord(a)
  <2>0. Unrecorded(a) = ag[a].left - 1
    BY <1>13 DEF WriteRecord, Unrecorded
  <2>1. CASE ag[a].left = 1 /\ Leave(a, "ok")
    <3>1. ag[a].pc \notin {"idle", "wait"} /\ Settles(a)
      BY <1>13, <2>0, <2>1 DEF WriteRecord, Settles
    <3> QED
      BY <1>2, <2>1, <3>1
  <2>2. CASE ag[a].left # 1 /\ UNCHANGED <<permits, todo, tally, executed, hasBatch>> /\
             \E s \in Scores : ag' = [ag EXCEPT ![a].pc = "record", ![a].left = @ - 1, ![a].score = s]
    <3>1. PICK s \in Scores : ag[a]' = [ag[a] EXCEPT !.pc = "record", !.left = @ - 1, !.score = s]
      BY <1>0, <2>2
    <3>2. /\ ag[a]'.pc = "record" /\ ag[a]'.grouped = ag[a].grouped
          /\ ag[a]'.for = ag[a].for /\ ag[a]'.left = ag[a].left - 1
      BY <1>0, <3>1 DEF Records
    <3>3. Unrecorded(a)' = ag[a].left - 1
      BY <3>2 DEF Unrecorded
    <3>4. ag[a].grouped
      BY <1>0, <1>13, <2>2 DEF Shape, WriteRecord
    <3>5. Accounts(a)
      <4>1. used' = used /\ executed' = executed /\ Unrecorded(a)' = Unrecorded(a)
        BY <1>13, <2>0, <2>2, <3>3 DEF WriteRecord
      <4> QED
        BY <1>0, <1>1, <4>1 DEF Accounts
    <3> QED
      BY <1>3, <1>13, <2>2, <3>2, <3>4, <3>5 DEF WriteRecord
  <2> QED
    BY <1>13, <2>1, <2>2 DEF WriteRecord
<1> QED
  BY <1>5, <1>6, <1>7, <1>8, <1>9, <1>10, <1>11, <1>12, <1>13 DEF Evaluating

\* A client's call: nothing is in flight yet.
LEMMA CallBooks ==
  ASSUME Typed, Shaped, permits \in Nat, executed \in Nat, NEW c \in Clients,
         CallEvaluate(c) \/ CallBatch(c) \/ CallExamples(c)
  PROVE  Books(c)
<1>1. /\ c \in Agents /\ c \in DOMAIN ag /\ c \notin Workers
      /\ ag[c].pc = "idle" /\ Shape(c) /\ used \in Int
      /\ UNCHANGED <<permits, used, executed, hasBatch>>
  <2>1. ag[c].pc = "idle" /\ UNCHANGED <<permits, used, executed, hasBatch>>
    BY DEF Call, CallEvaluate, CallBatch, CallExamples
  <2> QED
    BY <2>1, ServerAssumption DEF Agents, Typed, Shaped
<1>2. Unrecorded(c) = 0
  BY <1>1 DEF Unrecorded
<1>3. ASSUME Unrecorded(c)' = 0, Shape(c)', Stages(c) PROVE Books(c)
  BY <1>1, <1>2, <1>3 DEF Accounts, Books
<1>4. ASSUME ag[c]'.pc = "acquire", ag[c]'.grouped \/ ag[c]'.left = 1,
             ag[c]'.grouped => hasBatch, UNCHANGED <<todo, tally>>
      PROVE  Books(c)
  <2>1. Unrecorded(c)' = 0
    BY <1>4 DEF Unrecorded
  <2>2. Shape(c)' /\ Stages(c)
    BY <1>1, <1>4 DEF Shape, Stages, Stays
  <2> QED
    BY <1>3, <2>1, <2>2
<1>5. CASE CallEvaluate(c)
  <2>1. ag[c]' = Thread("acquire", FALSE, FALSE, 1, None) /\ UNCHANGED <<todo, tally>>
    BY <1>1, <1>5 DEF CallEvaluate
  <2> QED
    BY <1>4, <2>1 DEF Thread
<1>6. CASE CallBatch(c)
  <2>1. ag[c]' = Thread("acquire", TRUE, FALSE, Examples, None) /\ hasBatch /\ UNCHANGED <<todo, tally>>
    BY <1>1, <1>6 DEF CallBatch
  <2> QED
    BY <1>4, <2>1 DEF Thread
<1>7. CASE CallExamples(c)
  <2>1. CASE UNCHANGED <<ag, todo, tally>>
    <3>1. Unrecorded(c)' = 0
      BY <1>2, <2>1 DEF Unrecorded
    <3>2. Shape(c)' /\ Stages(c)
      BY <1>1, <2>1 DEF Shape, Stages, Stays
    <3> QED
      BY <1>3, <3>1, <3>2
  <2>2. CASE /\ hasBatch /\ UNCHANGED <<todo, tally>>
             /\ ag' = [ag EXCEPT ![c] = Thread("acquire", TRUE, TRUE, Examples, None)]
    <3>1. ag[c]' = Thread("acquire", TRUE, TRUE, Examples, None)
      BY <1>1, <2>2
    <3> QED
      BY <1>4, <2>2, <3>1 DEF Thread
  <2>3. CASE FanOut(c)
    <3>1. ag[c]' = Thread("wait", FALSE, TRUE, 0, None)
      BY <1>1, <2>3 DEF FanOut
    <3>2. ag[c]'.pc = "wait" /\ ~ag[c]'.grouped
      BY <3>1 DEF Thread
    <3>3. Unrecorded(c)' = 0
      BY <3>2 DEF Unrecorded
    <3>4. Shape(c)' /\ Stages(c)
      BY <1>1, <2>3, <3>2 DEF Shape, FanOut, Stages, Opens
    <3> QED
      BY <1>3, <3>3, <3>4
  <2> QED
    BY <1>7, <2>1, <2>2, <2>3 DEF CallExamples
<1> QED
  BY <1>5, <1>6, <1>7

\* A stage that answers, and a task handed to a pool thread.
LEMMA HandoverBooks ==
  ASSUME Typed, Shaped, permits \in Nat, executed \in Nat, NEW a \in Agents,
         \/ a \in Clients /\ Gather(a)
         \/ a \in Workers /\ \E c \in Clients : Take(a, c)
  PROVE  Books(a)
<1>1. /\ a \in DOMAIN ag /\ Shape(a) /\ used \in Int
      /\ UNCHANGED <<permits, used, executed, hasBatch>>
  <2>1. UNCHANGED <<permits, used, executed, hasBatch>>
    BY DEF Gather, Take
  <2> QED
    BY <2>1, ServerAssumption DEF Typed, Shaped
<1>2. Unrecorded(a) = 0
  BY DEF Unrecorded, Gather, Take
<1>3. ASSUME Unrecorded(a)' = 0, Shape(a)', Stages(a) PROVE Books(a)
  BY <1>1, <1>2, <1>3 DEF Accounts, Books
<1>4. CASE a \in Clients /\ Gather(a)
  <2>1. ag[a]' = Idle /\ a \notin Workers
    BY <1>1, <1>4, ServerAssumption DEF Gather
  <2>2. ag[a]'.pc = "idle" /\ ~ag[a]'.grouped
    BY <2>1 DEF Idle, Thread
  <2>3. Unrecorded(a)' = 0
    BY <2>2 DEF Unrecorded
  <2>4. Shape(a)' /\ Stages(a)
    BY <1>1, <1>4, <2>1, <2>2 DEF Shape, Gather, Stages, Closes
  <2> QED
    BY <1>3, <2>3, <2>4
<1>5. ASSUME NEW c \in Clients, a \in Workers, Take(a, c) PROVE Books(a)
  <2>1. ag[a]' = Thread("acquire", FALSE, FALSE, 1, c)
    BY <1>1, <1>5 DEF Take
  <2>2. /\ ag[a]'.pc = "acquire" /\ ~ag[a]'.grouped /\ ag[a]'.left = 1 /\ ag[a]'.for = c
    BY <2>1 DEF Thread
  <2>3. Unrecorded(a)' = 0
    BY <2>2 DEF Unrecorded
  <2>4. ag[a].for \notin Clients
    BY <1>1, <1>5 DEF Shape, Take
  <2>5. Shape(a)' /\ Stages(a)
    BY <1>1, <1>5, <2>2, <2>4 DEF Shape, Take, Stages, Takes
  <2> QED
    BY <1>3, <2>3, <2>5
<1> QED
  BY <1>4, <1>5

\* Every step is one thread's, and keeps its books.
LEMMA StepBooks ==
  ASSUME Typed, LogTyped, Shaped, permits \in Nat, executed \in Nat, Next
  PROVE  \E a \in Agents : Effect(a) /\ Books(a)
<1>0. permits \in Int
  OBVIOUS
<1>1. ASSUME NEW c \in Clients, CallEvaluate(c) \/ CallBatch(c) \/ CallExamples(c)
      PROVE  Effect(c) /\ Books(c) /\ c \in Agents
  BY <1>0, <1>1, CallEffect, CallBooks DEF Agents
<1>2. ASSUME NEW a \in Agents, Evaluating(a) PROVE Effect(a) /\ Books(a)
  BY <1>0, <1>2, EvaluatingEffect, EvaluatingAccounts
<1>3. ASSUME NEW a \in Agents, \/ a \in Clients /\ Gather(a)
                               \/ a \in Workers /\ \E c \in Clients : Take(a, c)
      PROVE  Effect(a) /\ Books(a)
  BY <1>0, <1>3, HandoverEffect, HandoverBooks
<1> QED
  BY <1>1, <1>2, <1>3 DEF Next, Running

\* A step of a thread keeps the shape of every thread, and no example of a stage
\* is lost or answered twice.
LEMMA StagesKept ==
  ASSUME Typed, Shaped, Staged, NEW a \in Agents, Moves(a), Stages(a), Shape(a)', UNCHANGED hasBatch
  PROVE  Shaped' /\ Staged'
<1>1. Shaped'
  <2> SUFFICES ASSUME NEW b \in Agents PROVE Shape(b)'
    BY DEF Shaped
  <2>1. CASE b # a
    BY <2>1 DEF Shaped, Shape, Moves
  <2> QED
    BY <2>1
<1>2. /\ Examples \in Nat /\ Clients \intersect Workers = {} /\ a \in Clients \union Workers
      /\ NoTally \in Tallies /\ NoTally.ok + NoTally.failed + NoTally.refused = 0
  BY ServerAssumption DEF NoTally, Tallies, Agents
<1>3. ASSUME NEW c \in Clients
      PROVE  /\ IsFiniteSet(Tasks(c)) /\ IsFiniteSet(Tasks(c)')
             /\ Cardinality(Tasks(c)) \in Nat /\ Cardinality(Tasks(c)') \in Nat
             /\ Tasks(c) \ {a} = Tasks(c)' \ {a}
             /\ (a \in Tasks(c) <=> a \in Tasks(c)') => Tasks(c)' = Tasks(c)
             /\ a \in Clients => Tasks(c)' = Tasks(c)
             /\ a \in Tasks(c) <=> a \in Workers /\ ag[a].for = c
             /\ a \in Tasks(c)' <=> a \in Workers /\ ag[a]'.for = c
             /\ c # a => ag[c]' = ag[c]
             /\ todo[c] \in Nat /\ tally[c] \in Tallies /\ Done(c) \in Nat
             /\ Booked(c)
  <2>1. Tasks(c) \subseteq Agents /\ Tasks(c)' \subseteq Agents
    BY DEF Tasks, Agents
  <2>2. /\ IsFiniteSet(Tasks(c)) /\ IsFiniteSet(Tasks(c)')
        /\ Cardinality(Tasks(c)) \in Nat /\ Cardinality(Tasks(c)') \in Nat
    BY <2>1, AgentsFinite
  <2>3. /\ Tasks(c) \ {a} = Tasks(c)' \ {a}
        /\ a \in Tasks(c) <=> a \in Workers /\ ag[a].for = c
        /\ a \in Tasks(c)' <=> a \in Workers /\ ag[a]'.for = c
    BY DEF Tasks, Moves, Agents
  <2>8. ASSUME a \in Tasks(c) <=> a \in Tasks(c)' PROVE Tasks(c)' = Tasks(c)
    BY <2>3, <2>8
  <2>4. a \in Clients => Tasks(c)' = Tasks(c)
    BY <1>2, <2>3, <2>8
  <2>5. c # a => ag[c]' = ag[c]
    BY DEF Moves, Agents
  <2>6. todo[c] \in Nat /\ tally[c] \in Tallies /\ Booked(c)
    BY DEF Staged
  <2>7. Done(c) \in Nat
    BY <2>6 DEF Done, Tallies
  <2> QED
    BY <2>2, <2>3, <2>4, <2>5, <2>6, <2>7, <2>8
<1>4. CASE Opens(a)
  <2>1. todo' \in [Clients -> Nat] /\ tally' \in [Clients -> Tallies]
    BY <1>2, <1>4 DEF Opens, Staged
  <2>2. ASSUME NEW c \in Clients PROVE Booked(c)'
    <3>1. CASE c = a
      <4>1. /\ Tasks(c)' = {} /\ todo'[c] = Examples /\ tally'[c] = NoTally /\ ag[c]'.pc = "wait"
        BY <1>3, <1>4, <3>1 DEF Opens, Booked, Staged
      <4>2. Done(c)' = 0
        BY <1>2, <4>1 DEF Done
      <4>3. Cardinality(Tasks(c)') = 0
        BY <4>1, FS_EmptySet
      <4> QED
        BY <1>2, <4>1, <4>2, <4>3 DEF Booked
    <3>2. CASE c # a
      <4>1. /\ Tasks(c)' = Tasks(c) /\ todo'[c] = todo[c] /\ tally'[c] = tally[c] /\ ag[c]' = ag[c]
        BY <1>3, <1>4, <3>2 DEF Opens, Staged
      <4> QED
        BY <1>3, <4>1 DEF Booked, Done
    <3> QED
      BY <3>1, <3>2
  <2> QED
    BY <1>1, <2>1, <2>2 DEF Staged
<1>5. CASE Closes(a)
  <2>2. ASSUME NEW c \in Clients PROVE Booked(c)'
    <3>1. CASE c = a
      <4>1. todo[c] = 0 /\ Cardinality(Tasks(c)) = 0
        BY <1>2, <1>3, <1>5, <3>1 DEF Closes, Booked
      <4>2. Tasks(c) = {}
        BY <1>3, <4>1, FS_EmptySet
      <4> QED
        BY <1>3, <1>5, <3>1, <4>1, <4>2 DEF Closes, Booked
    <3>2. CASE c # a
      BY <1>3, <1>5, <3>2 DEF Closes, Booked, Done
    <3> QED
      BY <3>1, <3>2
  <2> QED
    BY <1>1, <1>5, <2>2 DEF Staged, Closes
<1>6. CASE Takes(a)
  <2>1. PICK d \in Clients : /\ ag[a]'.for = d /\ todo[d] > 0
                             /\ todo' = [todo EXCEPT ![d] = @ - 1]
    BY <1>6 DEF Takes
  <2>2. todo' \in [Clients -> Nat] /\ tally' \in [Clients -> Tallies]
    <3>1. todo[d] - 1 \in Nat
      BY <1>3, <2>1
    <3> QED
      BY <1>6, <2>1, <3>1 DEF Takes, Staged
  <2>3. ASSUME NEW c \in Clients PROVE Booked(c)'
    <3>0. c # a /\ ag[c]' = ag[c] /\ tally'[c] = tally[c] /\ a \notin Tasks(c)
      BY <1>2, <1>3, <1>6 DEF Takes
    <3>1. CASE c = d
      <4>1. ag[c].pc = "wait"
        BY <1>3, <2>1, <3>1 DEF Booked
      <4>2. Cardinality(Tasks(c)') = Cardinality(Tasks(c)) + 1
        BY <1>3, <1>6, <2>1, <3>0, <3>1, CountOne DEF Takes
      <4>3. todo'[c] = todo[c] - 1 /\ Done(c)' = Done(c)
        BY <2>1, <3>0, <3>1 DEF Staged, Done
      <4>4. todo[c] + Cardinality(Tasks(c)) + Done(c) = Examples
        BY <1>3, <4>1 DEF Booked
      <4>5. todo[c] \in Nat /\ Cardinality(Tasks(c)) \in Nat /\ Done(c) \in Nat
        BY <1>3
      <4>6. todo'[c] + Cardinality(Tasks(c)') + Done(c)' = Examples
        BY <4>2, <4>3, <4>4, <4>5
      <4> QED
        BY <3>0, <4>1, <4>6 DEF Booked
    <3>2. CASE c # d
      <4>0. a \notin Tasks(c)'
        BY <1>3, <2>1, <3>2
      <4>1. Tasks(c)' = Tasks(c) /\ todo'[c] = todo[c] /\ Done(c)' = Done(c)
        BY <1>3, <2>1, <3>0, <3>2, <4>0 DEF Staged, Done
      <4> QED
        BY <1>3, <3>0, <4>1 DEF Booked
    <3> QED
      BY <3>1, <3>2
  <2> QED
    BY <1>1, <2>2, <2>3 DEF Staged
<1>7. CASE Ends(a)
  <2> DEFINE d == ag[a].for
  <2>1. /\ d \in Clients /\ a \in Workers /\ ag[a]'.for \notin Clients /\ UNCHANGED todo
        /\ tally' \in {[tally EXCEPT ![d].ok = @ + 1], [tally EXCEPT ![d].failed = @ + 1],
                       [tally EXCEPT ![d].refused = @ + 1]}
    BY <1>7 DEF Ends
  <2> HIDE DEF d
  <2>2. /\ tally' \in [Clients -> Tallies]
        /\ \A c \in Clients : c # d => tally'[c] = tally[c]
        /\ tally'[d].ok + tally'[d].failed + tally'[d].refused = Done(d) + 1
    <3>1. PICK ok, failed, refused \in Nat :
            tally[d] = [ok |-> ok, failed |-> failed, refused |-> refused]
      BY <1>3, <2>1 DEF Tallies
    <3>2. /\ tally \in [Clients -> Tallies] /\ Done(d) = ok + failed + refused
      BY <3>1 DEF Staged, Done
    <3>3. CASE tally' = [tally EXCEPT ![d].ok = @ + 1]
      BY <2>1, <3>1, <3>2, <3>3 DEF Tallies
    <3>4. CASE tally' = [tally EXCEPT ![d].failed = @ + 1]
      BY <2>1, <3>1, <3>2, <3>4 DEF Tallies
    <3>5. CASE tally' = [tally EXCEPT ![d].refused = @ + 1]
      BY <2>1, <3>1, <3>2, <3>5 DEF Tallies
    <3> QED
      BY <2>1, <3>3, <3>4, <3>5
  <2>3. ASSUME NEW c \in Clients PROVE Booked(c)'
    <3>0. c # a /\ ag[c]' = ag[c] /\ todo'[c] = todo[c] /\ a \notin Tasks(c)'
      BY <1>2, <1>3, <2>1
    <3>1. CASE c = d
      <4>0. a \in Tasks(c)
        BY <1>3, <2>1, <3>1 DEF d
      <4>1. ag[c].pc = "wait"
        BY <1>3, <4>0 DEF Booked
      <4>2. Cardinality(Tasks(c)') = Cardinality(Tasks(c)) - 1
        BY <1>3, <3>0, <4>0, CountOne
      <4>3. Done(c)' = Done(c) + 1
        BY <2>2, <3>1 DEF Done
      <4> QED
        BY <1>2, <1>3, <3>0, <4>1, <4>2, <4>3 DEF Booked
    <3>2. CASE c # d
      <4>1. a \notin Tasks(c)
        BY <1>3, <3>2 DEF d
      <4>2. Tasks(c)' = Tasks(c) /\ Done(c)' = Done(c)
        BY <1>3, <2>2, <3>0, <3>2, <4>1 DEF Done
      <4> QED
        BY <1>3, <3>0, <4>2 DEF Booked
    <3> QED
      BY <3>1, <3>2
  <2> QED
    BY <1>1, <2>1, <2>2, <2>3 DEF Staged
<1>8. CASE Stays(a)
  <2>1. ASSUME NEW c \in Clients PROVE Booked(c)'
    <3>0. a \in Tasks(c) <=> a \in Tasks(c)'
      BY <1>3, <1>8 DEF Stays
    <3>1. Tasks(c)' = Tasks(c) /\ todo'[c] = todo[c] /\ Done(c)' = Done(c)
      BY <1>3, <1>8, <3>0 DEF Stays, Done
    <3>2. ag[c]'.pc = "wait" <=> ag[c].pc = "wait"
      BY <1>3, <1>8 DEF Stays
    <3> QED
      BY <1>3, <3>1, <3>2 DEF Booked
  <2> QED
    BY <1>1, <1>8, <2>1 DEF Staged, Stays
<1> QED
  BY <1>4, <1>5, <1>6, <1>7, <1>8 DEF Stages


\* The books of the whole server: while the budget lasts, the pairs handed out
\* are those charged and those in flight.
PairsInv ==
    /\ Typed /\ LogTyped /\ Shaped /\ Staged /\ permits \in Nat /\ executed \in Nat
    /\ used < MaxEvals => executed = used + Sum(Load, Agents)

LEMMA PairsInit == ASSUME Init PROVE PairsInv
<1>1. /\ Typed /\ LogTyped /\ permits \in Nat /\ executed = 0 /\ used = 0 /\ hasBatch \in BOOLEAN
      /\ ag = [a \in Agents |-> Idle]
      /\ todo = [c \in Clients |-> 0] /\ tally = [c \in Clients |-> NoTally]
  BY InitTyped, ServerAssumption DEF Init
<1>2. Idle.pc = "idle" /\ ~Idle.grouped /\ Idle.for = None /\ None \notin Clients
  BY ServerAssumption DEF Idle, Thread
<1>3. Shaped
  BY <1>1, <1>2 DEF Shaped, Shape
<1>4. Staged
  <2>1. \A c \in Clients : Booked(c)
    BY <1>1, <1>2 DEF Booked, Tasks, Agents
  <2>2. NoTally \in Tallies
    BY DEF NoTally, Tallies
  <2> QED
    BY <1>1, <2>1, <2>2 DEF Staged
<1>5. Sum(Load, Agents) = 0
  <2>1. \A a \in Agents : Load[a] = 0
    BY <1>1, <1>2 DEF Load, Unrecorded
  <2>2. \A a \in Agents : Load[a] \in 0..0
    BY <2>1
  <2>3. Sum(Load, Agents) <= 0 * Cardinality({a \in Agents : Load[a] # 0})
    BY <2>2, AgentsFinite, SumBounded
  <2>4. Sum(Load, Agents) \in Nat
    BY <2>1, AgentsFinite, SumSplits
  <2>5. Cardinality({a \in Agents : Load[a] # 0}) \in Nat
    BY AgentsFinite
  <2> QED
    BY <2>3, <2>4, <2>5
<1> QED
  BY <1>1, <1>3, <1>4, <1>5 DEF PairsInv

LEMMA PairsKept == ASSUME PairsInv, [Next]_vars PROVE PairsInv'
<1>1. CASE Next
  <2>1. PICK a \in Agents : Effect(a) /\ Books(a)
    BY <1>1, StepBooks DEF PairsInv
  <2>2. Typed' /\ LogTyped'
    BY <2>1, EffectTyped DEF PairsInv
  <2>3. Shaped' /\ Staged'
    BY <2>1, StagesKept DEF Effect, Books, PairsInv
  <2>4. \A b \in Agents : Load[b] \in Nat /\ Load'[b] \in Nat /\ (b # a => Load'[b] = Load[b])
    <3>1. ASSUME NEW b \in Agents PROVE Load[b] \in Nat
      BY UnrecordedTyped DEF PairsInv, Load
    <3>2. ASSUME NEW b \in Agents PROVE Load'[b] \in Nat
      BY <2>2, UnrecordedLater DEF Load
    <3>3. ASSUME NEW b \in Agents, b # a PROVE Load'[b] = Load[b]
      BY <2>1, <3>3 DEF Effect, Moves, Load, Unrecorded
    <3> QED
      BY <3>1, <3>2, <3>3
  <2>5. /\ Sum(Load, Agents) \in Nat
        /\ Sum(Load', Agents) = Sum(Load, Agents) + Load'[a] - Load[a]
    BY <2>4, AgentsFinite, SumMoves
  <2>6. Load[a] = Unrecorded(a) /\ Load'[a] = Unrecorded(a)'
    BY DEF Load
  <2>7. used \in Nat /\ used' \in {used, used + 1} /\ MaxEvals \in Nat
    BY <2>1, ServerAssumption DEF Effect, Charges, Tracks, PairsInv, Typed
  <2>8. used' < MaxEvals => executed' = used' + Sum(Load', Agents)
    <3> SUFFICES ASSUME used' < MaxEvals PROVE executed' = used' + Sum(Load', Agents)
      OBVIOUS
    <3>1. executed = used + Sum(Load, Agents) /\ executed \in Nat /\ executed' \in Nat
      BY <2>1, <2>7 DEF PairsInv, Books
    <3>2. executed' - executed = (used' - used) + (Load'[a] - Load[a])
      BY <2>1, <2>6 DEF Books, Accounts
    <3> QED
      BY <2>4, <2>5, <2>7, <3>1, <3>2
  <2> QED
    BY <2>1, <2>2, <2>3, <2>8 DEF PairsInv, Books
<1>2. CASE UNCHANGED vars
  <2>1. Typed' /\ LogTyped'
    BY <1>2, QuietTyped DEF PairsInv
  <2>2. Shaped' /\ Staged' /\ Load' = Load
    BY <1>2 DEF PairsInv, vars, Shaped, Shape, Staged, Booked, Tasks, Done, Load, Unrecorded
  <2> QED
    BY <1>2, <2>1, <2>2 DEF PairsInv, vars
<1> QED
  BY <1>1, <1>2

\* While the budget lasts every pair handed to the user's function is charged or
\* still in flight, on every path through evaluate, evaluate_batch and the stages.
THEOREM PairsAreCharged == Spec => []EveryPairCharged
<1>1. Init => PairsInv
  BY PairsInit
<1>2. PairsInv /\ [Next]_vars => PairsInv'
  BY PairsKept
<1>3. PairsInv => EveryPairCharged
  <2>1. PairsInv => (~Exhausted <=> used < MaxEvals)
    BY ServerAssumption DEF PairsInv, Typed, Exhausted
  <2> QED
    BY <2>1, LoadIsSum DEF PairsInv, EveryPairCharged
<1> QED
  BY <1>1, <1>2, <1>3, PTL DEF Spec

\* What is in flight is within the width.
LoadBounded == Sum(Load, Agents) <= Width

LEMMA SingleLoads ==
  ASSUME Typed, Shaped, NEW a \in Agents, ~ag[a].grouped
  PROVE  Load[a] \in 0..1 /\ (Load[a] # 0 => Holding(a))
<1>1. Shape(a)
  BY DEF Shaped
<1>2. Unrecorded(a) \in 0..1 /\ (Unrecorded(a) # 0 => Holding(a))
  BY <1>1 DEF Shape, Unrecorded, Holding
<1> QED
  BY <1>2 DEF Load

LEMMA InFlightBounded ==
  ASSUME PairsInv, PermitsConserved
  PROVE  LoadBounded
<1>0. Typed /\ Shaped /\ Staged /\ permits \in Nat
  BY DEF PairsInv
<1>1. /\ \A a \in Agents : Load[a] \in 0..Examples /\ Load[a] \in Nat
      /\ Examples \in Nat /\ MaxConcurrency \in Nat /\ Clients \intersect Workers = {}
  BY <1>0, UnrecordedTyped, ServerAssumption DEF Load
<1>2. CASE ~hasBatch
  <2>1. \A a \in Agents : Load[a] \in 0..1 /\ (Load[a] # 0 => Holding(a))
    BY <1>0, <1>2, SingleLoads DEF Shaped, Shape
  <2> DEFINE Carriers == {a \in Agents : Load[a] # 0}
  <2>2. Sum(Load, Agents) <= 1 * Cardinality(Carriers)
    BY <2>1, AgentsFinite, SumBounded
  <2>3. Carriers \subseteq Holders
    BY <2>1 DEF Holders
  <2>4. Cardinality(Carriers) <= Cardinality(Holders) /\ Cardinality(Carriers) \in Nat
    BY <2>3, AgentsFinite, FS_Subset DEF Holders
  <2>5. permits + Cardinality(Holders) = MaxConcurrency /\ Cardinality(Holders) \in Nat
    BY AgentsFinite DEF PermitsConserved, Holders
  <2>6. Sum(Load, Agents) \in Nat
    BY <1>1, AgentsFinite, SumSplits
  <2> HIDE DEF Carriers
  <2>7. Sum(Load, Agents) <= MaxConcurrency
    BY <1>0, <1>1, <2>2, <2>4, <2>5, <2>6
  <2> QED
    BY <1>2, <2>7 DEF LoadBounded, Width
<1>3. CASE hasBatch
  <2> DEFINE Rest == {w \in Workers : ag[w].for \notin Clients}
             Own == Agents \ Rest
             owner == [x \in Own |-> IF x \in Clients THEN x ELSE ag[x].for]
             Of(c) == {x \in Own : owner[x] = c}
  <2>1. /\ IsFiniteSet(Rest) /\ IsFiniteSet(Own) /\ Rest \intersect Own = {}
        /\ Agents = Own \union Rest /\ Rest \subseteq Agents /\ Own \subseteq Agents
    <3>1. Rest \subseteq Agents
      BY DEF Agents
    <3> QED
      BY <3>1, AgentsFinite
  <2>2. \A x \in Rest : Load[x] \in 0..0
    <3> SUFFICES ASSUME NEW x \in Rest PROVE Load[x] \in 0..0
      OBVIOUS
    <3>1. ag[x].pc = "idle"
      BY <1>0, <2>1 DEF Shaped, Shape
    <3> QED
      BY <2>1, <3>1 DEF Load, Unrecorded
  <2>3. owner \in [Own -> Clients]
    BY DEF Agents
  <2>4. ASSUME NEW c \in Clients PROVE Of(c) = {c} \union Tasks(c)
    BY <1>1 DEF Tasks, Agents
  <2> HIDE DEF Rest, Own, owner
  <2>5. ASSUME NEW c \in Clients PROVE Sum(Load, Of(c)) <= Examples
    <3>1. /\ Tasks(c) \subseteq Agents /\ {c} \union Tasks(c) \subseteq Agents
          /\ IsFiniteSet(Tasks(c)) /\ Cardinality(Tasks(c)) \in Nat /\ IsFiniteSet({c} \union Tasks(c))
      <4>1. Tasks(c) \subseteq Agents /\ {c} \union Tasks(c) \subseteq Agents
        BY DEF Tasks, Agents
      <4> QED
        BY <4>1, AgentsFinite
    <3>0. Sum(Load, Of(c)) = Sum(Load, {c} \union Tasks(c))
      BY <2>4
    <3> HIDE DEF Of
    <3>2. Sum(Load, Of(c)) \in Nat
      BY <1>1, <3>0, <3>1, SumSplits
    <3>3. Booked(c)
      BY <1>0 DEF Staged
    <3> DEFINE Carriers == {x \in {c} \union Tasks(c) : Load[x] # 0}
    <3>4. Carriers \subseteq Agents
      BY <3>1
    <3>5. IsFiniteSet(Carriers) /\ Cardinality(Carriers) \in Nat
      BY <3>4, AgentsFinite
    <3>6. CASE ag[c].pc = "wait"
      <4>1. Load[c] = 0
        BY <3>6 DEF Load, Unrecorded, Agents
      <4>2. \A x \in {c} \union Tasks(c) : Load[x] \in 0..1
        <5>1. ASSUME NEW x \in Tasks(c) PROVE Load[x] \in 0..1
          <6>1. x \in Agents /\ ~ag[x].grouped
            BY <1>0, <1>1 DEF Shaped, Shape, Tasks, Agents
          <6> QED
            BY <1>0, <6>1, SingleLoads
        <5> QED
          BY <4>1, <5>1
      <4>3. Sum(Load, Of(c)) <= 1 * Cardinality(Carriers)
        BY <3>0, <3>1, <4>2, SumBounded
      <4>4. Carriers \subseteq Tasks(c)
        BY <4>1
      <4>5. Cardinality(Carriers) <= Cardinality(Tasks(c))
        BY <3>1, <4>4, FS_Subset
      <4>6. Cardinality(Tasks(c)) <= Examples
        <5>1. todo[c] + Cardinality(Tasks(c)) + Done(c) = Examples
          BY <3>3, <3>6 DEF Booked
        <5>2. todo[c] \in Nat /\ Done(c) \in Nat
          BY <1>0 DEF Staged, Tallies, Done
        <5> QED
          BY <1>1, <3>1, <5>1, <5>2
      <4> HIDE DEF Carriers
      <4> QED
        BY <1>1, <3>1, <3>2, <3>5, <4>3, <4>5, <4>6
    <3>7. CASE ag[c].pc # "wait"
      <4>1. Tasks(c) = {}
        BY <3>3, <3>7 DEF Booked
      <4>2. Carriers \subseteq {c}
        BY <4>1
      <4>3. Cardinality(Carriers) <= 1
        <5> HIDE DEF Carriers
        <5>1. IsFiniteSet({c}) /\ Cardinality({c}) = 1
          BY FS_Singleton
        <5> QED
          BY <4>2, <5>1, FS_Subset
      <4>4. \A x \in {c} \union Tasks(c) : Load[x] \in 0..Examples
        BY <1>1, <3>1
      <4>5. Sum(Load, Of(c)) <= Examples * Cardinality(Carriers)
        BY <1>1, <3>0, <3>1, <4>4, SumBounded
      <4> HIDE DEF Carriers
      <4>6. Cardinality(Carriers) = 0 \/ Cardinality(Carriers) = 1
        BY <3>5, <4>3
      <4>7. Examples * Cardinality(Carriers) <= Examples
        BY <1>1, <4>6
      <4> QED
        BY <1>1, <3>2, <3>5, <4>5, <4>7
    <3> QED
      BY <3>6, <3>7
  <2>6. Sum(Load, Own) <= Cardinality(Clients) * Examples
    <3>1. IsFiniteSet(Clients) /\ \A x \in Own : Load[x] \in Nat
      BY <1>1, <2>1, ServerAssumption
    <3> QED
      BY <1>1, <2>1, <2>3, <2>5, <3>1, SumByOwner
  <2>7. Sum(Load, Rest) = 0 /\ Sum(Load, Own) \in Nat
    <3>1. Sum(Load, Rest) <= 0 * Cardinality({x \in Rest : Load[x] # 0})
      BY <2>1, <2>2, SumBounded
    <3>2. Sum(Load, Rest) \in Nat /\ Sum(Load, Own) \in Nat
      BY <1>1, <2>1, SumSplits
    <3>3. Cardinality({x \in Rest : Load[x] # 0}) \in Nat
      BY <2>1, AgentsFinite
    <3> QED
      BY <3>1, <3>2, <3>3
  <2>8. Sum(Load, Agents) = Sum(Load, Own) + Sum(Load, Rest)
    BY <1>1, <2>1, SumUnion
  <2> QED
    BY <1>3, <2>6, <2>7, <2>8 DEF LoadBounded, Width
<1> QED
  BY <1>2, <1>3

\* The work done past the cap is never more than what the other callers had in
\* flight when the last check found budget left.
THEOREM OverrunStaysBounded == Spec => []OverrunBounded
<1>1. Init => PairsInv /\ OverrunBounded
  <2> SUFFICES ASSUME Init PROVE OverrunBounded
    BY PairsInit
  <2>1. executed = 0 /\ MaxEvals \in Nat \ {0} /\ MaxConcurrency \in Nat /\ Examples \in Nat
    BY ServerAssumption DEF Init
  <2>2. Cardinality(Clients) \in Nat
    BY ServerAssumption, FS_CardinalityType
  <2>3. Cardinality(Clients) * Examples \in Nat
    BY <2>1, <2>2
  <2> QED
    BY <2>1, <2>3 DEF OverrunBounded, Width
<1>2. PairsInv /\ [Next]_vars => PairsInv'
  BY PairsKept
<1>3. PairsInv /\ PairsInv' /\ LoadBounded' /\ OverrunBounded /\ [Next]_vars => OverrunBounded'
  <2> SUFFICES ASSUME PairsInv, PairsInv', LoadBounded', OverrunBounded, [Next]_vars
               PROVE  OverrunBounded'
    OBVIOUS
  <2>1. CASE Next
    <3>1. PICK a \in Agents : Books(a)
      BY <2>1, StepBooks DEF PairsInv
    <3>2. CASE executed' = executed
      BY <3>1, <3>2 DEF Books, OverrunBounded, Width
    <3>3. CASE used < MaxEvals /\ used' = used
      <4>1. executed' = used' + Sum(Load', Agents)
        BY <3>3 DEF PairsInv
      <4>2. used \in Nat /\ used <= MaxEvals - 1 /\ MaxEvals \in Nat /\ executed' \in Nat
        BY <3>3, ServerAssumption DEF PairsInv, Typed
      <4>3. Sum(Load', Agents) <= Width'
        BY DEF LoadBounded
      <4>4. Width' \in Nat
        BY ServerAssumption, FS_CardinalityType DEF Width
      <4>5. Sum(Load', Agents) \in Nat
        <5>1. \A b \in Agents : Load'[b] \in Nat
          BY UnrecordedLater DEF PairsInv, Load
        <5> QED
          BY <5>1, AgentsFinite, SumSplits
      <4>6. executed' <= MaxEvals - 1 + Width'
        BY <3>3, <4>1, <4>2, <4>3, <4>4, <4>5
      <4> QED
        BY <4>6 DEF OverrunBounded, Width
    <3> QED
      BY <3>1, <3>2, <3>3 DEF Books, Accounts
  <2>2. CASE UNCHANGED vars
    BY <2>2 DEF vars, OverrunBounded, Width
  <2> QED
    BY <2>1, <2>2
<1>4. PairsInv /\ PermitsConserved => LoadBounded
  BY InFlightBounded
<1> QED
  BY <1>1, <1>2, <1>3, <1>4, PermitsNeverLeak, PTL DEF Spec

(***************************************************************************)
(* The server implements EvalLedger.                                       *)
(***************************************************************************)
\* What a step may do to the three books.
HandsOut(a) ==
    /\ used < MaxEvals /\ executed' = executed + ag[a].left /\ ag[a].left # 0
    /\ UNCHANGED <<used, log>>
ChargesOne(a) ==
    /\ used < MaxEvals /\ used' = used + 1 /\ Unrecorded(a) # 0
    /\ UNCHANGED <<executed, log>>
EntersOne(a) ==
    /\ ag[a].pc = "track" /\ UNCHANGED <<used, executed>>
    /\ log' = Append(log, [eval |-> used, score |-> ag[a].score, by |-> Candidate(a)])

LEMMA StepOfLedger ==
  ASSUME Typed, Shaped, Next
  PROVE  \/ UNCHANGED <<executed, used, log>>
         \/ \E a \in Agents : HandsOut(a) \/ ChargesOne(a) \/ EntersOne(a)
<1>1. ~Exhausted <=> used < MaxEvals
  BY ServerAssumption DEF Typed, Exhausted
<1>2. ASSUME NEW c \in Clients, CallEvaluate(c) \/ CallBatch(c) \/ CallExamples(c)
      PROVE  UNCHANGED <<executed, used, log>>
  BY <1>2 DEF CallEvaluate, CallBatch, CallExamples, Call
<1>3. ASSUME NEW a \in Agents, Evaluating(a)
      PROVE  UNCHANGED <<executed, used, log>> \/ HandsOut(a) \/ ChargesOne(a) \/ EntersOne(a)
  <2>1. Shape(a) /\ (ag[a].pc \in {"idle", "wait", "fail"} \/ ag[a].left # 0)
    BY DEF Shaped, Typed
  <2>2. CASE Acquire(a) \/ Return(a) \/ Raise(a)
    BY <2>2 DEF Acquire, Return, Raise
  <2>3. CASE Check(a)
    BY <2>1, <2>3, <1>1 DEF Check, Leave, HandsOut
  <2>4. CASE Record(a)
    BY <2>1, <2>4, <1>1 DEF Record, Leave, ChargesOne, Unrecorded
  <2>5. CASE RecordFailure(a)
    BY <2>1, <2>5, <1>1 DEF RecordFailure, Leave, ChargesOne, Unrecorded, Shape
  <2>6. CASE RecordGroupFailure(a)
    BY <2>1, <2>6, <1>1 DEF RecordGroupFailure, Leave, ChargesOne, Unrecorded
  <2>7. CASE Track(a)
    BY <2>7 DEF Track, EntersOne
  <2>8. CASE WriteRecord(a)
    BY <2>8 DEF WriteRecord, Leave
  <2> QED
    BY <1>3, <2>2, <2>3, <2>4, <2>5, <2>6, <2>7, <2>8 DEF Evaluating
<1>4. ASSUME NEW a \in Agents,
             \/ a \in Clients /\ Gather(a)
             \/ a \in Workers /\ \E c \in Clients : Take(a, c)
      PROVE  UNCHANGED <<executed, used, log>>
  BY <1>4 DEF Gather, Take
<1> QED
  BY <1>2, <1>3, <1>4 DEF Next, Running

LEMMA StepKeepsLedger ==
  ASSUME PairsInv, PairsInv', LoadBounded', LogInv, [Next]_vars
  PROVE  [Ledger!Next]_(Ledger!vars)
<1>1. /\ hasBatch' = hasBatch
      /\ used \in Nat /\ MaxEvals \in Nat /\ executed \in Nat /\ executed' \in Nat
      /\ Typed /\ Shaped
  <2>1. CASE Next
    <3>1. PICK a \in Agents : Books(a)
      BY <2>1, StepBooks DEF PairsInv
    <3> QED
      BY <3>1, ServerAssumption DEF Books, PairsInv, Typed
  <2>2. CASE UNCHANGED vars
    BY <2>2, ServerAssumption DEF vars, PairsInv, Typed
  <2> QED
    BY <2>1, <2>2
<1>2. Width' = Width /\ Width \in Nat
  <2>1. Cardinality(Clients) \in Nat /\ Examples \in Nat /\ MaxConcurrency \in Nat
    BY ServerAssumption, FS_CardinalityType
  <2>2. Cardinality(Clients) * Examples \in Nat
    BY <2>1
  <2> QED
    BY <1>1, <2>1, <2>2 DEF Width
<1>3. ASSUME NEW a \in Agents, HandsOut(a) PROVE Ledger!HandOut
  <2>1. executed' = used' + Sum(Load', Agents) /\ used' = used
    BY <1>3 DEF HandsOut, PairsInv
  <2>2. Sum(Load', Agents) <= Width
    BY <1>2 DEF LoadBounded
  <2>3. Sum(Load', Agents) \in Nat
    <3>1. \A b \in Agents : Load'[b] \in Nat
      BY UnrecordedLater DEF PairsInv, Load
    <3> QED
      BY <3>1, AgentsFinite, SumSplits
  <2>4. executed' > executed
    <3>1. ag[a].left \in Nat /\ ag[a].left # 0 /\ executed' = executed + ag[a].left
      BY <1>1, <1>3, ServerAssumption DEF HandsOut, Typed, Records
    <3> QED
      BY <3>1, <1>1
  <2>5. executed' <= used + Width
    BY <2>1, <2>2, <2>3, <1>1, <1>2
  <2> QED
    BY <1>2, <1>3, <2>4, <2>5 DEF HandsOut, Ledger!HandOut
<1>4. ASSUME NEW a \in Agents, ChargesOne(a) PROVE Ledger!Charge
  <2>1. executed = used + Sum(Load, Agents)
    BY <1>4 DEF ChargesOne, PairsInv
  <2>2. \A b \in Agents : Load[b] \in Nat
    BY <1>1, UnrecordedTyped DEF Load
  <2>3. /\ Sum(Load, Agents) = Load[a] + Sum(Load, Agents \ {a})
        /\ Sum(Load, Agents \ {a}) \in Nat
    BY <2>2, AgentsFinite, SumSplits
  <2>4. Load[a] \in Nat /\ Load[a] # 0
    BY <1>4, <2>2 DEF ChargesOne, Load
  <2>5. used < executed
    BY <2>1, <2>3, <2>4, <1>1
  <2> QED
    BY <1>2, <1>4, <2>5 DEF ChargesOne, Ledger!Charge
<1>5. ASSUME NEW a \in Agents, EntersOne(a) PROVE Ledger!Enter
  <2>1. a \in Tracking /\ IsFiniteSet(Tracking)
    BY <1>5, AgentsFinite DEF Tracking, EntersOne
  <2>2. Cardinality(Tracking) \in Nat /\ Cardinality(Tracking) # 0
    BY <2>1, FS_CardinalityType, FS_EmptySet
  <2>3. Len(log) \in Nat /\ Len(log) < used
    BY <1>1, <2>2, LogShape DEF LogInv
  <2> DEFINE e == [eval |-> used, score |-> ag[a].score, by |-> Candidate(a)]
  <2>4. log' = Append(log, e) /\ e.eval = used
    BY <1>5 DEF EntersOne
  <2> HIDE DEF e
  <2>5. Len(log') = Len(log) + 1 /\ log'[Len(log')] = e
    BY <2>3, <2>4 DEF LogInv, LogTyped
  <2> QED
    BY <1>2, <1>5, <2>3, <2>4, <2>5 DEF EntersOne, Ledger!Enter
<1>6. CASE Next
  BY <1>1, <1>2, <1>3, <1>4, <1>5, <1>6, StepOfLedger DEF Ledger!Next, Ledger!vars
<1>7. CASE UNCHANGED vars
  BY <1>2, <1>7 DEF vars, Ledger!vars
<1> QED
  BY <1>6, <1>7

\* The server is a ledger: whatever its callers do, it hands work out within the
\* budget and the width, charges only what it handed out, and logs only what it
\* charged, under the charge of the moment (budget.py, eval_server.py).
THEOREM ServerImplementsLedger == Spec => LedgerKept
<1>1. Init => Ledger!Init
  <2>1. Cardinality(Clients) \in Nat /\ Examples \in Nat /\ MaxConcurrency \in Nat
    BY ServerAssumption, FS_CardinalityType
  <2>2. Cardinality(Clients) * Examples \in Nat
    BY <2>1
  <2> QED
    BY <2>1, <2>2 DEF Init, Ledger!Init, Width
<1>2. PairsInv /\ [Next]_vars => PairsInv'
  BY PairsKept
<1>3. PairsInv /\ PermitsConserved => LoadBounded
  BY InFlightBounded
<1>4. PairsInv /\ PairsInv' /\ LoadBounded' /\ LogInv /\ [Next]_vars => [Ledger!Next]_(Ledger!vars)
  BY StepKeepsLedger
<1>5. Init => PairsInv
  BY PairsInit
<1> QED
  BY <1>1, <1>2, <1>3, <1>4, <1>5, PermitsNeverLeak, LogInvHolds, PTL
     DEF Spec, LedgerKept, Ledger!Spec

=============================================================================
