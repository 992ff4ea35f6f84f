-------------------------- MODULE ProgressLog_proofs --------------------------
(***************************************************************************)
(* The progress log, its files and summary.json, for any number of          *)
(* threads, calls and candidates and any scores.  The invariant follows     *)
(* the best score: it is the best of the last entry, which every entry      *)
(* before bounds, and only Enter moves it, together with the log.           *)
(***************************************************************************)
EXTENDS ProgressLog, FiniteSetTheorems, TLAPS

Entries == [val : Int, best : Int, evals : Nat, id : Nat]

\* What a thread still holds when it comes to a step of log_progress.
Held(t) ==
    /\ at[t].pc = "register" => at[t].score \in Scores /\ at[t].cand \in Candidates
    /\ at[t].pc \in {"announce", "enter"} => at[t].score \in Scores /\ at[t].id \in Nat
    /\ at[t].pc \in {"row", "answer"} => at[t].entry \in DOMAIN progress

Tables ==
    /\ used \in Nat /\ bestVal \in Int
    /\ progress \in Seq(Entries) /\ registry \in Seq(Candidates)
    /\ DOMAIN at = Threads
    /\ \A t \in Threads : Held(t)

\* The best score is that of the log so far.
BestInv ==
    /\ Len(progress) = 0 => bestVal = NegInf
    /\ Len(progress) > 0 => bestVal = progress[Len(progress)].best
    /\ \A j \in DOMAIN progress :
          /\ progress[j].evals <= used
          /\ progress[j].val <= bestVal /\ progress[j].best <= bestVal

\* An answer covers the entry it is about, and was logged.
Answering ==
    \A t \in Threads : answers[t].entry > 0 =>
        /\ answers[t].entry \in DOMAIN progress
        /\ answers[t].best >= progress[answers[t].entry].best
        /\ \E k \in DOMAIN progress : answers[t].best = progress[k].val

AnswerTable == answers \in [Threads -> [entry : Nat, best : Int]]

PInv == Tables /\ BestInv /\ BestOverTime /\ AnswerTable /\ Answering

Quiet(t) ==
    \/ \E score \in Scores :
          Charge(t, score) \/ \E cand \in Candidates \union {NoCandidate} : CallProgress(t, cand, score)
    \/ Register(t) \/ WriteCandidate(t) \/ WriteRow(t)
    \/ Track(t) \/ TakeSnapshot(t) \/ WriteSummary(t)

LEMMA PInit == Init => PInv
  BY ProgressAssumption
  DEF Init, PInv, Tables, Held, Idle, BestInv, BestOverTime, AnswerTable, Answering, NoAnswer

\* Every other step leaves the log and the answers alone, and lets only the
\* budget grow.
LEMMA QuietKeeps ==
  ASSUME PInv, NEW t \in Threads, Quiet(t)
  PROVE  /\ UNCHANGED <<progress, bestVal, answers>>
         /\ used' \in Nat /\ used' >= used
         /\ Tables'
<1>1. UNCHANGED <<progress, bestVal, answers>>
  BY DEF Quiet, Charge, CallProgress, Register, WriteCandidate, WriteRow, Track, TakeSnapshot,
         WriteSummary
<1>2. used' \in Nat /\ used' >= used
  <2>1. used \in Nat  BY DEF PInv, Tables
  <2>2. used' = used \/ used' = used + 1
    BY DEF Quiet, Charge, CallProgress, Register, WriteCandidate, WriteRow, Track, TakeSnapshot,
           WriteSummary
  <2> QED  BY <2>1, <2>2
<1>3. DOMAIN at' = Threads
  BY DEF Quiet, Charge, CallProgress, Register, WriteCandidate, WriteRow, Track, TakeSnapshot,
         WriteSummary, PInv, Tables, Become
<1>4. \A u \in Threads \ {t} : at'[u] = at[u]
  BY DEF Quiet, Charge, CallProgress, Register, WriteCandidate, WriteRow, Track, TakeSnapshot,
         WriteSummary, PInv, Tables, Become
<1>5. registry' \in Seq(Candidates) /\ Held(t)'
  <2>0. /\ Held(t) /\ registry \in Seq(Candidates) /\ Len(registry) \in Nat
        /\ t \in DOMAIN at /\ progress' = progress
    BY <1>1 DEF PInv, Tables
  <2>1. ASSUME NEW score \in Scores, Charge(t, score) PROVE registry' \in Seq(Candidates) /\ Held(t)'
    BY <2>0, <2>1 DEF Charge, Become, Held
  <2>2. ASSUME NEW score \in Scores, NEW cand \in Candidates \union {NoCandidate},
               CallProgress(t, cand, score)
        PROVE registry' \in Seq(Candidates) /\ Held(t)'
    <3>1. CASE cand = NoCandidate  BY <2>0, <2>2, <3>1 DEF CallProgress, Become, Held
    <3>2. CASE cand # NoCandidate  BY <2>0, <2>2, <3>2 DEF CallProgress, Become, Held
    <3> QED  BY <3>1, <3>2
  <2>3. CASE Register(t)
    <3>1. CASE IsKnown(at[t].cand)
      <4>1. IdOf(at[t].cand) \in Nat
        <5>1. IdOf(at[t].cand) \in DOMAIN registry  BY <3>1 DEF IsKnown, IdOf
        <5> QED  BY <5>1, <2>0
      <4>2. /\ at'[t] = [pc |-> "enter", id |-> IdOf(at[t].cand), score |-> at[t].score]
            /\ at[t].pc = "register" /\ registry' = registry
        BY <2>0, <2>3, <3>1 DEF Register, Become
      <4> QED  BY <2>0, <4>1, <4>2 DEF Held
    <3>2. CASE ~IsKnown(at[t].cand)
      <4>1. /\ at'[t] = [pc |-> "announce", id |-> Len(registry) + 1, score |-> at[t].score]
            /\ at[t].pc = "register" /\ registry' = Append(registry, at[t].cand)
        BY <2>0, <2>3, <3>2 DEF Register, Become
      <4>2. Held(t)'  BY <2>0, <4>1 DEF Held
      <4>3. at[t].cand \in Candidates  BY <2>0, <4>1 DEF Held
      <4> QED  BY <4>1, <4>2, <4>3, <2>0
    <3> QED  BY <3>1, <3>2
  <2>4. CASE WriteCandidate(t)  BY <2>0, <2>4 DEF WriteCandidate, Become, Held
  <2>5. CASE WriteRow(t)  BY <2>0, <2>5 DEF WriteRow, Become, Held
  <2>6. CASE Track(t)  BY <2>0, <2>6 DEF Track, Become, Held
  <2>7. CASE TakeSnapshot(t)  BY <2>0, <2>7 DEF TakeSnapshot, Become, Held
  <2>8. CASE WriteSummary(t)  BY <2>0, <2>8 DEF WriteSummary, Become, Held, Idle
  <2> QED  BY <2>1, <2>2, <2>3, <2>4, <2>5, <2>6, <2>7, <2>8 DEF Quiet
<1>6. \A u \in Threads : Held(u)'
  BY <1>1, <1>4, <1>5 DEF PInv, Tables, Held
<1> QED  BY <1>1, <1>2, <1>3, <1>5, <1>6 DEF PInv, Tables
LEMMA EnterKeeps ==
  ASSUME PInv, NEW t \in Threads, Enter(t)
  PROVE  PInv'
<1>1. /\ at[t].pc = "enter" /\ at[t].score \in Scores /\ at[t].score \in Int
      /\ at[t].id \in Nat
  BY ProgressAssumption DEF PInv, Tables, Held, Enter
<1>2. /\ used \in Nat /\ bestVal \in Int /\ progress \in Seq(Entries)
      /\ Len(progress) \in Nat
  BY DEF PInv, Tables
<1> DEFINE n == Len(progress) + 1
           top == Higher(bestVal, at[t].score)
           entry == [val |-> at[t].score, best |-> top, evals |-> used, id |-> at[t].id]
<1>3. top \in Int /\ top >= bestVal /\ top >= at[t].score /\ top \in {bestVal, at[t].score}
  BY <1>1, <1>2 DEF Higher
<1>4. entry \in Entries /\ progress' = Append(progress, entry) /\ bestVal' = top
  BY <1>1, <1>2, <1>3 DEF Enter, Entry, Entries
<1> HIDE DEF top
<1>5. /\ progress' \in Seq(Entries) /\ Len(progress') = n /\ DOMAIN progress' = 1..n
      /\ progress'[n] = entry /\ \A k \in 1..Len(progress) : progress'[k] = progress[k]
      /\ DOMAIN progress = 1..Len(progress)
  BY <1>2, <1>4
<1>6. /\ used' = used /\ registry' = registry /\ answers' = answers
      /\ at' = [at EXCEPT ![t] = [pc |-> "row", entry |-> n]]
  BY DEF Enter, Become
<1>7. Tables'
  <2>1. DOMAIN at' = Threads /\ \A u \in Threads : at'[u] = IF u = t THEN [pc |-> "row", entry |-> n] ELSE at[u]
    BY <1>6 DEF PInv, Tables
  <2>2. ASSUME NEW u \in Threads PROVE Held(u)'
    <3>1. CASE u = t
      <4>1. at'[u] = [pc |-> "row", entry |-> n]  BY <2>1, <3>1
      <4> QED  BY <4>1, <1>2, <1>5 DEF Held
    <3>2. CASE u # t
      <4>1. at'[u] = at[u] /\ Held(u)  BY <2>1, <3>2 DEF PInv, Tables
      <4> QED  BY <4>1, <1>2, <1>5 DEF Held
    <3> QED  BY <3>1, <3>2
  <2> QED  BY <2>1, <2>2, <1>2, <1>3, <1>4, <1>5, <1>6 DEF PInv, Tables
<1>8. BestInv'
  <2>1. ASSUME NEW j \in 1..n
        PROVE progress'[j].evals <= used /\ progress'[j].val <= top /\ progress'[j].best <= top
    <3>1. CASE j = n  BY <3>1, <1>1, <1>2, <1>3, <1>5
    <3>2. CASE j # n
      <4>1. j \in 1..Len(progress) /\ progress'[j] = progress[j] /\ progress[j] \in Entries
        BY <3>2, <1>2, <1>5
      <4>2. progress[j].evals <= used /\ progress[j].val <= bestVal /\ progress[j].best <= bestVal
        BY <4>1, <1>5 DEF PInv, BestInv
      <4> QED  BY <4>1, <4>2, <1>2, <1>3 DEF Entries
    <3> QED  BY <3>1, <3>2
  <2>2. progress'[n].best = top  BY <1>5
  <2> QED  BY <2>1, <2>2, <1>2, <1>4, <1>5, <1>6 DEF BestInv
<1>9. BestOverTime'
  <2>1. ASSUME NEW j \in 1..n
        PROVE  /\ \E i \in 1..j : progress'[j].best = progress'[i].val
               /\ \A i \in 1..j : /\ progress'[i].val <= progress'[j].best
                                 /\ progress'[i].evals <= progress'[j].evals
    <3>1. CASE j # n
      <4>1. j \in 1..Len(progress) /\ \A i \in 1..j : progress'[i] = progress[i]
        BY <3>1, <1>2, <1>5
      <4> QED  BY <4>1, <1>5 DEF PInv, BestOverTime
    <3>2. CASE j = n
      <4>1. \A i \in 1..n : progress'[i].val <= top /\ progress'[i].evals <= used
        BY <1>4, <1>5, <1>6, <1>8 DEF BestInv
      <4>2. progress'[n].best = top /\ progress'[n].evals = used /\ progress'[n].val = at[t].score
        BY <1>5
      <4>3. \E i \in 1..n : top = progress'[i].val
        <5>1. CASE top = at[t].score  BY <5>1, <4>2, <1>2
        <5>2. CASE top # at[t].score
          <6>1. top = bestVal /\ bestVal > at[t].score  BY <5>2, <1>1, <1>2, <1>3
          <6>2. Len(progress) > 0
            BY <6>1, <1>1, <1>2, ProgressAssumption DEF PInv, BestInv
          <6>3. bestVal = progress[Len(progress)].best /\ Len(progress) \in 1..Len(progress)
            BY <6>2, <1>2 DEF PInv, BestInv
          <6>4. PICK i \in 1..Len(progress) : progress[Len(progress)].best = progress[i].val
            BY <6>3, <1>5 DEF PInv, BestOverTime
          <6> QED  BY <6>1, <6>3, <6>4, <1>2, <1>5
        <5> QED  BY <5>1, <5>2
      <4> QED  BY <3>2, <4>1, <4>2, <4>3
    <3> QED  BY <3>1, <3>2
  <2> QED  BY <2>1, <1>5 DEF BestOverTime
<1>10. AnswerTable' /\ Answering'
  <2>1. ASSUME NEW u \in Threads, answers[u].entry > 0
        PROVE  /\ answers[u].entry \in DOMAIN progress'
               /\ answers[u].best >= progress'[answers[u].entry].best
               /\ \E k \in DOMAIN progress' : answers[u].best = progress'[k].val
    <3>1. /\ answers[u].entry \in 1..Len(progress)
          /\ answers[u].best >= progress[answers[u].entry].best
      BY <2>1, <1>5 DEF PInv, Answering
    <3>2. PICK k \in 1..Len(progress) : answers[u].best = progress[k].val
      BY <2>1, <1>5 DEF PInv, Answering
    <3> QED  BY <3>1, <3>2, <1>2, <1>5
  <2> QED  BY <2>1, <1>6 DEF PInv, AnswerTable, Answering
<1> QED  BY <1>7, <1>8, <1>9, <1>10 DEF PInv

LEMMA AnswerKeeps ==
  ASSUME PInv, NEW t \in Threads, Answer(t)
  PROVE  PInv'
<1>1. /\ at[t].pc = "answer" /\ at[t].entry \in DOMAIN progress
      /\ progress \in Seq(Entries) /\ bestVal \in Int
  BY DEF PInv, Tables, Held, Answer
<1> DEFINE e == at[t].entry
<1>2. /\ answers' = [answers EXCEPT ![t] = [entry |-> e, best |-> bestVal]]
      /\ at' = [at EXCEPT ![t] = Idle]
      /\ UNCHANGED <<used, bestVal, progress, registry>>
  BY DEF Answer, Answered, Become
<1>3. e \in 1..Len(progress) /\ Len(progress) \in Nat /\ e \in Nat  BY <1>1
<1>4. Tables'
  <2>1. DOMAIN at' = Threads /\ \A u \in Threads : at'[u] = IF u = t THEN Idle ELSE at[u]
    BY <1>2 DEF PInv, Tables
  <2>2. ASSUME NEW u \in Threads PROVE Held(u)'
    BY <2>1, <1>2 DEF PInv, Tables, Held, Idle
  <2> QED  BY <2>1, <2>2, <1>2 DEF PInv, Tables
<1>5. bestVal >= progress[e].best /\ \E k \in DOMAIN progress : bestVal = progress[k].val
  <2>1. bestVal = progress[Len(progress)].best /\ Len(progress) \in 1..Len(progress)
    BY <1>3 DEF PInv, BestInv
  <2>2. PICK k \in 1..Len(progress) : progress[Len(progress)].best = progress[k].val
    BY <2>1, <1>1 DEF PInv, BestOverTime
  <2>3. progress[e].best <= bestVal  BY <1>1 DEF PInv, BestInv
  <2>4. progress[e] \in Entries  BY <1>1, <1>3
  <2>5. progress[e].best \in Int  BY <2>4 DEF Entries
  <2> QED  BY <2>1, <2>2, <2>3, <2>5, <1>1, <1>3
<1>6. AnswerTable'
  BY <1>1, <1>2, <1>3 DEF PInv, AnswerTable
<1>7. Answering'
  <2> SUFFICES ASSUME NEW u \in Threads, answers'[u].entry > 0
               PROVE  /\ answers'[u].entry \in DOMAIN progress
                      /\ answers'[u].best >= progress[answers'[u].entry].best
                      /\ \E k \in DOMAIN progress : answers'[u].best = progress[k].val
    BY <1>2 DEF Answering
  <2>1. CASE u = t
    <3>1. answers'[u] = [entry |-> e, best |-> bestVal]
      BY <1>2, <2>1 DEF PInv, AnswerTable
    <3> QED  BY <3>1, <1>1, <1>5
  <2>2. CASE u # t
    <3>1. answers'[u] = answers[u]  BY <1>2, <2>2 DEF PInv, AnswerTable
    <3> QED  BY <3>1 DEF PInv, Answering
  <2> QED  BY <2>1, <2>2
<1> QED  BY <1>2, <1>4, <1>6, <1>7 DEF PInv, BestInv, BestOverTime

LEMMA PStep == PInv /\ [Next]_vars => PInv'
<1> SUFFICES ASSUME PInv, [Next]_vars PROVE PInv'
  OBVIOUS
<1>1. CASE UNCHANGED vars
  BY <1>1 DEF vars, PInv, Tables, Held, BestInv, BestOverTime, AnswerTable, Answering
<1>2. ASSUME NEW t \in Threads, Quiet(t) PROVE PInv'
  <2>1. /\ UNCHANGED <<progress, bestVal, answers>>
        /\ used' \in Nat /\ used' >= used /\ Tables'
    BY <1>2, QuietKeeps
  <2>2. BestInv'
    <3>1. \A j \in DOMAIN progress : progress[j] \in Entries
      BY DEF PInv, Tables
    <3> QED  BY <2>1, <3>1 DEF PInv, Tables, BestInv, Entries
  <2> QED  BY <2>1, <2>2 DEF PInv, BestOverTime, AnswerTable, Answering
<1>3. ASSUME NEW t \in Threads, Enter(t) \/ Answer(t) PROVE PInv'
  BY <1>3, EnterKeeps, AnswerKeeps
<1> QED  BY <1>1, <1>2, <1>3 DEF Next, Step, Quiet

(***************************************************************************)
(* Whatever threads overtake each other between reading the budget, the     *)
(* registry and the log: every entry of the progress log has the best score *)
(* up to itself, and the budget in it never goes back.                      *)
(***************************************************************************)
THEOREM LogTellsBest == Spec => []BestOverTime
  BY PInit, PStep, PTL DEF Spec, PInv

(***************************************************************************)
(* The best score that log_progress reads after leaving the lock never      *)
(* understates the entry it has logged and is always one that was logged.   *)
(***************************************************************************)
THEOREM AnswersCover == Spec => []AnswersCoverEntry
<1>1. PInv => AnswersCoverEntry
  BY DEF PInv, Answering, AnswersCoverEntry
<1> QED  BY <1>1, PInit, PStep, PTL DEF Spec

-----------------------------------------------------------------------------
(* The files.                                                              *)

\* A list of 1..n of which rows has some, once each, and the pairs of a thread
\* and a number in P are the rest, each with one thread.
Ledger(rows, n, P) ==
    /\ rows \in Seq(1..n) /\ IsInjective(rows)
    /\ \A p \in P : p[2] \in 1..n /\ p[2] \notin Range(rows)
    /\ \A p, q \in P : p[2] = q[2] => p = q
    /\ \A k \in 1..n : k \in Range(rows) \/ \E p \in P : p[2] = k

LEMMA LedgerGrows ==
  ASSUME NEW rows, NEW n \in Nat, NEW P, Ledger(rows, n, P), NEW t
  PROVE  Ledger(rows, n + 1, P \union {<<t, n + 1>>})
<1>1. Range(rows) \subseteq 1..n
  BY DEF Ledger, Range
<1>2. rows \in Seq(1..(n + 1))
  BY DEF Ledger
<1> DEFINE new == <<t, n + 1>>
<1>3. new[2] = n + 1 /\ n + 1 \in 1..(n + 1) /\ n + 1 \notin 1..n
  OBVIOUS
<1> HIDE DEF new
<1>4. \A p \in P : p[2] \in 1..n /\ p[2] \in 1..(n + 1) /\ p[2] \notin Range(rows)
  BY DEF Ledger
<1>5. \A p, q \in P \union {new} : p[2] = q[2] => p = q
  BY <1>3, <1>4 DEF Ledger
<1>6. ASSUME NEW k \in 1..(n + 1)
      PROVE  k \in Range(rows) \/ \E p \in P \union {new} : p[2] = k
  <2>1. CASE k \in 1..n  BY <2>1 DEF Ledger
  <2>2. CASE k = n + 1  BY <2>2, <1>3
  <2> QED  BY <2>1, <2>2
<1>7. \A p \in P \union {new} : p[2] \in 1..(n + 1) /\ p[2] \notin Range(rows)
  BY <1>1, <1>3, <1>4
<1>8. IsInjective(rows)
  BY DEF Ledger
<1>9. Ledger(rows, n + 1, P \union {new})
  BY <1>2, <1>5, <1>6, <1>7, <1>8 DEF Ledger
<1> QED  BY <1>9 DEF new

LEMMA LedgerWrites ==
  ASSUME NEW rows, NEW n \in Nat, NEW P, Ledger(rows, n, P), NEW p \in P
  PROVE  Ledger(Append(rows, p[2]), n, P \ {p})
<1> DEFINE after == Append(rows, p[2])
<1>1. /\ rows \in Seq(1..n) /\ Len(rows) \in Nat /\ p[2] \in 1..n /\ p[2] \notin Range(rows)
      /\ DOMAIN rows = 1..Len(rows)
  BY DEF Ledger
<1>2. /\ after \in Seq(1..n) /\ DOMAIN after = 1..(Len(rows) + 1)
      /\ after[Len(rows) + 1] = p[2] /\ \A k \in 1..Len(rows) : after[k] = rows[k]
  BY <1>1
<1> HIDE DEF after
<1>3. \A k \in 1..Len(rows) : rows[k] \in Range(rows)
  BY <1>1 DEF Range
<1>4. IsInjective(after)
  <2> SUFFICES ASSUME NEW a \in 1..(Len(rows) + 1), NEW b \in 1..(Len(rows) + 1), after[a] = after[b]
               PROVE  a = b
    BY <1>2 DEF IsInjective
  <2>1. CASE a \in 1..Len(rows) /\ b \in 1..Len(rows)
    BY <1>1, <1>2, <2>1 DEF Ledger, IsInjective
  <2>2. CASE a \in 1..Len(rows) /\ b = Len(rows) + 1
    BY <1>1, <1>2, <1>3, <2>2
  <2>3. CASE a = Len(rows) + 1 /\ b \in 1..Len(rows)
    BY <1>1, <1>2, <1>3, <2>3
  <2>4. CASE a = Len(rows) + 1 /\ b = Len(rows) + 1
    BY <2>4
  <2> QED  BY <1>1, <2>1, <2>2, <2>3, <2>4
<1>5. Range(after) = Range(rows) \union {p[2]}
  <2>1. Range(after) \subseteq Range(rows) \union {p[2]}
    <3> SUFFICES ASSUME NEW a \in 1..(Len(rows) + 1)
                 PROVE  after[a] \in Range(rows) \union {p[2]}
      BY <1>2 DEF Range
    <3>1. a \in 1..Len(rows) \/ a = Len(rows) + 1  BY <1>1
    <3> QED  BY <1>2, <1>3, <3>1
  <2>2. Range(rows) \subseteq Range(after)
    <3> SUFFICES ASSUME NEW a \in 1..Len(rows) PROVE rows[a] \in Range(after)
      BY <1>1 DEF Range
    <3>1. a \in DOMAIN after /\ after[a] = rows[a]  BY <1>1, <1>2
    <3> QED  BY <3>1 DEF Range
  <2>3. p[2] \in Range(after)
    <3>1. Len(rows) + 1 \in DOMAIN after  BY <1>1, <1>2
    <3> QED  BY <1>2, <3>1 DEF Range
  <2> QED  BY <2>1, <2>2, <2>3
<1>6. \A q \in P \ {p} : q[2] \in 1..n /\ q[2] \notin Range(after)
  BY <1>5 DEF Ledger
<1>7. \A k \in 1..n : k \in Range(after) \/ \E q \in P \ {p} : q[2] = k
  BY <1>5 DEF Ledger
<1> QED  BY <1>2, <1>4, <1>6, <1>7 DEF Ledger, after

\* Who is about to write which candidate, and which entry.
Announcing == {p \in Threads \X Nat : at[p[1]].pc = "announce" /\ at[p[1]].id = p[2]}
Writing == {p \in Threads \X Nat : at[p[1]].pc = "row" /\ at[p[1]].entry = p[2]}
Of(t) == {p \in Threads \X Nat : p[1] = t}

FilesInv ==
    /\ IsInjective(registry)
    /\ Ledger(candidateRows, Len(registry), Announcing)
    /\ Ledger(progressRows, Len(progress), Writing)

\* A thread moves: it holds what its new place says, and others what they held.
LEMMA Moves ==
  ASSUME NEW t \in Threads, DOMAIN at = Threads, NEW s, at' = [at EXCEPT ![t] = s]
  PROVE  /\ s.pc # "announce" => Announcing' = Announcing \ Of(t)
         /\ s.pc # "row" => Writing' = Writing \ Of(t)
         /\ at[t].pc # "announce" => Announcing = Announcing \ Of(t)
         /\ at[t].pc # "row" => Writing = Writing \ Of(t)
<1>1. at'[t] = s /\ \A u \in Threads \ {t} : at'[u] = at[u]
  OBVIOUS
<1>2. \A p \in Threads \X Nat : p[1] \in Threads
  OBVIOUS
<1> QED  BY <1>1, <1>2 DEF Announcing, Writing, Of

LEMMA FilesStep ==
  ASSUME PInv, FilesInv, Next
  PROVE  FilesInv'
<1>0. /\ DOMAIN at = Threads /\ \A t \in Threads : Held(t)
      /\ Len(registry) \in Nat /\ registry \in Seq(Candidates)
      /\ Len(progress) \in Nat /\ progress \in Seq(Entries)
  BY DEF PInv, Tables
<1>1. ASSUME NEW t \in Threads, NEW s, at' = [at EXCEPT ![t] = s],
             at[t].pc \notin {"announce", "row"}, s.pc \notin {"announce", "row"},
             UNCHANGED <<registry, progress, candidateRows, progressRows>>
      PROVE  FilesInv'
  <2>1. Announcing' = Announcing /\ Writing' = Writing
    BY <1>0, <1>1, Moves
  <2> QED  BY <1>1, <2>1 DEF FilesInv
<1>2. ASSUME NEW t \in Threads, Register(t) PROVE FilesInv'
  <2>1. CASE IsKnown(at[t].cand)
    <3>1. at' = [at EXCEPT ![t] = [pc |-> "enter", id |-> IdOf(at[t].cand), score |-> at[t].score]]
          /\ at[t].pc = "register"
          /\ UNCHANGED <<registry, progress, candidateRows, progressRows>>
      BY <1>2, <2>1 DEF Register, Become
    <3> QED  BY <1>1, <3>1
  <2>2. CASE ~IsKnown(at[t].cand)
    <3> DEFINE n == Len(registry) + 1
               s == [pc |-> "announce", id |-> n, score |-> at[t].score]
    <3>1. /\ at' = [at EXCEPT ![t] = s] /\ at[t].pc = "register"
          /\ registry' = Append(registry, at[t].cand)
          /\ UNCHANGED <<progress, candidateRows, progressRows>>
      BY <1>2, <2>2 DEF Register, Become
    <3>2. at[t].cand \in Candidates  BY <1>0, <3>1 DEF Held
    <3>3. Len(registry') = n /\ IsInjective(registry')
      <4>1. /\ Len(registry') = n /\ DOMAIN registry' = 1..n /\ registry'[n] = at[t].cand
            /\ \A k \in 1..Len(registry) : registry'[k] = registry[k]
            /\ DOMAIN registry = 1..Len(registry)
        BY <1>0, <3>1, <3>2
      <4>2. \A k \in 1..Len(registry) : registry[k] # at[t].cand
        BY <2>2, <4>1 DEF IsKnown
      <4>3. ASSUME NEW a \in 1..n, NEW b \in 1..n, registry'[a] = registry'[b] PROVE a = b
        <5>1. a \in 1..Len(registry) \/ a = n  BY <1>0
        <5>2. b \in 1..Len(registry) \/ b = n  BY <1>0
        <5>3. CASE a \in 1..Len(registry) /\ b \in 1..Len(registry)
          BY <4>1, <4>3, <5>3 DEF FilesInv, IsInjective
        <5> QED  BY <4>1, <4>2, <4>3, <5>1, <5>2, <5>3
      <4> QED  BY <4>1, <4>3 DEF IsInjective
    <3>4. Announcing' = Announcing \union {<<t, n>>} /\ Writing' = Writing
      <4>1. Writing' = Writing
        <5>1. PICK r : r = s  OBVIOUS
        <5>2. r.pc = "announce"  BY <5>1
        <5> QED  BY <1>0, <3>1, <5>1, <5>2, Moves
      <4>2. at'[t] = s /\ \A u \in Threads \ {t} : at'[u] = at[u]  BY <1>0, <3>1
      <4>3. <<t, n>> \in Threads \X Nat /\ s.pc = "announce" /\ s.id = n  BY <1>0
      <4>4. ASSUME NEW u \in Threads, NEW k \in Nat
            PROVE  <<u, k>> \in Announcing' <=> <<u, k>> \in Announcing \union {<<t, n>>}
        <5>1. CASE u = t
          <6>1. <<u, k>> \in Announcing' <=> k = n
            BY <4>2, <4>3, <5>1 DEF Announcing
          <6>2. <<u, k>> \notin Announcing
            BY <3>1, <5>1 DEF Announcing
          <6> QED  BY <5>1, <6>1, <6>2
        <5>2. CASE u # t
          BY <4>2, <5>2 DEF Announcing
        <5> QED  BY <5>1, <5>2
      <4>5. Announcing' \subseteq Threads \X Nat /\ Announcing \subseteq Threads \X Nat
        BY DEF Announcing
      <4> QED  BY <4>1, <4>3, <4>4, <4>5
    <3>5. Ledger(candidateRows, n, Announcing \union {<<t, n>>})
      BY <1>0, LedgerGrows DEF FilesInv
    <3> QED  BY <3>1, <3>3, <3>4, <3>5 DEF FilesInv
  <2> QED  BY <2>1, <2>2
<1>3. ASSUME NEW t \in Threads, WriteCandidate(t) PROVE FilesInv'
  <2> DEFINE s == [pc |-> "enter", id |-> at[t].id, score |-> at[t].score]
             p == <<t, at[t].id>>
  <2>1. /\ at' = [at EXCEPT ![t] = s] /\ at[t].pc = "announce"
        /\ candidateRows' = Append(candidateRows, at[t].id)
        /\ UNCHANGED <<registry, progress, progressRows>>
    BY <1>3 DEF WriteCandidate, Become
  <2>2. at[t].id \in Nat  BY <1>0, <2>1 DEF Held
  <2>3. p \in Announcing /\ p[2] = at[t].id  BY <2>1, <2>2 DEF Announcing
  <2>4. Announcing \ Of(t) = Announcing \ {p}
    <3>1. \A q \in Announcing : q[1] = t => q = p  BY DEF Announcing
    <3>2. p \in Threads \X Nat /\ p[1] = t  BY <2>2
    <3>3. Announcing \subseteq Threads \X Nat  BY DEF Announcing
    <3> QED  BY <3>1, <3>2, <3>3 DEF Of
  <2>5. Announcing' = Announcing \ {p} /\ Writing' = Writing
    <3>1. PICK r : r = s  OBVIOUS
    <3>2. r.pc = "enter"  BY <3>1
    <3> QED  BY <1>0, <2>1, <2>4, <3>1, <3>2, Moves
  <2>6. Ledger(Append(candidateRows, p[2]), Len(registry), Announcing \ {p})
    BY <1>0, <2>3, LedgerWrites DEF FilesInv
  <2> QED  BY <2>1, <2>3, <2>5, <2>6 DEF FilesInv
<1>4. ASSUME NEW t \in Threads, Enter(t) PROVE FilesInv'
  <2> DEFINE n == Len(progress) + 1
             s == [pc |-> "row", entry |-> n]
  <2>1. /\ at' = [at EXCEPT ![t] = s] /\ at[t].pc = "enter"
        /\ UNCHANGED <<registry, candidateRows, progressRows>>
    BY <1>4 DEF Enter, Become
  <2>2. Len(progress') = n
    BY <1>0, <1>4 DEF Enter
  <2>3. Writing' = Writing \union {<<t, n>>} /\ Announcing' = Announcing
    <3>1. Announcing' = Announcing
      <4>1. PICK r : r = s  OBVIOUS
      <4>2. r.pc = "row"  BY <4>1
      <4> QED  BY <1>0, <2>1, <4>1, <4>2, Moves
    <3>2. at'[t] = s /\ \A u \in Threads \ {t} : at'[u] = at[u]  BY <1>0, <2>1
    <3>3. <<t, n>> \in Threads \X Nat /\ s.pc = "row" /\ s.entry = n  BY <1>0
    <3>4. ASSUME NEW u \in Threads, NEW k \in Nat
          PROVE  <<u, k>> \in Writing' <=> <<u, k>> \in Writing \union {<<t, n>>}
      <4>1. CASE u = t
        <5>1. <<u, k>> \in Writing' <=> k = n
          BY <3>2, <3>3, <4>1 DEF Writing
        <5>2. <<u, k>> \notin Writing
          BY <2>1, <4>1 DEF Writing
        <5> QED  BY <4>1, <5>1, <5>2
      <4>2. CASE u # t
        BY <3>2, <4>2 DEF Writing
      <4> QED  BY <4>1, <4>2
    <3>5. Writing' \subseteq Threads \X Nat /\ Writing \subseteq Threads \X Nat
      BY DEF Writing
    <3> QED  BY <3>1, <3>3, <3>4, <3>5
  <2>4. Ledger(progressRows, n, Writing \union {<<t, n>>})
    BY <1>0, LedgerGrows DEF FilesInv
  <2> QED  BY <2>1, <2>2, <2>3, <2>4 DEF FilesInv
<1>5. ASSUME NEW t \in Threads, WriteRow(t) PROVE FilesInv'
  <2> DEFINE s == [pc |-> "answer", entry |-> at[t].entry]
             p == <<t, at[t].entry>>
  <2>1. /\ at' = [at EXCEPT ![t] = s] /\ at[t].pc = "row"
        /\ progressRows' = Append(progressRows, at[t].entry)
        /\ UNCHANGED <<registry, progress, candidateRows>>
    BY <1>5 DEF WriteRow, Row, Become
  <2>2. at[t].entry \in Nat
    <3>1. at[t].entry \in DOMAIN progress  BY <1>0, <2>1 DEF Held
    <3> QED  BY <1>0, <3>1
  <2>3. p \in Writing /\ p[2] = at[t].entry  BY <2>1, <2>2 DEF Writing
  <2>4. Writing \ Of(t) = Writing \ {p}
    <3>1. \A q \in Writing : q[1] = t => q = p  BY DEF Writing
    <3>2. p \in Threads \X Nat /\ p[1] = t  BY <2>2
    <3>3. Writing \subseteq Threads \X Nat  BY DEF Writing
    <3> QED  BY <3>1, <3>2, <3>3 DEF Of
  <2>5. Writing' = Writing \ {p} /\ Announcing' = Announcing
    <3>1. PICK r : r = s  OBVIOUS
    <3>2. r.pc = "answer"  BY <3>1
    <3> QED  BY <1>0, <2>1, <2>4, <3>1, <3>2, Moves
  <2>6. Ledger(Append(progressRows, p[2]), Len(progress), Writing \ {p})
    BY <1>0, <2>3, LedgerWrites DEF FilesInv
  <2> QED  BY <2>1, <2>3, <2>5, <2>6 DEF FilesInv
<1>6. ASSUME NEW t \in Threads,
             Answer(t) \/ Track(t) \/ TakeSnapshot(t) \/ WriteSummary(t)
               \/ \E score \in Scores : Charge(t, score)
      PROVE  FilesInv'
  <2>1. PICK s : /\ at' = [at EXCEPT ![t] = s] /\ s.pc \notin {"announce", "row"}
                 /\ at[t].pc \notin {"announce", "row"}
    BY <1>6 DEF Answer, Track, TakeSnapshot, WriteSummary, Charge, Become, Idle
  <2>2. UNCHANGED <<registry, progress, candidateRows, progressRows>>
    BY <1>6 DEF Answer, Track, TakeSnapshot, WriteSummary, Charge
  <2> QED  BY <1>1, <2>1, <2>2
<1>7. ASSUME NEW t \in Threads, NEW score \in Scores, NEW cand \in Candidates \union {NoCandidate},
             CallProgress(t, cand, score)
      PROVE  FilesInv'
  <2>1. PICK s : /\ at' = [at EXCEPT ![t] = s] /\ s.pc \in {"enter", "register"}
                 /\ at[t].pc = "idle"
    <3>1. CASE cand = NoCandidate
      <4>1. /\ at' = [at EXCEPT ![t] = [pc |-> "enter", id |-> 0, score |-> score]]
            /\ at[t].pc = "idle"
        BY <1>7, <3>1 DEF CallProgress, Become
      <4> QED  BY <4>1
    <3>2. CASE cand # NoCandidate
      <4>1. /\ at' = [at EXCEPT ![t] = [pc |-> "register", cand |-> cand, score |-> score]]
            /\ at[t].pc = "idle"
        BY <1>7, <3>2 DEF CallProgress, Become
      <4> QED  BY <4>1
    <3> QED  BY <3>1, <3>2
  <2>2. UNCHANGED <<registry, progress, candidateRows, progressRows>>
    BY <1>7 DEF CallProgress
  <2> QED  BY <1>1, <2>1, <2>2
<1> QED  BY <1>2, <1>3, <1>4, <1>5, <1>6, <1>7 DEF Next, Step

(***************************************************************************)
(* One row for each candidate and each entry, however threads overtake each *)
(* other between the table and its file: nothing is written twice, and what *)
(* is missing is in the hands of one thread.                                *)
(***************************************************************************)
THEOREM FilesAlwaysResolve == Spec => []FilesResolve
<1>1. Init => FilesInv
  <2> SUFFICES ASSUME Init PROVE FilesInv
    OBVIOUS
  <2>1. Announcing = {} /\ Writing = {}
    BY DEF Init, Idle, Announcing, Writing
  <2> QED  BY <2>1 DEF Init, FilesInv, Ledger, IsInjective, Range
<1>2. PInv /\ FilesInv /\ [Next]_vars => FilesInv'
  <2>1. ASSUME FilesInv, UNCHANGED vars PROVE FilesInv'
    BY <2>1 DEF vars, FilesInv, Announcing, Writing
  <2> QED  BY <2>1, FilesStep
<1>3. PInv /\ FilesInv => FilesResolve
  <2> SUFFICES ASSUME PInv, FilesInv PROVE FilesResolve
    OBVIOUS
  <2>1. DOMAIN registry = 1..Len(registry) /\ DOMAIN progress = 1..Len(progress)
    BY DEF PInv, Tables
  <2>2. \A k \in DOMAIN registry :
          k \in Range(candidateRows) \/ \E t \in Threads : at[t].pc = "announce" /\ at[t].id = k
    <3> SUFFICES ASSUME NEW k \in 1..Len(registry), k \notin Range(candidateRows)
                 PROVE  \E t \in Threads : at[t].pc = "announce" /\ at[t].id = k
      BY <2>1
    <3>1. PICK p \in Announcing : p[2] = k  BY DEF FilesInv, Ledger
    <3>2. p[1] \in Threads /\ at[p[1]].pc = "announce" /\ at[p[1]].id = k  BY <3>1 DEF Announcing
    <3> QED  BY <3>2
  <2>3. \A k \in DOMAIN progress :
          k \in Range(progressRows) \/ \E t \in Threads : at[t].pc = "row" /\ at[t].entry = k
    <3> SUFFICES ASSUME NEW k \in 1..Len(progress), k \notin Range(progressRows)
                 PROVE  \E t \in Threads : at[t].pc = "row" /\ at[t].entry = k
      BY <2>1
    <3>1. PICK p \in Writing : p[2] = k  BY DEF FilesInv, Ledger
    <3>2. p[1] \in Threads /\ at[p[1]].pc = "row" /\ at[p[1]].entry = k  BY <3>1 DEF Writing
    <3> QED  BY <3>2
  <2> QED  BY <2>2, <2>3 DEF FilesResolve, FilesInv, Ledger
<1> QED  BY <1>1, <1>2, <1>3, PInit, PStep, PTL DEF Spec

-----------------------------------------------------------------------------
(* summary.json.                                                           *)

Tracking == {t \in Threads : at[t].pc = "track"}

\* The snapshot was true of the evaluations it counts, and it remains so.
Good(s) ==
    /\ s.entries \in 1..Len(evalLog) /\ s.evals \in Nat
    /\ \E k \in 1..s.entries : evalLog[k].score = s.best
    /\ \A k \in 1..s.entries : evalLog[k].score <= s.best
    /\ s.entries <= s.evals /\ evalLog[s.entries].eval <= s.evals /\ s.evals <= used

Log ==
    /\ evalLog \in Seq([score : Int, eval : Nat]) /\ bestScore \in Int /\ used \in Nat
    /\ DOMAIN at = Threads
    /\ Len(evalLog) = 0 => bestScore = NegInf
    /\ Len(evalLog) > 0 => \E k \in 1..Len(evalLog) : evalLog[k].score = bestScore
    /\ \A k \in 1..Len(evalLog) : evalLog[k].score <= bestScore /\ evalLog[k].eval <= used

\* Every entry was charged, and so was what is still to be tracked.
Charged == IsFiniteSet(Tracking) /\ Len(evalLog) + Cardinality(Tracking) <= used

Snapshots ==
    /\ \A t \in Threads :
          /\ at[t].pc = "track" => at[t].score \in Scores
          /\ at[t].pc = "snapshot" => Len(evalLog) > 0
          /\ at[t].pc = "summary" => Good(at[t].snapshot)
    /\ summary = <<>> \/ \E s : summary = <<s>> /\ Good(s)

SumInv == Log /\ Charged /\ Snapshots

LEMMA SumInit == Init => SumInv
<1> SUFFICES ASSUME Init PROVE SumInv
  OBVIOUS
<1>1. Tracking = {}  BY DEF Init, Idle, Tracking
<1>2. IsFiniteSet(Tracking) /\ Cardinality(Tracking) = 0  BY <1>1, FS_EmptySet
<1> QED  BY <1>2, ProgressAssumption DEF Init, Idle, SumInv, Log, Charged, Snapshots

\* A step that leaves the log of evaluations and summary.json alone, of a
\* thread that is not at the end of one.
LEMMA Elsewhere ==
  ASSUME SumInv, NEW t \in Threads, NEW s, at' = [at EXCEPT ![t] = s],
         at[t].pc \notin {"track"}, s.pc \notin {"track", "snapshot", "summary"},
         UNCHANGED <<evalLog, bestScore, used>>,
         summary' = summary \/ (at[t].pc = "summary" /\ summary' = <<at[t].snapshot>>)
  PROVE  SumInv'
<1>1. DOMAIN at = Threads /\ DOMAIN at' = Threads
      /\ at'[t] = s /\ \A u \in Threads \ {t} : at'[u] = at[u]
  BY DEF SumInv, Log
<1>2. Tracking' = Tracking
  BY <1>1 DEF Tracking
<1>3. \A x : Good(x)' <=> Good(x)
  BY DEF Good
<1>4. Log' /\ Charged'
  BY <1>1, <1>2 DEF SumInv, Log, Charged
<1>5. Snapshots'
  <2>1. ASSUME NEW u \in Threads
        PROVE  /\ at'[u].pc = "track" => at'[u].score \in Scores
               /\ at'[u].pc = "snapshot" => Len(evalLog') > 0
               /\ at'[u].pc = "summary" => Good(at[u].snapshot)' /\ at'[u] = at[u]
    <3>1. CASE u = t  BY <1>1, <3>1
    <3>2. CASE u # t  BY <1>1, <1>3, <3>2 DEF SumInv, Snapshots
    <3> QED  BY <3>1, <3>2
  <2>2. summary' = <<>> \/ \E x : summary' = <<x>> /\ Good(x)
    BY DEF SumInv, Snapshots
  <2> QED  BY <2>1, <2>2, <1>3 DEF Snapshots, Good
<1> QED  BY <1>4, <1>5 DEF SumInv

LEMMA Element ==
  ASSUME NEW S, NEW s \in Seq(S), NEW k \in 1..Len(s)
  PROVE  s[k] \in S
  OBVIOUS

\* The log of evaluations is only ever extended, and the budget only spent.
Extends ==
    /\ Len(evalLog') \in Nat /\ Len(evalLog') >= Len(evalLog)
    /\ \A k \in 1..Len(evalLog) : evalLog'[k] = evalLog[k]
    /\ used' \in Nat /\ used' >= used

LEMMA GoodStays ==
  ASSUME Log, Extends, NEW s, Good(s)
  PROVE  Good(s)'
<1>1. s.entries \in 1..Len(evalLog) /\ Len(evalLog) \in Nat /\ used \in Nat
  BY DEF Good, Log
<1>2. \A k \in 1..s.entries : k \in 1..Len(evalLog) /\ evalLog'[k] = evalLog[k]
  BY <1>1 DEF Extends
<1>3. s.entries \in 1..Len(evalLog')
  BY <1>1 DEF Extends
<1>4. s.evals \in Nat /\ s.evals <= used'
  BY <1>1 DEF Good, Extends
<1>5. evalLog'[s.entries] = evalLog[s.entries]
  BY <1>1, <1>2
<1> QED  BY <1>2, <1>3, <1>4, <1>5 DEF Good

\* Snapshots of other threads, and the file, stay true.
LEMMA SnapshotsStay ==
  ASSUME Log, Snapshots, Extends, NEW t \in Threads,
         \A u \in Threads \ {t} : at'[u] = at[u],
         at'[t].pc = "track" => at'[t].score \in Scores,
         at'[t].pc = "snapshot" => Len(evalLog') > 0,
         at'[t].pc = "summary" => Good(at[t].snapshot)',
         UNCHANGED summary
  PROVE  Snapshots'
<1>1. ASSUME NEW u \in Threads
      PROVE  /\ at'[u].pc = "track" => at'[u].score \in Scores
             /\ at'[u].pc = "snapshot" => Len(evalLog') > 0
             /\ at'[u].pc = "summary" => Good(at[u].snapshot)'
  <2>1. CASE u = t  BY <2>1
  <2>2. CASE u # t
    <3>1. at'[u] = at[u]  BY <2>2
    <3>2. ASSUME at[u].pc = "summary" PROVE Good(at[u].snapshot)'
      <4>1. PICK x : x = at[u].snapshot  OBVIOUS
      <4>2. x = at'[u].snapshot  BY <3>1, <4>1
      <4>3. Good(x)  BY <3>2, <4>1 DEF Snapshots
      <4>4. Good(x)'  BY <4>3, GoodStays
      <4> QED  BY <4>2, <4>4 DEF Good
    <3>3. Len(evalLog) > 0 => Len(evalLog') > 0  BY DEF Extends, Log
    <3> QED  BY <3>1, <3>2, <3>3 DEF Snapshots
  <2> QED  BY <2>1, <2>2
<1>2. summary' = <<>> \/ \E x : summary' = <<x>> /\ Good(x)'
  BY GoodStays DEF Snapshots
<1> QED  BY <1>1, <1>2 DEF Snapshots

LEMMA ChargeKeeps ==
  ASSUME SumInv, NEW t \in Threads, NEW score \in Scores, Charge(t, score)
  PROVE  SumInv'
<1>1. /\ at' = [at EXCEPT ![t] = [pc |-> "track", score |-> score]] /\ at[t].pc = "idle"
      /\ used' = used + 1 /\ UNCHANGED <<evalLog, bestScore, summary>>
  BY DEF Charge, Become
<1>2. /\ DOMAIN at = Threads /\ DOMAIN at' = Threads
      /\ at'[t] = [pc |-> "track", score |-> score] /\ \A u \in Threads \ {t} : at'[u] = at[u]
      /\ used \in Nat /\ Len(evalLog) \in Nat /\ evalLog \in Seq([score : Int, eval : Nat])
  BY <1>1 DEF SumInv, Log
<1>3. Tracking' = Tracking \union {t} /\ t \notin Tracking
  BY <1>1, <1>2 DEF Tracking
<1>4. /\ IsFiniteSet(Tracking') /\ Cardinality(Tracking) \in Nat
      /\ Cardinality(Tracking') = Cardinality(Tracking) + 1
  BY <1>3, FS_AddElement, FS_CardinalityType DEF SumInv, Charged
<1>5. Charged'
  BY <1>1, <1>2, <1>4 DEF SumInv, Charged
<1>6. \A k \in 1..Len(evalLog) : evalLog[k].eval \in Nat /\ evalLog[k].score \in Int
  <2>1. \A k \in 1..Len(evalLog) : evalLog[k] \in [score : Int, eval : Nat]
      BY <1>2, Element
  <2> QED  BY <2>1
<1>7. Log'
  <2>1. ASSUME NEW k \in 1..Len(evalLog)
        PROVE  evalLog[k].score <= bestScore /\ evalLog[k].eval <= used + 1
    <3>1. evalLog[k].score <= bestScore /\ evalLog[k].eval <= used
      BY DEF SumInv, Log
    <3> QED  BY <1>2, <1>6, <3>1
  <2>2. used + 1 \in Nat  BY <1>2
  <2>3. \A k \in 1..Len(evalLog) : evalLog[k].eval <= used'  BY <1>1, <2>1
  <2> QED  BY <1>1, <1>2, <2>1, <2>2, <2>3 DEF SumInv, Log
<1>8. Snapshots'
  <2>1. \A u \in Threads \ {t} : at'[u] = at[u]  BY <1>2
  <2>2. at'[t].pc = "track" /\ at'[t].score \in Scores  BY <1>2
  <2>3. Extends  BY <1>1, <1>2 DEF Extends
  <2> QED  BY <2>1, <2>2, <2>3, <1>1, SnapshotsStay DEF SumInv
<1> QED  BY <1>5, <1>7, <1>8 DEF SumInv

LEMMA TrackKeeps ==
  ASSUME SumInv, NEW t \in Threads, Track(t)
  PROVE  SumInv'
<1> DEFINE n == Len(evalLog) + 1
           x == at[t].score
           entry == [score |-> x, eval |-> used]
<1>1. /\ at' = [at EXCEPT ![t] = [pc |-> "snapshot"]] /\ at[t].pc = "track"
      /\ evalLog' = Append(evalLog, entry) /\ bestScore' = Higher(bestScore, x)
      /\ used' = used /\ summary' = summary
  BY DEF Track, Become
<1>2. /\ DOMAIN at = Threads /\ DOMAIN at' = Threads
      /\ at'[t].pc = "snapshot" /\ \A u \in Threads \ {t} : at'[u] = at[u]
      /\ used \in Nat /\ bestScore \in Int /\ Len(evalLog) \in Nat
      /\ evalLog \in Seq([score : Int, eval : Nat])
  BY <1>1 DEF SumInv, Log
<1>3. x \in Scores /\ x \in Int /\ NegInf < x
  BY <1>1, ProgressAssumption DEF SumInv, Snapshots
<1>4. /\ evalLog' \in Seq([score : Int, eval : Nat]) /\ Len(evalLog') = n
      /\ evalLog'[n] = entry /\ \A k \in 1..Len(evalLog) : evalLog'[k] = evalLog[k]
  BY <1>1, <1>2, <1>3
<1>5. Charged'
  <2>1. Tracking' = Tracking \ {t} /\ t \in Tracking
    BY <1>1, <1>2 DEF Tracking
  <2>2. /\ IsFiniteSet(Tracking') /\ Cardinality(Tracking) \in Nat
        /\ Cardinality(Tracking') = Cardinality(Tracking) - 1
    BY <2>1, FS_RemoveElement, FS_CardinalityType DEF SumInv, Charged
  <2> QED  BY <1>1, <1>2, <1>4, <2>2 DEF SumInv, Charged
<1>6. Log'
  <2>1. /\ bestScore' \in Int /\ bestScore' >= bestScore /\ bestScore' >= x
        /\ bestScore' \in {bestScore, x}
    BY <1>1, <1>2, <1>3 DEF Higher
  <2>2. \A k \in 1..Len(evalLog) : evalLog[k].score \in Int
    <3>1. \A k \in 1..Len(evalLog) : evalLog[k] \in [score : Int, eval : Nat]
      BY <1>2, Element
    <3> QED  BY <3>1
  <2>3. evalLog'[n].score = x /\ evalLog'[n].eval = used  BY <1>4
  <2>4. ASSUME NEW k \in 1..n
        PROVE  evalLog'[k].score <= bestScore' /\ evalLog'[k].eval <= used
    <3>1. CASE k = n  BY <2>1, <2>3, <3>1, <1>2, <1>3
    <3>2. CASE k \in 1..Len(evalLog)
      <4>1. evalLog[k].score <= bestScore /\ evalLog[k].eval <= used
        BY <3>2 DEF SumInv, Log
      <4>2. evalLog'[k] = evalLog[k]  BY <1>4, <3>2
      <4> QED  BY <4>1, <4>2, <2>1, <2>2, <1>2, <3>2
    <3> QED  BY <3>1, <3>2, <1>2
  <2>5. \E k \in 1..n : evalLog'[k].score = bestScore'
    <3>0. n \in 1..n  BY <1>2
    <3>1. CASE bestScore' = x  BY <3>0, <3>1, <2>3
    <3>2. CASE bestScore' # x
      <4>1. bestScore' = bestScore /\ NegInf < bestScore
        BY <2>1, <3>2, <1>2, <1>3, ProgressAssumption
      <4>2. Len(evalLog) > 0
        BY <4>1, <1>2, ProgressAssumption DEF SumInv, Log
      <4>3. PICK k \in 1..Len(evalLog) : evalLog[k].score = bestScore
        BY <4>2 DEF SumInv, Log
      <4>4. evalLog'[k] = evalLog[k] /\ k \in 1..n  BY <1>2, <1>4, <4>3
      <4> QED  BY <4>1, <4>3, <4>4
    <3> QED  BY <3>1, <3>2
  <2>6. Len(evalLog') # 0  BY <1>2, <1>4
  <2> QED  BY <1>1, <1>2, <1>4, <2>1, <2>4, <2>5, <2>6 DEF Log
<1>7. Snapshots'
  <2>1. Extends  BY <1>1, <1>2, <1>4 DEF Extends
  <2>2. Len(evalLog') > 0  BY <1>2, <1>4
  <2> QED  BY <1>1, <1>2, <2>1, <2>2, SnapshotsStay DEF SumInv
<1> QED  BY <1>5, <1>6, <1>7 DEF SumInv

LEMMA SnapshotKeeps ==
  ASSUME SumInv, NEW t \in Threads, TakeSnapshot(t)
  PROVE  SumInv'
<1>1. /\ at' = [at EXCEPT ![t] = [pc |-> "summary", snapshot |-> Snapshot]] /\ at[t].pc = "snapshot"
      /\ UNCHANGED <<evalLog, bestScore, used, summary>>
  BY DEF TakeSnapshot, Become
<1>2. /\ DOMAIN at = Threads /\ DOMAIN at' = Threads
      /\ at'[t] = [pc |-> "summary", snapshot |-> Snapshot]
      /\ \A u \in Threads \ {t} : at'[u] = at[u]
      /\ Len(evalLog) \in Nat /\ used \in Nat
  BY <1>1 DEF SumInv, Log
<1>3. Tracking' = Tracking
  BY <1>1, <1>2 DEF Tracking
<1>4. Log' /\ Charged'
  BY <1>1, <1>2, <1>3 DEF SumInv, Log, Charged
<1>5. Good(Snapshot)
  <2>1. Len(evalLog) > 0  BY <1>1 DEF SumInv, Snapshots
  <2>2. Len(evalLog) <= used
    <3>1. Cardinality(Tracking) \in Nat  BY FS_CardinalityType DEF SumInv, Charged
    <3> QED  BY <1>2, <3>1 DEF SumInv, Charged
  <2>3. Len(evalLog) \in 1..Len(evalLog)  BY <1>2, <2>1
  <2>4. /\ evalLog[Len(evalLog)].eval <= used
        /\ \E k \in 1..Len(evalLog) : evalLog[k].score = bestScore
        /\ \A k \in 1..Len(evalLog) : evalLog[k].score <= bestScore
    BY <2>1, <2>3 DEF SumInv, Log
  <2> QED  BY <1>2, <2>2, <2>3, <2>4 DEF Good, Snapshot
<1>6. Good(at[t].snapshot)'
  <2>1. PICK s : s = Snapshot  OBVIOUS
  <2>2. at'[t].snapshot = s  BY <1>2, <2>1
  <2>3. Good(s)  BY <1>5, <2>1 DEF Good
  <2> QED  BY <1>1, <2>2, <2>3 DEF Good
<1>7. Snapshots'
  <2>1. Extends  BY <1>1, <1>2 DEF Extends
  <2>2. at'[t].pc = "summary"  BY <1>2
  <2> QED  BY <1>1, <1>2, <1>6, <2>1, <2>2, SnapshotsStay DEF SumInv
<1> QED  BY <1>4, <1>7 DEF SumInv

LEMMA SumStep ==
  ASSUME PInv, SumInv, Next
  PROVE  SumInv'
<1>1. ASSUME NEW t \in Threads, Register(t) PROVE SumInv'
  <2>1. CASE IsKnown(at[t].cand)
    <3>1. /\ at' = [at EXCEPT ![t] = [pc |-> "enter", id |-> IdOf(at[t].cand), score |-> at[t].score]]
          /\ at[t].pc = "register" /\ UNCHANGED <<evalLog, bestScore, used, summary>>
      BY <1>1, <2>1 DEF Register, Become
    <3>2. PICK s : s = [pc |-> "enter", id |-> IdOf(at[t].cand), score |-> at[t].score]  OBVIOUS
    <3>3. s.pc = "enter"  BY <3>2
    <3> QED  BY <3>1, <3>2, <3>3, Elsewhere
  <2>2. CASE ~IsKnown(at[t].cand)
    <3>1. /\ at' = [at EXCEPT ![t] = [pc |-> "announce", id |-> Len(registry) + 1, score |-> at[t].score]]
          /\ at[t].pc = "register" /\ UNCHANGED <<evalLog, bestScore, used, summary>>
      BY <1>1, <2>2 DEF Register, Become
    <3>2. PICK s : s = [pc |-> "announce", id |-> Len(registry) + 1, score |-> at[t].score]  OBVIOUS
    <3>3. s.pc = "announce"  BY <3>2
    <3> QED  BY <3>1, <3>2, <3>3, Elsewhere
  <2> QED  BY <2>1, <2>2
<1>2. ASSUME NEW t \in Threads, WriteCandidate(t) \/ Enter(t) \/ WriteRow(t) \/ Answer(t) PROVE SumInv'
  <2>1. PICK s : /\ at' = [at EXCEPT ![t] = s] /\ s.pc \in {"enter", "row", "answer", "idle"}
                 /\ at[t].pc # "track"
    <3>1. CASE WriteCandidate(t)  BY <3>1 DEF WriteCandidate, Become
    <3>2. CASE Enter(t)  BY <3>2 DEF Enter, Become
    <3>3. CASE WriteRow(t)  BY <3>3 DEF WriteRow, Become
    <3>4. CASE Answer(t)  BY <3>4 DEF Answer, Become, Idle
    <3> QED  BY <1>2, <3>1, <3>2, <3>3, <3>4
  <2>2. UNCHANGED <<evalLog, bestScore, used, summary>>
    BY <1>2 DEF WriteCandidate, Enter, WriteRow, Answer
  <2> QED  BY <2>1, <2>2, Elsewhere
<1>3. ASSUME NEW t \in Threads, WriteSummary(t) PROVE SumInv'
  <2>1. /\ at' = [at EXCEPT ![t] = Idle] /\ at[t].pc = "summary" /\ Idle.pc = "idle"
        /\ summary' = <<at[t].snapshot>> /\ UNCHANGED <<evalLog, bestScore, used>>
    BY <1>3 DEF WriteSummary, Written, Become, Idle
  <2> QED  BY <2>1, Elsewhere
<1>4. ASSUME NEW t \in Threads, NEW score \in Scores, NEW cand \in Candidates \union {NoCandidate},
             CallProgress(t, cand, score)
      PROVE  SumInv'
  <2>1. PICK s : /\ at' = [at EXCEPT ![t] = s] /\ s.pc \in {"enter", "register"}
                 /\ at[t].pc = "idle"
    <3>1. CASE cand = NoCandidate
      <4>1. /\ at' = [at EXCEPT ![t] = [pc |-> "enter", id |-> 0, score |-> score]]
            /\ at[t].pc = "idle"
        BY <1>4, <3>1 DEF CallProgress, Become
      <4> QED  BY <4>1
    <3>2. CASE cand # NoCandidate
      <4>1. /\ at' = [at EXCEPT ![t] = [pc |-> "register", cand |-> cand, score |-> score]]
            /\ at[t].pc = "idle"
        BY <1>4, <3>2 DEF CallProgress, Become
      <4> QED  BY <4>1
    <3> QED  BY <3>1, <3>2
  <2>2. UNCHANGED <<evalLog, bestScore, used, summary>>
    BY <1>4 DEF CallProgress
  <2> QED  BY <2>1, <2>2, Elsewhere
<1> QED
  BY <1>1, <1>2, <1>3, <1>4, ChargeKeeps, TrackKeeps, SnapshotKeeps DEF Next, Step

(***************************************************************************)
(* Whoever writes summary.json last, and however late: its best score is    *)
(* that of the evaluations it counts, and all of them were charged.         *)
(***************************************************************************)
THEOREM SummaryIsTrue == Spec => []SummaryIsConsistent
<1>1. PInv /\ SumInv /\ [Next]_vars => SumInv'
  <2>1. ASSUME SumInv, UNCHANGED vars PROVE SumInv'
    BY <2>1 DEF vars, SumInv, Log, Charged, Snapshots, Tracking, Good
  <2> QED  BY <2>1, SumStep
<1>2. SumInv => SummaryIsConsistent
  <2> SUFFICES ASSUME SumInv, summary # <<>> PROVE SummaryIsConsistent
    BY DEF SummaryIsConsistent
  <2>1. PICK s : summary = <<s>> /\ Good(s)  BY DEF SumInv, Snapshots
  <2>2. summary[1] = s  BY <2>1
  <2> QED  BY <2>1, <2>2 DEF SummaryIsConsistent, Good
<1> QED  BY <1>1, <1>2, SumInit, PInit, PStep, PTL DEF Spec
=============================================================================
