-------------------------- MODULE AdaptiveSequential --------------------------
(***************************************************************************)
(* optimize_adaptive_sequential_with_server (oa/ensemble.py): engines take  *)
(* turns on one evaluation budget, whose limit is lowered for each slice    *)
(* and put back after it.  Evaluations that an engine started may still be  *)
(* running when it has returned (the HTTP server of oa/eval_server.py has a *)
(* thread for each), and are charged whenever they end; the scheduler reads *)
(* the counter without a lock, so its reads are steps of their own.         *)
(*                                                                         *)
(* What an engine reports is a choice.  A candidate is known by the score   *)
(* that it was returned with; only results that beat one another matter.    *)
(***************************************************************************)
EXTENDS Integers

CONSTANTS Settings,   \* arguments of a call: records as in SettingsAssumption
          Scores,     \* scores an engine may report
          NegInf,     \* float("-inf"), an engine's score without an aggregate one
          Nobody,     \* no result yet
          Seed,       \* the candidate of the caller's task
          MaxStrays,  \* bound: evaluations that outlive their slice at once
          MaxUsed     \* bound: evaluations when the budget is unlimited

None == -1

ASSUME SettingsAssumption ==
    /\ \A c \in Settings :
          /\ c.budget \in Nat \union {None}        \* the server's max_evals
          /\ c.engines \in Nat \ {0}               \* len(configs)
          /\ c.plateau \in Nat \ {0}               \* plateau_evals
          /\ c.patience \in Nat \ {0}
          /\ c.least \in Nat                       \* min_evals_per_stage
          /\ c.epsilon \in Nat                     \* improvement_epsilon
          /\ c.cycle \in BOOLEAN
          /\ c.switches \in Nat \union {None}      \* max_switches
    /\ Scores \subseteq Int /\ NegInf \in Int
    /\ \A c \in Settings : \A s \in Scores \ {NegInf} : NegInf + c.epsilon < s
    /\ Nobody \notin Scores /\ Seed \notin Scores
    /\ {MaxStrays, MaxUsed} \subseteq Nat

VARIABLES
    c,          \* the arguments
    pc,         \* where the scheduler is
    cap,        \* budget.max_evals
    used,       \* budget.used
    strays,     \* evaluations running that no engine waits for
    remaining,  \* budget.remaining as read at the head of the loop
    before,     \* before_evals
    result,     \* the result of the slice
    best,       \* best_so_far
    top,        \* the highest score an engine has reported
    seed,       \* server.task.seed_candidate
    idx,        \* current_idx
    stageEvals, \* current_stage_evals
    flat,       \* no_improvement_slices
    idle,       \* idle_slices_in_round
    switches

budget == <<cap, used, strays>>
turn == <<idx, stageEvals, flat, idle, switches>>
vars == <<c, pc, budget, remaining, before, result, best, top, seed, turn>>

Init ==
    /\ c \in Settings
    /\ pc = "head"
    /\ cap = c.budget /\ used = 0 /\ strays = 0
    /\ remaining = None /\ before = 0
    /\ result = Nobody /\ best = Nobody /\ top = NegInf /\ seed = Seed
    /\ idx = 1 /\ stageEvals = 0 /\ flat = 0 /\ idle = 0 /\ switches = 0

\* BudgetTracker.record
Full == cap # None /\ used >= cap

\* The loop ends, by a break or an exception: the finally clause.
LeaveMutant ==
    /\ pc' = "done"
    /\ cap' = c.budget
    /\ seed' = seed
Leave ==
    /\ pc' = "done"
    /\ cap' = c.budget
    /\ seed' = Seed

BelowLeast(left) == best # Nobody /\ left # None /\ left < c.least

TopOfLoop ==
    /\ pc = "head"
    /\ LET left == IF cap = None THEN None ELSE IF used < cap THEN cap - used ELSE 0
       IN  /\ remaining' = left
           /\ IF left = 0 THEN Leave
              ELSE IF BelowLeast(left) THEN Leave
              ELSE pc' = "cap" /\ UNCHANGED <<cap, seed>>
    /\ UNCHANGED <<c, used, strays, before, result, best, top, turn>>

Smaller(a, b) == IF a < b THEN a ELSE b
SliceEvals == IF remaining = None THEN c.plateau ELSE Smaller(c.plateau, remaining)

\* Evaluations may have been charged since remaining was read.
LoweredMutant == used + SliceEvals
Lowered == IF c.budget = None THEN used + SliceEvals ELSE Smaller(c.budget, used + SliceEvals)

LowerCap ==
    /\ pc = "cap"
    /\ cap' = Lowered
    /\ pc' = "before"
    /\ UNCHANGED <<c, used, strays, remaining, before, result, best, top, seed, turn>>

ReadBefore ==
    /\ pc = "before"
    /\ before' = used
    /\ pc' = "run"
    /\ UNCHANGED <<c, budget, remaining, result, best, top, seed, turn>>

\* The engine of the slice evaluates, starts an evaluation that it does not
\* wait for (the check before it passes), returns or raises.
Evaluate ==
    /\ pc = "run" /\ ~Full /\ used < MaxUsed
    /\ used' = used + 1
    /\ UNCHANGED <<c, pc, cap, strays, remaining, before, result, best, top, seed, turn>>

StartStray ==
    /\ pc = "run" /\ ~Full /\ strays < MaxStrays
    /\ strays' = strays + 1
    /\ UNCHANGED <<c, pc, cap, used, remaining, before, result, best, top, seed, turn>>

\* At any later time it is charged, or refused by the limit of that time.
StrayEnds ==
    /\ strays > 0 /\ pc # "done"
    /\ Full \/ used < MaxUsed
    /\ strays' = strays - 1
    /\ used' = IF Full THEN used ELSE used + 1
    /\ UNCHANGED <<c, pc, cap, remaining, before, result, best, top, seed, turn>>

EngineReturns(score) ==
    /\ pc = "run"
    /\ result' = score
    /\ top' = IF score > top THEN score ELSE top
    /\ pc' = "restore"
    /\ UNCHANGED <<c, budget, remaining, before, best, seed, turn>>

EngineRaises ==
    /\ pc = "run"
    /\ Leave
    /\ UNCHANGED <<c, used, strays, remaining, before, result, best, top, turn>>

RestoreCap ==
    /\ pc = "restore"
    /\ cap' = c.budget
    /\ pc' = "judge"
    /\ UNCHANGED <<c, used, strays, remaining, before, result, best, top, seed, turn>>

\* A first result of -inf becomes the best one but is no improvement.
ImprovedMutant ==
    IF best = Nobody THEN result # NegInf ELSE result >= best + c.epsilon
Improved ==
    IF best = Nobody THEN result # NegInf ELSE result > best + c.epsilon
Best == IF best = Nobody \/ Improved THEN result ELSE best
Delta == used - before

\* idle_slices_in_round after the slice
Idle == IF Improved THEN 0 ELSE IF Delta = 0 THEN idle + 1 ELSE 0

Flat == IF Improved THEN 0 ELSE flat + 1
StageEvals == stageEvals + Delta
ShouldSwitch == Flat >= c.patience /\ StageEvals >= c.least /\ c.engines > 1

\* The engine to switch to; none after the last one unless they take turns.
NextIdx == IF idx < c.engines THEN idx + 1 ELSE 1
LastTurn == idx = c.engines /\ ~c.cycle
NoSwitchLeft == c.switches # None /\ switches >= c.switches

\* The task carries the best candidate to the next slice.
CarryMutant == seed' = result
Carry == seed' = Best

Stops ==
    \/ Idle >= c.engines /\ Leave
    \/ Idle < c.engines /\ ShouldSwitch /\ NoSwitchLeft /\ Leave
    \/ Idle < c.engines /\ ShouldSwitch /\ ~NoSwitchLeft /\ LastTurn /\ Leave

JudgeAndStop ==
    /\ pc = "judge"
    /\ Stops
    /\ best' = Best
    /\ stageEvals' = StageEvals /\ flat' = Flat /\ idle' = Idle
    /\ UNCHANGED <<c, used, strays, remaining, before, result, top, idx, switches>>

JudgeAndSwitch ==
    /\ pc = "judge"
    /\ Idle < c.engines /\ ShouldSwitch /\ ~NoSwitchLeft /\ ~LastTurn
    /\ idx' = NextIdx /\ switches' = switches + 1
    /\ stageEvals' = 0 /\ flat' = 0
    /\ best' = Best /\ idle' = Idle
    /\ Carry
    /\ pc' = "head"
    /\ UNCHANGED <<c, budget, remaining, before, result, top>>

JudgeAndStay ==
    /\ pc = "judge"
    /\ Idle < c.engines /\ ~ShouldSwitch
    /\ stageEvals' = StageEvals /\ flat' = Flat
    /\ best' = Best /\ idle' = Idle
    /\ Carry
    /\ pc' = "head"
    /\ UNCHANGED <<c, budget, remaining, before, result, top, idx, switches>>

Schedule ==
    \/ TopOfLoop \/ LowerCap \/ ReadBefore \/ RestoreCap
    \/ JudgeAndStop \/ JudgeAndSwitch \/ JudgeAndStay
    \/ \E score \in Scores : EngineReturns(score)

Next == Schedule \/ Evaluate \/ StartStray \/ StrayEnds \/ EngineRaises

Spec == Init /\ [][Next]_vars

\* The scheduler is a plain loop, and an engine returns in the end: it has a
\* limit of evaluations, or of time without one, or a cost limit.
FairSpec == Spec /\ WF_vars(Schedule)

-----------------------------------------------------------------------------
(* Properties.                                                               *)

\* "One hard eval budget" (ensemble.py:552): however late an evaluation is
\* charged, and whatever limit it meets, the slices together spend no more
\* than the server was given.
BudgetKept == c.budget # None => used <= c.budget

\* However the scheduler is left, through a break, the end of the loop or an
\* exception of an engine, the caller gets back the limit and the task of its
\* server.
ServerGivenBack == pc = "done" => cap = c.budget /\ seed = Seed

\* The server is lent to each slice in part and given back whole.
BudgetLent == BudgetKept /\ ServerGivenBack

\* "A regressing slice cannot poison a later engine" (ensemble.py:553): no
\* slice starts from a candidate that an earlier result beats by more than
\* improvement_epsilon.
SeededByBest ==
    pc = "run" /\ best # Nobody => seed # Seed /\ top <= seed + c.epsilon

\* The best result is never given up for a worse one.
BestOnlyImproves == [][best # Nobody => best' # Nobody /\ best' >= best]_vars

\* With a limited budget the scheduler stops: no engines take turns for ever
\* without spending anything, also when evaluations end late.
Terminates == c.budget # None => <>(pc = "done")
=============================================================================
