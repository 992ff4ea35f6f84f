----------------------------- MODULE DurableRun -----------------------------
(***************************************************************************)
(* What an optimization run promises about its candidate pool: a process   *)
(* grows the pool one program at a time, now and then the whole pool       *)
(* becomes durable, and a process that dies loses exactly what it had not  *)
(* saved. Nothing durable is ever dropped or reordered.                    *)
(***************************************************************************)
EXTENDS Naturals, Sequences

CONSTANT Entries     \* what the pool is made of

VARIABLES
    log,             \* the pool in memory, <<>> when no process runs
    saved            \* the durable pool, <<>> before the first save

vars == <<log, saved>>

Init == log = <<>> /\ saved = <<>>

\* A process starts from the durable pool, or from one seed program.
Open ==
    /\ log = <<>>
    /\ IF saved = <<>> THEN Len(log') = 1 /\ log'[1] \in Entries ELSE log' = saved
    /\ UNCHANGED saved

Grow ==
    /\ log # <<>>
    /\ Len(log') = Len(log) + 1
    /\ log'[Len(log')] \in Entries
    /\ log' = Append(log, log'[Len(log')])
    /\ UNCHANGED saved

Save ==
    /\ log # <<>>
    /\ saved' = log
    /\ UNCHANGED log

Lose == log' = <<>> /\ UNCHANGED saved

Next == Open \/ Grow \/ Save \/ Lose

Spec == Init /\ [][Next]_vars

=============================================================================
