------------------------------ MODULE EvalLedger ------------------------------
(***************************************************************************)
(* What the evaluation server promises of its books: work is handed out    *)
(* only while the budget lasts and only as far as a fixed width ahead of    *)
(* the charges, only what was handed out is charged, and only what was     *)
(* charged is entered in the log, under the charge of the moment.          *)
(***************************************************************************)
EXTENDS Integers, Sequences

CONSTANT Budget      \* charges admitted

VARIABLES
    width,           \* work that may be handed out and not yet charged
    handed,          \* work handed out
    charged,         \* charges made
    entries          \* the log

vars == <<width, handed, charged, entries>>

Init == width \in Nat /\ handed = 0 /\ charged = 0 /\ entries = <<>>

HandOut ==
    /\ charged < Budget
    /\ handed' > handed /\ handed' <= charged + width
    /\ UNCHANGED <<width, charged, entries>>

Charge ==
    /\ charged < Budget /\ charged < handed
    /\ charged' = charged + 1
    /\ UNCHANGED <<width, handed, entries>>

Enter ==
    /\ Len(entries) < charged
    /\ Len(entries') = Len(entries) + 1
    /\ entries' = Append(entries, entries'[Len(entries')])
    /\ entries'[Len(entries')].eval = charged
    /\ UNCHANGED <<width, handed, charged>>

Next == HandOut \/ Charge \/ Enter

Spec == Init /\ [][Next]_vars
=============================================================================
