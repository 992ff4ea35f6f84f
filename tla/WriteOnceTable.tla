--------------------------- MODULE WriteOnceTable ---------------------------
(***************************************************************************)
(* What a journal promises: a table in which a key is written at most once  *)
(* and keeps what was written.                                              *)
(***************************************************************************)
CONSTANTS Keys, Empty

VARIABLE table

Init == table = [k \in Keys |-> Empty]

Write(k) ==
    /\ table[k] = Empty
    /\ table'[k] # Empty
    /\ table' = [table EXCEPT ![k] = table'[k]]

Next == \E k \in Keys : Write(k)

Spec == Init /\ [][Next]_table
=============================================================================
