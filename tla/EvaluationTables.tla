-------------------------- MODULE EvaluationTables --------------------------
(***************************************************************************)
(* The valset evaluations an adapter can hand to core/state.py, as the     *)
(* tables of frontier keys GEPAState works on. Scores are scaled by Scale  *)
(* so that the mean of an objective over the examples is an integer.       *)
(***************************************************************************)
EXTENDS Integers, FiniteSets, FiniteSetsExt

CONSTANTS
    Vals,            \* validation example ids
    Objectives,      \* objective names
    RawScores,       \* scores of one example
    Scale,           \* common multiple of 1..Cardinality(Vals)
    Bottom           \* the score standing for float("-inf")

\* The mean over the examples that report the objective.
Aggregate(obj, o) ==
    LET reporting == {v \in Vals : <<v, o>> \in DOMAIN obj}
    IN  MapThenSumSet(LAMBDA v : obj[<<v, o>>], reporting) \div Cardinality(reporting)

\* A valset evaluation scores the examples the policy chose; objective scores
\* come with every one of them or not at all.
Table(val, obj) ==
    [k \in {<<"val", v>> : v \in DOMAIN val}
           \union {<<"cartesian", p[1], p[2]>> : p \in DOMAIN obj}
           \union {<<"objective", p[2]>> : p \in DOMAIN obj} |->
        CASE k[1] = "val"       -> val[k[2]]
          [] k[1] = "cartesian" -> obj[<<k[2], k[3]>>]
          [] k[1] = "objective" -> Aggregate(obj, k[2])]

Scaled == {IF s = Bottom THEN s ELSE Scale * s : s \in RawScores}

Tables ==
    UNION { {Table(val, obj) : val \in [V -> Scaled],
                               obj \in [V \X Objectives -> Scaled] \union [{} -> Scaled]}
            : V \in SUBSET Vals \ {{}} }

AllKeys ==
    {<<"val", v>> : v \in Vals} \union {<<"objective", o>> : o \in Objectives}
    \union {<<"cartesian", v, o>> : v \in Vals, o \in Objectives}

AllScores == UNION {{t[k] : k \in DOMAIN t} : t \in Tables}

=============================================================================
