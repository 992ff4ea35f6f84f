-------------------------- MODULE MCMergeProposer --------------------------
\* MergeProposer with two components: the first has a short and a long
\* rewrite, and the long one leaves no room for a rewrite of the second.
EXTENDS MergeProposer

MCOversized ==
    {c \in Candidates : c["q"] = "long" \/ (c["p"] = "long" /\ c["q"] # SeedText)}
=============================================================================
