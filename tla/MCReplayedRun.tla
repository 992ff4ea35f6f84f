---------------------------- MODULE MCReplayedRun ----------------------------
\* Three examples for minibatches of two, so that an epoch is two iterations
\* and a padding; two permutations to shuffle to.  The results of the parents
\* leave every task in the first two iterations, and
\* one task or none in the third.
EXTENDS ReplayedRun, TLC

CONSTANTS a, b, c

MCShuffles == {<<a, b, c>>, <<c, b, a>>}
Every == [k \in 1..N |-> k]
MCJobLists == <<{Every}, {<<>>, <<N>>}>> @@ (0 :> {Every})
=============================================================================
