------------------------ MODULE MCAdaptiveSequential ------------------------
\* AdaptiveSequential with two engines, for every kind of argument.
EXTENDS AdaptiveSequential

MCNegInf == -9
MCScores == {MCNegInf, 0, 1, 2}

MCSettings ==
    [budget : {3, None}, engines : {2}, plateau : {1, 2}, patience : {1, 2}, least : {0, 2},
     epsilon : {0, 1}, cycle : BOOLEAN, switches : {1, None}]
=============================================================================
