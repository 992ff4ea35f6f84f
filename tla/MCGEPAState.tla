---------------------------- MODULE MCGEPAState ----------------------------
\* GEPAState over every evaluation table of a small valset.
EXTENDS GEPAState, EvaluationTables

MCBottom == -9
MCUnscorable == {MCBottom, 0, 1}
=============================================================================
