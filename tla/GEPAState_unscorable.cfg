SPECIFICATION Spec
CONSTANTS
    Vals = {1, 2}
    Objectives = {}
    RawScores <- MCUnscorable
    Scale = 1
    Bottom <- MCBottom
    NegInf <- MCBottom
    Keys <- AllKeys
    Scores <- AllScores
    Evaluations <- Tables
    FrontierType = "instance"
    TrackOutputs = TRUE
    MaxPrograms = 3
    MaxEvals = 5
INVARIANTS
    DiscoveryOrdered
PROPERTIES
    FrontOnlyImproves
CHECK_DEADLOCK FALSE
