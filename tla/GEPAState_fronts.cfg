SPECIFICATION Spec
CONSTANTS
    Vals = {1, 2}
    Objectives = {"o"}
    RawScores = {0, 1}
    Scale = 2
    Bottom <- MCBottom
    NegInf <- MCBottom
    Keys <- AllKeys
    Scores <- AllScores
    Evaluations <- Tables
    FrontierType = "cartesian"
    TrackOutputs = TRUE
    MaxPrograms = 3
    MaxEvals = 3
INVARIANTS
    FrontExact
    BestOutputsMatchFront
CHECK_DEADLOCK FALSE
