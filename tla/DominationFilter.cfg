SPECIFICATION Spec
CONSTANTS
    NumPrograms = 4
    FrontKeys = {k1, k2, k3}
    AvgScores = {0, 1}
    Ks = {0, 2}
INVARIANTS
    Cover
    Irredundant
    PickedInTopK
CHECK_DEADLOCK FALSE
