SPECIFICATION Spec
CONSTANTS
    Preds = {"p", "q"}
    Texts = {"seed", "short", "long"}
    SeedText = "seed"
    Vals = {1, 2}
    Scores = {0, 1}
    Supports = {{1, 2}}
    Oversized <- MCOversized
    SubsampleSize = 2
    OverlapFloor = 1
    MaxMerge = 1
    Loaders = {TRUE, FALSE}
    MaxChildren = 3
    MaxRestarts = 1
INVARIANTS
    MergesJoinLines
    NothingLost
    BuiltOnce
PROPERTIES
    JudgedAsAdded
CHECK_DEADLOCK FALSE
