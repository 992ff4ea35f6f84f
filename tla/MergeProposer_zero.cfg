SPECIFICATION Spec
CONSTANTS
    Preds = {"p", "q"}
    Texts = {"seed", "short"}
    SeedText = "seed"
    Vals = {1, 2}
    Scores = {0, 1}
    Supports = {{1, 2}}
    Oversized = {}
    SubsampleSize = 2
    OverlapFloor = 1
    MaxMerge = 1
    Loaders = {FALSE}
    MaxChildren = 2
    MaxRestarts = 0
INVARIANTS
    NeverRaises
CHECK_DEADLOCK FALSE
