SPECIFICATION Spec
CONSTANTS
    Clients = {c1}
    Workers = {w1, w2}
    None = none
    MaxConcurrency = 2
    MaxEvals = 2
    Examples = 2
    Scores = {0}
    Batches = {TRUE}
    CanFail = TRUE
    MaxCalls = 1
INVARIANTS
    StageNotZeroed
CHECK_DEADLOCK FALSE
