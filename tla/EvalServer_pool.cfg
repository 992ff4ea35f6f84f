SPECIFICATION Spec
CONSTANTS
    Clients = {c1, c2}
    Workers = {w1, w2}
    None = none
    MaxConcurrency = 2
    MaxEvals = 3
    Examples = 2
    Scores = {0, 1}
    Batches = {TRUE, FALSE}
    CanFail = TRUE
    MaxCalls = 2
INVARIANTS
    EveryPairCharged
    OverrunBounded
    PermitsConserved
    BestIsFirst
    FilesMatchLog
PROPERTIES
    LedgerKept
    CallsReturn
CHECK_DEADLOCK FALSE
