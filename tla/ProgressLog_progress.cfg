SPECIFICATION Spec
CONSTANTS
    Threads = {t1, t2, t3}
    Candidates = {x, y}
    NoCandidate = none
    Scores = {1, 2}
    NegInf = 0
    MaxCalls = 4
    Free = free
SYMMETRY Interchangeable
INVARIANTS
    BestOverTime
    FilesResolve
    AnswersCoverEntry
    SummaryIsConsistent
CHECK_DEADLOCK FALSE
