SPECIFICATION FairSpec
CONSTANTS
    Settings <- MCSettings
    Scores <- MCScores
    NegInf <- MCNegInf
    Nobody = Nobody
    Seed = Seed
    MaxStrays = 1
    MaxUsed = 4
INVARIANTS
    BudgetLent
    SeededByBest
PROPERTIES
    Terminates
CHECK_DEADLOCK FALSE
