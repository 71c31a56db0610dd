SPECIFICATION FairSpec
CONSTANTS
    Chosen <- AllPrograms
    NJOBS = 3
    LIMIT = 6
    NREQ = 2
    N_ITEMS = 4
    N_PER_SOURCE <- PerSource
    ROUNDS = 2
    WINDOW = 2
    TOTAL = 5
    BURST = 2
    Keys = 4
INVARIANTS NoUseAfterFree RightOutcome
PROPERTY Ends
CHECK_DEADLOCK FALSE
