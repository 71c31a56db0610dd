SPECIFICATION FairSpec
CONSTANTS
    P = P  C = C  K = K
    Parkers <- MCParkers
    Capacity = 1
    Forms <- MCForms
    MaxCalls = 3
    MaxCloses = 1
INVARIANTS InOrderExactlyOnce NoSleepThroughWake NobodyStranded
PROPERTY BlockingCompletes
CHECK_DEADLOCK FALSE
