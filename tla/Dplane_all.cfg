SPECIFICATION FairSpec
CONSTANTS
    CHAN_CAP = 1
    Configs <- MCConfigs
INVARIANTS NoLossNoDup RouteFollowsName VerdictIsRight
PROPERTY Terminates
CHECK_DEADLOCK FALSE
