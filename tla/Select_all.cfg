SPECIFICATION FairSpec
CONSTANTS
    Threads <- MCThreads
    Cap <- MCCap
    Programs <- MCPrograms
    MaxSends = 3
INVARIANTS ExactlyOnce OneCaseServed NoDanglingStub NoLockCycle SenderOrder DrainGetsAll
PROPERTY ClosedProgramsEnd
CHECK_DEADLOCK FALSE
