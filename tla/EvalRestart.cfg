SPECIFICATION FairSpec
CONSTANTS
    i1 = i1
    i2 = i2
    Instances <- TwoInstances
    Selections <- Growing
    MaxAttempts = 2
    NumWorkers = 2
    Critic = "patch"
    Faults <- RestartFaults
    MaxRuns = 2
INVARIANTS
    TypeOK
    RetriesOnlyRefused
    PublishedIsBest
    WorkersBounded
    FailedAreRetried
PROPERTIES
    LedgerSpec
    LoopEnds
