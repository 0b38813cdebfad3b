SPECIFICATION FairSpec
CONSTANTS
    p1 = p1
    p2 = p2
    r1 = r1
    r2 = r2
    Procs <- TwoProcs
    NumAccounts = 2
    Requests <- TwoRequests
    Settings <- PoolSettings
    MaxRetries = 1
    MaxToken = 2
    MaxCrashes = 1
INVARIANTS
    TypeOK
    BoundedSends
    FileHoldsNewest
    RefusedIsOut
PROPERTIES
    RequestEnds
