SPECIFICATION FairSpec
CONSTANTS
    b1 = b1
    b2 = b2
    r1 = r1
    r2 = r2
    Bridges <- TwoBridges
    Requests <- TwoRequests
    Settings <- SomeSettings
    MaxRetries = 1
    MaxPosts = 2
    MaxPairs = 3
INVARIANTS
    TypeOK
    GrantKept
    OneExchange
    RetryReadsFile
PROPERTIES
    OneRefresher
    RequestEnds
CHECK_DEADLOCK FALSE
