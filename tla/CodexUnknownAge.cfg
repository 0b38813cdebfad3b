SPECIFICATION Spec
CONSTANTS
    b1 = b1
    b2 = b2
    r1 = r1
    r2 = r2
    Bridges <- TwoBridges
    Requests <- TwoRequests
    Settings <- UnknownAge
    MaxRetries = 1
    MaxPosts = 2
    MaxPairs = 3
PROPERTIES
    UnknownAgeRefreshed
CHECK_DEADLOCK FALSE
