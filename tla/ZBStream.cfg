SPECIFICATION FairSpec
CONSTANTS
    Setups <- Bridges
    MaxFrames = 4
    Retries = 1
INVARIANTS
    TypeOK
    FinishedOnce
    NeverSilent
PROPERTIES
    ClientSpec
    RequestEnds
