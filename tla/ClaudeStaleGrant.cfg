SPECIFICATION Spec
CONSTANTS
    p1 = p1
    p2 = p2
    r1 = r1
    r2 = r2
    Procs <- TwoProcs
    NumAccounts = 1
    Requests <- TwoRequests
    Settings <- NoFaults
    MaxRetries = 1
    MaxToken = 3
    MaxCrashes = 0
INVARIANTS
    RefreshesWhatIsInFile
