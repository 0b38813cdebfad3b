SPECIFICATION Spec
CONSTANTS
    Tasks <- EveryTask
    MaxRuns = 3
    AllowNarrow = TRUE
INVARIANTS
    BreakingCosts
    TrippingCosts
    GapKept
    RlOrdered
