SPECIFICATION Spec
CONSTANTS
    Tasks <- SkippedBefore
    MaxRuns = 2
    AllowNarrow = FALSE
INVARIANTS
    OneTargetKept
