SPECIFICATION FairSpec
CONSTANTS
    i1 = i1
    i2 = i2
    Instances <- TwoInstances
    Selections <- TwoAlways
    MaxAttempts = 2
    NumWorkers = 1
    Critic = "patch"
    Faults <- LossFaults
    MaxRuns = 2
INVARIANTS
    OneLinePerAttempt
PROPERTIES
    LinesStay
    RunEnds
