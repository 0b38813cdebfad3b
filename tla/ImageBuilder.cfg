SPECIFICATION FairSpec
CONSTANTS
    base_images <- Three
    NeedWrap <- Wrap
    BatchSize = 2
    max_workers = 2
    max_retries = 3
    Throttle = 1
    Settings <- SomeSettings
    MaxTime = 1
INVARIANTS
    ManifestComplete
    LineHolds
PROPERTIES
    ResetsApart
    BuildsEnd
CHECK_DEADLOCK FALSE
