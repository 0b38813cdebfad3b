SPECIFICATION FairSpec
CONSTANTS
    q1 = q1
    q2 = q2
    Tasks <- SmallTasks
    Workers = 2
    Faults <- EveryFault
    MaxVersion = 2
INVARIANTS
    TypeOK
    ScoredOnItsBundle
    AnsweredOnce
    ExitZeroAsked
PROPERTIES
    AnswersKept
    PassEnds
