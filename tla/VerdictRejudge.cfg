SPECIFICATION Spec
CONSTANTS
    q1 = q1
    q2 = q2
    Tasks <- OneRubric
    Workers = 1
    Faults <- NoFaults
    MaxVersion = 2
INVARIANTS
    RejudgeHelps
