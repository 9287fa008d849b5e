SPECIFICATION Spec
CONSTANTS
    NoValue = NoValue
    NoState = NoState
    Facts <- Three
    What <- Reports
    Source <- OwnSource
    Attributes <- Fields
    Workers = {w1, w2}
    MaxTime = 1
    Events <- Removals
SYMMETRY WorkerSymmetry
CHECK_DEADLOCK FALSE
INVARIANTS
    TypeOK
    OneCalculation
    ConflictsMatchStates
    OneConflictPerDisagreement
