SPECIFICATION Spec
CONSTANTS
    NoValue = NoValue
    NoState = NoState
    Facts <- Three
    What <- Reports
    Source <- OwnSource
    Attributes <- Fields
    Workers = {w1}
    MaxTime = 1
    Events <- Regroupings
CHECK_DEADLOCK FALSE
PROPERTIES
    DecisionsStand
    PastIsSettled
