SPECIFICATION RateSpec
CONSTANTS
    MaxAttempts = 2
    Window = 3
    Delay = 1
    MaxTries = 5
    MaxTime = 6
CHECK_DEADLOCK FALSE
INVARIANTS
    WindowHolds
