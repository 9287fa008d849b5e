SPECIFICATION Spec
CONSTANTS
    Conns = {c1, c2}
    Keys = {k1, k2}
    Streams <- OneStream
    Pks <- TwoRows
    MaxTime = 2
    Limit = 1
    BatchSize = 1
    Timed0 <- OneStream
    Selections <- AllStreams
    Modes = {TRUE, FALSE}
    Unstorable <- LatestOfSecond
    MaxLeft = 1
    Events <- CleanEvents
SYMMETRY ConnSymmetry
INVARIANTS
    TypeOK
    OneSyncAtATime
    LocksAccountedFor
    UniqueObservations
    NothingOutOfReach
    CleanRunsAccounted
