SPECIFICATION Spec
CONSTANTS
    Conns = {c1, c2}
    Keys = {k1, k2}
    Streams <- TwoStreams
    Pks <- OneRow
    MaxTime = 1
    Limit = 1
    BatchSize = 1
    Timed0 <- OneStream
    Selections <- AllOrSecond
    Modes <- Incremental
    Unstorable <- NoRows
    MaxLeft = 2
    Events <- StreamEvents
SYMMETRY ConnSymmetry
INVARIANTS
    FreshnessVouched
    SomeoneProceeds
CHECK_DEADLOCK FALSE
