SPECIFICATION FairSpec
CONSTANTS
    Conns = {c1, c2}
    Keys = {k1, k2}
    Streams <- OneStream
    Pks <- OneRow
    MaxTime = 2
    Limit = 1
    BatchSize = 1
    Timed0 <- NoStreams
    Selections <- AllStreams
    Modes <- Incremental
    Unstorable <- NoRows
    MaxLeft = 1
    Events <- RetimeEvents
PROPERTIES
    RefinesLedger
    AttemptEnds
