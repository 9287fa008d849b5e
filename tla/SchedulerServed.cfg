SPECIFICATION FairSpec
CONSTANTS
    Instances = {i1, i2}
    Sources <- TwoSources
    Streams <- TwoStreams
    Owner <- OwnOwner
    Intervals <- Long
    Cycle = 2
    PerTick = 2
    Events <- Outages
PROPERTIES
    Served
