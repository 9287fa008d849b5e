SPECIFICATION Spec
CONSTANTS
    Instances = {i1, i2}
    Sources <- OneSource
    Streams <- TwoStreams
    Owner <- SameOwner
    Intervals <- ShortAndLong
    Cycle = 2
    PerTick = 1
    Events <- Turmoil
SYMMETRY InstanceSymmetry
INVARIANTS
    TypeOK
    OneRunPerWindow

PROPERTY KeepsContract
