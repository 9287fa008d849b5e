SPECIFICATION Spec
CONSTANTS
    NoValue = NoValue
    Null = Null
    MaxTimeline = 2
    Cells <- ThreeFacts
    Servers <- ThreeServers
    Moments <- Two
    Ids <- Three
    Observations <- PastOnes
    Asked <- Later
    Specified <- Specs
    Unit = 10
    Digits = 1000
    Undeclared = Undeclared
    Reliability <- Declared
    Quality <- Full
    Authority <- Ranks
    Freshness <- Decay
    Agreement <- Alike
    Penalties <- NoPenalty
    Threshold = 200
    KeyRank <- Order
CHECK_DEADLOCK FALSE
INVARIANTS
    OneVoicePerSource
    UnanimousOrContested
    InvalidSilences
    DisagreementIsReal
    ScoringOnlySettles
PROPERTIES
    SupportHelps
    BackfillIsInert
    CorrectionCounts
    KnownStands
