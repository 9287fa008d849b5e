SPECIFICATION Spec
CONSTANTS
    None = None
    Users = {ann, bob, cid}
    Registered = {ann, bob}
    Organizations = {1, 2}
    Founded = {1}
    Roles0 <- BothOwners
    SessionIds = {s1, s2}
    TokenIds = {t1}
    Requests = {r1, r2}
    CostRaised = FALSE
    Lifetime = 2
    IdleTimeout = 2
    TouchInterval = 0
    TokenLifetime = 1
    MaxTime = 0
SYMMETRY Interchangeable
INVARIANTS
    SessionsBelong
PROPERTIES
    SignedOutStaysOut
    LastOwnerStays
