SPECIFICATION Spec
CONSTANTS
    None = None
    Users = {ann}
    Registered = {ann}
    Organizations = {1}
    Founded = {1}
    Roles0 <- BothOwners
    SessionIds = {s1, s2}
    TokenIds = {t1, t2}
    Requests = {r1, r2}
    CostRaised = TRUE
    Lifetime = 2
    IdleTimeout = 2
    TouchInterval = 1
    TokenLifetime = 1
    MaxTime = 1
SYMMETRY Interchangeable
INVARIANTS
    TypeOK
    ResetEndsAccess
