SPECIFICATION Spec
CONSTANTS
    h1 = h1
    h2 = h2
    u1 = u1
    u2 = u2
    p1 = p1
    p2 = p2
    None = None
    Deleted = Deleted
    Hosts = {h1, h2}
    Logins = {u1, u2}
    Secrets = {p1, p2}
    Accepted <- TwoDatabases
    Codes = {"unreachable"}
    Requests = {r1, r2}
    Kinds = {"mysql", "postgresql"}
    Streams = 2
    Versions = {1, 2}
    MaxKeys = 2
CONSTRAINT Followed
SYMMETRY Interchangeable
CHECK_DEADLOCK FALSE
INVARIANTS
    TypeOK
    ConnectedWasTried
    SessionsGuarded
PROPERTIES
    ConfigByUpdate
    PasswordStaysReadable
