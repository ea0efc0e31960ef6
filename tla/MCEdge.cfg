SPECIFICATION EdgeSpec
CONSTANTS
    Requests = {r1, r2}
    Clients = {g1, g2, g3}
    MaxPairs = 3
    MaxVersion = 3
    RateLimitMax = 2
    MaxWindow = 1
SYMMETRY Symmetry
INVARIANTS
    EdgeTypeOK
    OneTokenPerLogin
    ProfileFresh
    AccountIsKept
    LimitIsExact
PROPERTIES
    NeverReused
CHECK_DEADLOCK FALSE
