CONSTANTS
    Servers = {s1, s2}
    Names = {n1, n2}
    IPs = {a1, a2}
    None = None
    Requests = {r1, r2}
    Operations = {"create", "update", "delete"}
    DBMayFail = TRUE
    RedisMayFail = TRUE
    APIMayCrash = TRUE
    Instances = {}
    Slots = {}
    CycleMayOutliveLock = FALSE
    MonDBMayFail = FALSE
    MonRedisMayFail = FALSE
    MonMayCrash = FALSE
    Threshold = 2
    MaxRetry = 2
SPECIFICATION Spec
SYMMETRY Symmetry
CHECK_DEADLOCK FALSE
INVARIANT TypeOK
INVARIANT UniqueServers
INVARIANT UndisturbedInSync
PROPERTY DeletedStaysDeleted
