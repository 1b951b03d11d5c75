CONSTANTS
    Servers = {s1}
    Names = {n1}
    IPs = {a1, a2}
    None = None
    Requests = {r1, r2}
    Operations = {"create", "update", "delete"}
    DBMayFail = TRUE
    RedisMayFail = TRUE
    APIMayCrash = TRUE
    Instances = {i1}
    Slots = {k1}
    CycleMayOutliveLock = FALSE
    MonDBMayFail = TRUE
    MonRedisMayFail = TRUE
    MonMayCrash = TRUE
    Threshold = 2
    MaxRetry = 2
SPECIFICATION Spec
SYMMETRY Symmetry
INVARIANT UndisturbedInSync
PROPERTY DeletedStaysDeleted
