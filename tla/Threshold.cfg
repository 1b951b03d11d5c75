CONSTANTS
    Servers = {s1, s2}
    Names = {n1, n2}
    IPs = {a1, a2}
    None = None
    Requests = {r1}
    Operations = {"create", "delete"}
    DBMayFail = FALSE
    RedisMayFail = TRUE
    APIMayCrash = FALSE
    Instances = {i1, i2}
    Slots = {k1}
    CycleMayOutliveLock = FALSE
    MonDBMayFail = TRUE
    MonRedisMayFail = TRUE
    MonMayCrash = TRUE
    Threshold = 2
    MaxRetry = 2
SPECIFICATION Spec
SYMMETRY Symmetry
INVARIANT ExclusiveCycles
PROPERTY OfflineNeedsThreshold
