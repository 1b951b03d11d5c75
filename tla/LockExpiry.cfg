CONSTANTS
    Servers = {s1}
    Names = {n1}
    IPs = {a1}
    None = None
    Requests = {r1}
    Operations = {"create"}
    DBMayFail = FALSE
    RedisMayFail = FALSE
    APIMayCrash = FALSE
    Instances = {i1, i2}
    Slots = {k1}
    CycleMayOutliveLock = TRUE
    MonDBMayFail = FALSE
    MonRedisMayFail = FALSE
    MonMayCrash = FALSE
    Threshold = 2
    MaxRetry = 2
SPECIFICATION Spec
INVARIANT ExclusiveCycles
