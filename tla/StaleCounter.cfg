CONSTANTS
    Servers = {s1}
    Names = {n1}
    IPs = {a1}
    None = None
    Requests = {r1}
    Operations = {"create", "update"}
    DBMayFail = FALSE
    RedisMayFail = FALSE
    APIMayCrash = FALSE
    Instances = {i1}
    Slots = {k1}
    CycleMayOutliveLock = FALSE
    MonDBMayFail = FALSE
    MonRedisMayFail = FALSE
    MonMayCrash = FALSE
    Threshold = 2
    MaxRetry = 2
SPECIFICATION QuietSpec
PROPERTY OfflineNeedsThreshold
