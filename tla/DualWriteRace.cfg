CONSTANTS
    Servers = {s1}
    Names = {n1}
    IPs = {a1, a2}
    None = None
    Requests = {r1, r2}
    Operations = {"create", "update"}
    DBMayFail = FALSE
    RedisMayFail = FALSE
    APIMayCrash = FALSE
    Instances = {}
    Slots = {}
    CycleMayOutliveLock = FALSE
    MonDBMayFail = FALSE
    MonRedisMayFail = FALSE
    MonMayCrash = FALSE
    Threshold = 2
    MaxRetry = 2
SPECIFICATION Spec
INVARIANT FreshestAddress
