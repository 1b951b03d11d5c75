CONSTANTS
    Servers = {s1, s2, s3}
    Names = {n1, n2}
    IPs = {a1, a2}
    None = None
    Requests = {r1}
    Operations = {"create", "delete"}
    DBMayFail = TRUE
    RedisMayFail = TRUE
    APIMayCrash = TRUE
    Importers = {i1}
    BatchSize = 2
    MaxLines = 3
SPECIFICATION Spec
SYMMETRY Symmetry
CHECK_DEADLOCK FALSE
INVARIANT TypeOK
INVARIANT UniqueServers
INVARIANT UndisturbedInSync
INVARIANT CountsAreTrue
INVARIANT DuplicatesAreSkipped
