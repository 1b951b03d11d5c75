CONSTANTS
    Reports = {p1, p2, p3}
    Handlers = {h1, h2}
    Workers = {w1, w2}
    JobQueueSize = 1
    MaxFaults = 1
    None = None
SPECIFICATION FairSpec
INVARIANT TypeOK
INVARIANT MailedOnce
INVARIANT UnsettledIsHeld
INVARIANT ClosedAfterHandlers
PROPERTY StatusMovesForward
PROPERTY RequestsEnd
PROPERTY ShutdownEnds
