CONSTANTS
    Observations = {o1, o2, o3}
    Up = {o1, o2}
    InPeriod = {o1, o3}
    Pingers = {g1, g2}
    ChannelSize = 1
    BatchSize = 2
    RetryMax = 2
    MaxRetries = 1
    MaxFaults = 2
    None = None
SPECIFICATION FairSpec
INVARIANT TypeOK
INVARIANT LossIsExplained
INVARIANT FigureIsEarned
PROPERTY ImplementsLog
PROPERTY BufferedSettles
PROPERTY WorkerStops
