CONSTANTS
    Users = {u1}
    Sessions = {s1, s2}
    Tokens = {t1, t2, t3}
    Callers = {c1, c2}
    None = None
    NilUUID = NilUUID
    SessionTTL = 2
    AccessTTL = 1
    MaxTime = 2
    MaxFaults = 1
SPECIFICATION Spec
SYMMETRY Symmetry
CHECK_DEADLOCK FALSE
INVARIANT TypeOK
INVARIANT UndisturbedChain
INVARIANT RevokedIsMarked
PROPERTY ImplementsLifetime
