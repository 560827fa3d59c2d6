SPECIFICATION PlaneSpec
CONSTANTS
    Threads = {t1}
    None = None
    PerThreadBytes = 1
    GlobalBytes = 2
    Retention = 1
    Sizes = {1}
    Pauses = {0}
    MaxEvents = 3
    MaxStored = 3
    LogCap = 2
    RingCap = 1
CONSTRAINT Bounds
INVARIANTS
    AllQueriesAreHonest
