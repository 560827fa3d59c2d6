SPECIFICATION PlaneSpec
CONSTANTS
    Threads = {t1, t2}
    None = None
    PerThreadBytes = 1
    GlobalBytes = 2
    Retention = 1
    Sizes = {1}
    Pauses = {0, 2}
    MaxEvents = 5
    MaxStored = 3
    LogCap = 2
    RingCap = 1
CONSTRAINT Bounds
SYMMETRY Symmetry
INVARIANTS
    PlaneTypeOK NoSilentLoss NamedQueriesAreHonest EvictionsAreCounted WithinLimits
