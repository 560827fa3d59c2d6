SPECIFICATION Spec
CONSTANTS
    t1 = t1
    t2 = t2
    t3 = t3
    u1 = u1
    u2 = u2
    u3 = u3
    Threads = {t1, t2, t3}
    Turns = {u1, u2, u3}
    ThreadOf <- MCThreadOf
    SubscriptionCap = 1
    RetryLimit = 2
    PageSize = 1
    CandidateLimit = 2
    MaxConns = 2
CONSTRAINT Bounds
SYMMETRY Symmetry
INVARIANTS
    TypeOK
    WithinCap
    SubscribedIsTracked
    ResumesAreMarked
    TurnIsKnown
    BlindSpotsAreReported
PROPERTIES
    NoCompetingDiscovery
