SPECIFICATION FairSpec
CONSTANTS
    ActionReqs = {a1}
    PlainReqs = {}
    Markers = {m1}
    Notes = {n1}
    CommandCap = 1
    IngressCap = 1
    MaxConns = 2
    MaxFrames = 2
INVARIANTS
    TypeOK
    IngressLossless
PROPERTIES
    ImplementsContract
    EveryCallReturns
    ShutdownCompletes
