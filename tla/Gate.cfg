SPECIFICATION FairGateSpec
CONSTANTS
    ActionReqs = {a1}
    PlainReqs = {p1, p2}
    Markers = {p1, p2}
    Notes = {}
    CommandCap = 1
    IngressCap = 1
    MaxConns = 2
    MaxFrames = 1
INVARIANTS
    GateTypeOK
    FirstReconciliationFirst
    NoLostWakeUp
    SafeToRetryIsSafe
    AnswerIsTheDaemons
    PendingOfThisConnection
PROPERTIES
    WrittenOnce
    GateReopens
