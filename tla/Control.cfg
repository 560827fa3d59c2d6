SPECIFICATION Spec
CONSTANTS
    u1 = u1
    t1 = t1
    Interrupts = {i1}
    Steers = {}
    Starts = {s1}
    Turns = {u1, u2}
    Threads = {t1}
    Target <- OneTarget
    ThreadOf <- OneThread
    Retries = 1
INVARIANTS
    TypeOK
    AtMostOnce
    RejectedNeverHappens
    ConfirmedHappened
    StartSeesItsTurn
    NoCompletionMissed
