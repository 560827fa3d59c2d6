SPECIFICATION FairSpec
CONSTANTS
    u1 = u1
    t1 = t1
    Interrupts = {i1}
    Steers = {p1}
    Starts = {}
    Turns = {u1}
    Threads = {t1}
    Target <- OneTarget
    ThreadOf <- OneThread
    Retries = 1
PROPERTIES EveryActionEnds
