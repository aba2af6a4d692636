SPECIFICATION FairSpec
CONSTANTS
    Size <- SizeOf
    t0 = t0
    Null = Null
    LoopBreaker = 5
    MaxRetries = 2
    MaxAttempts = 5
    Async = {a1, a2}
    Synch = {s1}
    Trx = {t0, t1, t2}
    Plain = {}
    Faults = {"deadlock", "error", "commit"}
    MaxLosses = 0
PROPERTIES
    AtomicSpec
    EveryJobReturns
