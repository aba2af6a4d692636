SPECIFICATION Spec
CONSTANTS
    Size <- SizeOf
    t0 = t0
    Null = Null
    LoopBreaker = 5
    MaxRetries = 2
    MaxAttempts = 5
    Async = {a1}
    Synch = {}
    Trx = {t1}
    Plain = {}
    Faults = {"commit"}
    MaxLosses = 0
INVARIANTS
    DoneMeansCommitted
