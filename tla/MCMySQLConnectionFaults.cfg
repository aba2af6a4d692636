SPECIFICATION Spec
CONSTANTS
    Size <- SizeOf
    t0 = t0
    Null = Null
    LoopBreaker = 5
    MaxRetries = 2
    MaxAttempts = 5
    Async = {a1, a2}
    Synch = {s1}
    Trx = {t1, t2}
    Plain = {p1}
    Faults = {"deadlock", "error", "start", "commit"}
    MaxLosses = 1
SYMMETRY Symmetry
INVARIANTS
    SessionInv
    AtomicUnlessCut
    ResultTellsTruth
    PlainAtLeastOnce
