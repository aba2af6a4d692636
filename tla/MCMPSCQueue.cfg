SPECIFICATION FairSpec
CONSTANTS
    Value = {v1, v2, v3}
    Node = {n1, n2, n3}
    Producer = {p1, p2}
    Null = Null
INVARIANTS
    ListInv
    NoUseAfterFree
    DestroyedFreesAll
PROPERTIES
    FifoSpec
    EnqueuedIsDequeued
CHECK_DEADLOCK FALSE
