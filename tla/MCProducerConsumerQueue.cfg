SPECIFICATION FairSpec
CONSTANTS
    Value = {v1, v2, v3, v4}
    Consumer = {c1, c2, c3}
INVARIANTS
    TypeOK
    NoLostWakeup
    NobodySleepsAfterCancel
    AccountedInOrder
PROPERTIES
    FifoSpec
    QueuedIsConsumed
    CancelReleases
CHECK_DEADLOCK FALSE
