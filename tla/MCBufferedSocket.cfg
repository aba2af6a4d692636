SPECIFICATION FairSpec
CONSTANTS
    HighWater = 3
    Capacity = 2
    Lengths = {2, 3}
    MaxOut = 9
    MaxIn = 4
INVARIANTS
    QueueInv
    OutputInOrder
    InputInOrder
PROPERTIES
    LimitClosesOnlyUnequal
    AcceptedIsSent
CHECK_DEADLOCK FALSE
