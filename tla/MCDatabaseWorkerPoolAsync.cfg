SPECIFICATION Spec
CONSTANTS
    OneWay = {exec1, exec2}
    WithResult = {query1, query2}
    Ping = {}
    Client = {world, map}
    AsyncThreads = 2
    SynchThreads = 1
    MaxCalls = 0
    Null = Null
SYMMETRY Symmetry
INVARIANTS
    OwnershipInv
    FutureTellsTruth
    OvertakenByFewerThanWorkers
    ClosedLeavesNothingRunning
