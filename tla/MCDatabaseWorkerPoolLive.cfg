SPECIFICATION FairSpec
CONSTANTS
    OneWay = {exec1}
    WithResult = {query1}
    Ping = {ping1}
    Client = {world, map}
    AsyncThreads = 2
    SynchThreads = 2
    MaxCalls = 1
    Null = Null
INVARIANTS
    ConnectionHasOneUser
PROPERTIES
    EveryCallReturns
    QueryAnswered
    CloseReturns
