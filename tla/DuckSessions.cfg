SPECIFICATION Spec
CONSTANTS
    th1 = th1
    th2 = th2
    d1 = d1
    d2 = d2
    t1 = t1
    t2 = t2
    Threads <- MCThreads
    Databases <- MCDatabases
    Tables <- MCTables
    Queries = 3
    MaxShips = 3
INVARIANTS
    TypeOK
    FetchMeetsLastShipment
    PinsEndWithTheirQuery
CHECK_DEADLOCK FALSE
