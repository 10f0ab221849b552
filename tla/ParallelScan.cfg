SPECIFICATION Spec
CONSTANTS
    s1 = s1
    s2 = s2
    r1 = r1
    r2 = r2
    Scans <- MCScans
    Rows <- MCRows
    PageCounts <- MCPageCounts
    Tables <- MCTables
    MaxPage = 3
    Workers = 2
    Partitions <- MCPartitions
    MaxWrites = 1
    MaxPanics = 1
INVARIANTS
    TypeOK
    StableRowsReadOnce
    ReadInPageOrder
    FailuresAreIsolated
PROPERTIES
    EveryScanEnds
    ImplementsTableScan
CHECK_DEADLOCK FALSE
