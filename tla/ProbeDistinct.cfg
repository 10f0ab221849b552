SPECIFICATION Spec
CONSTANTS
    k1 = k1
    k2 = k2
    k3 = k3
    e1 = e1
    e2 = e2
    Null = Null
    Keys <- MCKeys
    Exts <- MCExts
    Tables <- MCTables
    Stats <- MCStats
    Ndvs <- MCNdvs
    InCap = 2
    DuckTempCap = 2
    FullScanPercent <- MCFullScanPercent
    MaxProbes = 2
INVARIANTS
    DistinctProbeJoinsExactly
CHECK_DEADLOCK FALSE
