SPECIFICATION SourcesSpec
CONSTANTS
    th1 = th1
    th2 = th2
    n1 = n1
    n2 = n2
    s1 = s1
    s2 = s2
    d1 = d1
    f1 = f1
    f2 = f2
    x1 = x1
    x2 = x2
    Nowhere = Nowhere
    Missing = Missing
    Unreadable = Unreadable
    Uncached = Uncached
    Nobody = Nobody
    Threads <- MCThreads
    Names <- MCNames
    Servers <- MCServers
    Others <- MCDirectories
    Files <- MCFiles
    Schemas <- MCSchemas
    Contents <- MCContents
    Workers = 2
    Partitions = 2
    MaxCalls = 2
    MaxRegisters = 1
    MaxRestarts = 1
    MaxFileChanges = 1
INVARIANTS
    SourcesTypeOK
    JoinUsesItsOwnKeys
    LeftoversStopNobody
    StableNamesReadTheirServer
    OneContextPerDirectory
    UntouchedFilesAreTables
SYMMETRY Interchangeable
CHECK_DEADLOCK FALSE
