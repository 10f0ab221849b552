SPECIFICATION Spec
CONSTANTS
    th1 = th1
    th2 = th2
    n1 = n1
    n2 = n2
    s1 = s1
    s2 = s2
    Nowhere = Nowhere
    Threads <- MCThreads
    Names <- MCNames
    Servers <- MCServers
    Others = {}
    Workers = 2
    Partitions = 2
    MaxCalls = 2
    MaxRegisters = 1
    MaxRestarts = 2
INVARIANT ReadsTheRegisteredServer
SYMMETRY Interchangeable
CHECK_DEADLOCK FALSE
