SPECIFICATION Spec
CONSTANTS
    th1 = th1
    th2 = th2
    NoThread = NoThread
    Threads <- MCThreads
    MaxStreams = 4
INVARIANTS
    TypeOK
    ReleasedOnce
    NoStreamIsLost
    OneConsumer
SYMMETRY Interchangeable
CHECK_DEADLOCK FALSE
