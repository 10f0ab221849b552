SPECIFICATION Spec
CONSTANTS
    Values <- MCValues
    Precision = 3
    MaxScale = 2
    Fetches = 2
    MaxBatches = 2
INVARIANTS
    NoValueBecomesNull
CHECK_DEADLOCK FALSE
