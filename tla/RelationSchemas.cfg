SPECIFICATION SchemaSpec
CONSTANTS
    Values <- MCValues
    Precision = 3
    MaxScale = 2
    Fetches = 2
    MaxBatches = 2
INVARIANTS
    SchemaTypeOK
    SchemaAgreesWithBatches
    PartitioningDoesNotShow
    RelationsConform
    ReadAsComputed
CHECK_DEADLOCK FALSE
