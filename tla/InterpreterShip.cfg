\* A ship of a binding that was evicted.
CONSTANTS
    MaxSteps = 0
    MergeKinds = {}
    OtherKinds = {}
    Plans <- ShipPlans
    Sizes = {1, 2, 4}
    Budget = 3
    SpillInput = 3
SPECIFICATION Spec
CHECK_DEADLOCK FALSE
INVARIANT SpilledBindingsReadable
