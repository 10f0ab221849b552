\* All plans of up to MaxSteps steps and a return, the long and the malformed ones.
CONSTANTS
    MaxSteps = 4
    MergeKinds = {"compose", "guard", "dedup"}
    OtherKinds = {"collect", "inject", "ship"}
    Plans <- MCPlans
    Sizes = {1, 2, 4}
    Budget = 3
    SpillInput = 3
SPECIFICATION Spec
CHECK_DEADLOCK FALSE
INVARIANTS
    TypeOK
    UseCountsExact
    NoEarlyRelease
    ReleasedByLastMerge
    FragmentRunsForOneBinding
    ComposedInOnePlace
    ResidentWithinBudget
    PricedByItsLeaves
    ReadableExceptByShip
PROPERTIES
    ImplementsEagerPlan
    Terminates
