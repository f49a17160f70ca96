SPECIFICATION FairSpec
CONSTANTS
    UnitsOf <- MCUnitsOf
    Workers = 2
    FailureLimit = 1
    None = None
    Budgets = {1, 4}
    Tolerated = 1
    Ready = 1
    NextOpen = 2
    MaxTime = 2
    MaxFaults = 3
INVARIANTS ChildReplays SessionInWindow UnitBudget FailureCircuit
PROPERTIES UnitsStand WindowSuffices
CHECK_DEADLOCK FALSE
