CONSTANTS
    Containers = {c1, c2}
    N = 1
    Budget <- MCBudget
    TTL = 2
    ReadLag = 1
    Attempts = 1
    Beacons = 2
    MayFail = TRUE
    MaxServes = 2
    MaxDays = 1
    None = None
SPECIFICATION Spec
INVARIANTS NeverAhead FalseExhaustionBounded
PROPERTY ImplementsDailyBudget
SYMMETRY ContainerSymmetry
