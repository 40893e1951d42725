CONSTANTS
    j1 = j1
    j2 = j2
    j3 = j3
    p1 = p1
    p2 = p2
    None = None
    Jobs = {j1}
    Pods = {p1, p2}
    MaxAttempts = 2
    Unroutable = {}
    Unreadable = {}
    MaxFaults = 1
    MaxSlow = 1
    MaxCrashes = 1
    MaxDisturbances = 2
    MaxParked = 1
SPECIFICATION Spec
SYMMETRY PodSymmetry
INVARIANTS TypeOK DurableUntilResolved ClaimsAreStamped RetryNotDoomed
    BudgetBoundsPushes VerdictsAgree
