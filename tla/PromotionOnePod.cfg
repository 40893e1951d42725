CONSTANTS
    j1 = j1
    j2 = j2
    j3 = j3
    p1 = p1
    p2 = p2
    None = None
    Jobs = {j1, j2, j3}
    Pods = {p1}
    MaxAttempts = 2
    Unroutable = {j3}
    Unreadable = {j2}
    MaxFaults = 1
    MaxSlow = 0
    MaxCrashes = 1
    MaxDisturbances = 1
    MaxParked = 1
SPECIFICATION FairSpec
INVARIANT NeverLost
PROPERTIES ImplementsDelivery AcceptedResolves
