CONSTANTS
    stray = stray
    img = img
    odd = odd
    idx = idx
    att = att
    other = other
    both = both
    t1 = t1
    t2 = t2
    None = None
    Requests = {stray, other, img, odd, att, idx, both}
    Jobs = {stray, other, img, odd, att, idx, both}
    Put <- BuildxPush
    Tenants = {t1, t2}
    Entra <- Credentials
    Policies = {"grype", "baseimage"}
    Slots = 1
    MaxPending = 1
    MaxFaults = 1
    MaxTroubles = 1
SPECIFICATION FairSpec
CHECK_DEADLOCK FALSE
INVARIANTS TypeOK GatedOnly AcceptedBytesKept BacklogBounded LeavingIsNoFailure
PROPERTIES EveryRequestEnds StagedIsReleased
