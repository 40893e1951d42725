CONSTANTS
    u1 = u1
    r1 = r1
    r2 = r2
    None = None
    Uploads = {u1}
    Reqs = {r1}
    Slots = 1
    N = 2
    MaxPatches = 2
    MaxFaults = 0
    MaxReadFaults = 1
SPECIFICATION Spec
CHECK_DEADLOCK FALSE
INVARIANT AckedBytesKept
