CONSTANTS
    u1 = u1
    r1 = r1
    r2 = r2
    None = None
    Uploads = {u1}
    Reqs = {r1, r2}
    Slots = 2
    N = 3
    MaxPatches = 3
    MaxFaults = 2
    MaxReadFaults = 1
SPECIFICATION Spec
CHECK_DEADLOCK FALSE
SYMMETRY ReqSymmetry
INVARIANTS TypeOK NothingStranded OnlyVerifiedStored AckedBytesStaged
