CONSTANTS
    a = a
    b = b
    c = c
    d1 = d1
    d2 = d2
    d3 = d3
    None = None
    Pushes = {a, b, c}
    Digests = {d1, d2, d3}
    ConfigDigest <- ConfigOfB
    LayerDigests <- TwiceByA
    Attestations = {c}
    MaxFaults = 1
    MaxExpiries = 1
    MaxRepeats = 1
SPECIFICATION Spec
CHECK_DEADLOCK FALSE
INVARIANTS TypeOK HeldBlobsStay AcceptedRebuildable RefsCoverHolders NothingLeaks
