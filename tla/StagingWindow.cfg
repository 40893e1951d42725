CONSTANTS
    a = a
    b = b
    c = c
    d1 = d1
    d2 = d2
    d3 = d3
    None = None
    Pushes = {a, b}
    Digests = {d1}
    ConfigDigest <- NoConfig
    LayerDigests <- OneLayer
    Attestations = {}
    MaxFaults = 0
    MaxExpiries = 0
    MaxRepeats = 0
SPECIFICATION Spec
CHECK_DEADLOCK FALSE
INVARIANT SharedBlobsKept
