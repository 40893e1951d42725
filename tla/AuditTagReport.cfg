CONSTANTS
    img = img
    idx = idx
    plain = plain
    att = att
    None = None
    Pushes = {img, idx, plain}
    Put <- TwoPushes
    QueueSize = 2
    Attempts = 2
    MaxSignals = 0
    MaxFaults = 0
SPECIFICATION Spec
CHECK_DEADLOCK FALSE
INVARIANT ReportByTag
