CONSTANTS
    img = img
    idx = idx
    plain = plain
    att = att
    None = None
    Pushes = {img, idx, plain}
    Put <- TwoPushes
    QueueSize = 2
    Attempts = 2
    MaxSignals = 1
    MaxFaults = 1
SPECIFICATION FairSpec
CHECK_DEADLOCK FALSE
INVARIANTS TypeOK RecordedOrReported ShutdownDropsNothing LastWordStands DrainProtectsHandlers
PROPERTIES ShutdownEnds
