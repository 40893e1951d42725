CONSTANTS
    a = a
    b = b
    Pods = {a, b}
    Raw <- Blocks
    Defaults <- Usual
    MinSamples = 2
    MinRate <- OneHalf
    MinFactor = 2
    KilledScanThreshold = 2
    MaxNovelPerRun = 1
    Errors <- TwoCauses
    Blank = ""
    NoError = NoError
    Killed = {"kill"}
    MaxTime = 4
    MaxRows = 2
    MaxDelay = 1
    MaxFaults = 1
SPECIFICATION Spec
SYMMETRY Replicas
CHECK_DEADLOCK FALSE
INVARIANTS TypeOK NovelAnnounced QuietWithinCooldown Resurfaces
