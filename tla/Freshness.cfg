CONSTANTS
    old = old
    new = new
    app = app
    p1 = p1
    p2 = p2
    p3 = p3
    None = None
    Pods = {old, new}
    Config <- RollingChange
    Digests = {app}
    Image <- OneImage
    Allowed = {"ubi"}
    MaxAge = 2
    Pushes = {p1, p2, p3}
    Put <- ThreePushes
    MaxTime = 3
    Builds = {0, 2}
    Lives = {1, 3}
    MaxFaults = 1
SPECIFICATION FairSpec
CHECK_DEADLOCK FALSE
INVARIANT TypeOK
PROPERTIES DetectionDelayBounded TokensAreLive PushesEnd
