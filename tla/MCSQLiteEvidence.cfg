SPECIFICATION FairSpec
CONSTANTS
    p1 = p1
    p2 = p2
    t1 = t1
    t2 = t2
    v1 = v1
    v2 = v2
    v3 = v3
    v4 = v4
    Processes = {p1, p2}
    Threads = {t1, t2}
    Events = {v1, v2, v3, v4}
    Issuer <- MCIssuer
    NoEvent = NoEvent
    NoWriter = NoWriter
    MaxCrashes = 1
CHECK_DEADLOCK FALSE
INVARIANTS
    BrokenMeansForked
    AcknowledgedIsStored
PROPERTIES
    ImplementsLog
    AppendsEnd
