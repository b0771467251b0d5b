\* One engine that may crash and whose handler may raise; casts may be lost.
SPECIFICATION Spec
CONSTANTS
    n1 = n1
    n2 = n2
    n3 = n3
    h1 = h1
    e1 = e1
    e2 = e2
    w1 = w1
    w2 = w2
    hostDown = hostDown
    vmDown = vmDown
    processUp = processUp
    processDown = processDown
    NoNotification = NoNotification
    NoThread = NoThread
    Segments = {"segment"}
    SegmentOf <- OneSegment
    DetectionInterval = 3
    SourceHost <- FailedHost
    Type <- NodeType
    Payload <- NodeReport
    Event <- NodeStopped
    Notifications = {n1, n3}
    Hosts = {h1}
    Engines = {e1}
    Workers = {w1, w2}
    EngineOf <- OneEngine
    GeneratedTime <- SameMoment
    Raising = {n1}
    Lossy = TRUE
    MaxCrashes = 2
SYMMETRY WorkerSymmetry
INVARIANTS TypeOK RunBound RunningHasOwner HostSerialised
PROPERTY ImplementsLifecycle
