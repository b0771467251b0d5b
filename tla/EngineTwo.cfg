\* Two engine processes, each with one RPC thread and its periodic task.
SPECIFICATION Spec
CONSTANTS
    n1 = n1
    n2 = n2
    n3 = n3
    h1 = h1
    e1 = e1
    e2 = e2
    w1 = w1
    w2 = w2
    hostDown = hostDown
    vmDown = vmDown
    processUp = processUp
    processDown = processDown
    NoNotification = NoNotification
    NoThread = NoThread
    Segments = {"segment"}
    SegmentOf <- OneSegment
    DetectionInterval = 3
    SourceHost <- FailedHost
    Type <- FailureType
    Payload <- FailureReport
    Event <- AllStopped
    Notifications = {n1}
    Hosts = {h1}
    Engines = {e1, e2}
    Workers = {w1, w2}
    EngineOf <- TwoEngines
    GeneratedTime <- Later
    Raising = {}
    Lossy = FALSE
    MaxCrashes = 0
PROPERTY NeverRecoveredTwiceFromNew
