\* A green thread that dies before its try block.
SPECIFICATION WorkflowsSpec
CONSTANTS
    Chosen = {"host"}
    MaxUserActions = 0
    MaxOthers = 0
    MaxEnables = 0
    Recoveries = {"first", "second"}
    Notified = {"nova-compute", "libvirtd"}
    a = a
    b = b
    r = r
    s = s
    i1 = i1
    i2 = i2
    NoHost = NoHost
    Segments = {"segment"}
    SegmentOf <- OneSegment
    Engines = {"engine"}
    EngineOf <- OneEngine
    InitialMembers <- AlphaOnly
    AddToAggregate = TRUE
    Hosts = {a, b}
    Method <- Auto
    Reserve = {}
    Failing = {a}
    Instances = {i1, i2}
    Home <- BothOnA
    Recovered = {i1, i2}
    Vanishing = {i1}
    Aggregates = {1}
INVARIANTS AllEvacuatedAndConfirmed
CHECK_DEADLOCK FALSE
