\* Every workflow in turn.  Hosts: a failed host, two reserved hosts one of
\* which fails too, and auto as the fallback.
SPECIFICATION WorkflowsFairSpec
CONSTANTS
    Chosen = {"host", "evacuation", "instance", "process"}
    Recoveries = {"first", "second"}
    Notified = {"nova-compute", "libvirtd"}
    a = a
    b = b
    r = r
    s = s
    i1 = i1
    i2 = i2
    NoHost = NoHost
    Segments = {"segment"}
    SegmentOf <- OneSegment
    Engines = {"engine"}
    EngineOf <- OneEngine
    InitialMembers <- AlphaOnly
    AddToAggregate = TRUE
    Hosts = {a, r, s}
    Method <- RhPriority
    Reserve = {r, s}
    Failing = {a, r}
    Instances = {i1, i2}
    Home <- BothOnA
    Recovered = {i1, i2}
    Vanishing = {i2}
    Aggregates = {1}
    MaxUserActions = 2
    MaxOthers = 2
    MaxEnables = 2
INVARIANTS TypeOK OthersTypeOK ReservedHostLocked ClearedBeforeUse
     
    StateRestored LockLeftAsFound
    InstanceRestarted 
PROPERTIES SnapshotIsLive WorkflowsEnd
CHECK_DEADLOCK FALSE
