\* A deadlock after the statement of a table has been committed.
SPECIFICATION PartsSpec
CONSTANTS
    Chosen = {"purge"}
    h1 = h1
    h2 = h2
    h3 = h3
    s1 = s1
    s2 = s2
    n1 = n1
    NoSegment = NoSegment
    NoHost = NoHost
    Segments = {s1, s2}
    Hosts = {h1, h2, h3}
    Notifications = {n1, n2}
    Requests = {q1, q2}
    NameOf <- Names
    InitialHosts <- Existing
    InitialSegment <- Placed
    MaxInProgress = 1
    InitialRows <- Table
    MaxRows = 4
    MaxChanges = 3
    RowValues = {1, 2}
    SortKeys <- KeyLists
    SortDirs <- DirLists
    Limits = {0, 2}
    PageSize = 1
    MaxLimit = 3
    NotificationRows = {n1}
    HostRows = {h1, h2}
    SegmentRows = {s1}
    SegmentOf <- InOneSegment
    Ages = {0}
    Budgets = {1, 2}
    PurgeRetries = 1
    MaxDeadlocks = 2
    MaxTime = 3
    ExtensionLists <- TwoOrNone
    ExtensionCodes = {200, 403}
    RequestRetries = 1
    MaxRepeats = 1
    Services = {"api", "engine"}
    Fields = {"name", "reserved"}
    FieldValues = {1, 2}
    Unset = 0
    MaxSaves = 3
    MaxVersion = 4
    MaxMethods = 3
    Connections = {"first", "second", "third"}
    pool_size = 1
    keep_alive = TRUE
    client_socket_timeout = 900
    MaxReloads = 2
    SegmentIds = {s1, s2}
    HostIds = {h1, h2}
    Hypervisors = {"alpha", "beta"}
    FirstSegments = {s1}
    FirstHosts <- OneHost
INVARIANTS WithinMaximum
CHECK_DEADLOCK FALSE
