\* Every monitor in turn: two processes, two other nodes, one guest, three
\* events, three lines of proc.list.
SPECIFICATION MonitorsFairSpec
CONSTANTS
    Programs = {"processmonitor", "introspectiveinstancemonitor",
                "instancemonitor", "hostmonitor.sh", "processmonitor.sh", "hostmonitor"}
    Processes = {p1, p2}
    RestartRetries = 2
    MaxRaises = 1
    NoProcess = NoProcess
    a = a
    b = b
    c = c
    Guests = {guest1}
    Events <- Occurrences
    RetryMax = 1
    Me = me
    StatusOf <- Statuses
    CheckPower = TRUE
    PowerRetries = 1
    SendRetries = 1
    Observed <- Shown
    Lines = {1, 2, 3}
    StartCmd <- Startups
    RestartCmds <- Restarts
    NoCmd = "none"
    PROCESS_REBOOT_RETRY = 1
    Nodes = {me, a, b}
    MaxChild = 2
    Threshold = 2
    MaxFailed = 3
INVARIANTS TypesOK GivenUpIsLeftAlone
     MissesAreCounted
    DeliveredOnce RecordedIsNotified  
PROPERTIES  
    NodesAreDivided
CHECK_DEADLOCK FALSE
