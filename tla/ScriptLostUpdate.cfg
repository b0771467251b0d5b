\* Three other nodes and the default number of children.
SPECIFICATION MonitorsSpec
CONSTANTS
    Programs = {"hostmonitor.sh"}
    Processes = {}
    RestartRetries = 0
    MaxRaises = 0
    NoProcess = NoProcess
    a = a
    b = b
    c = c
    Guests = {guest1}
    Events <- Occurrences
    RetryMax = 1
    Me = me
    StatusOf <- Statuses
    CheckPower = TRUE
    PowerRetries = 1
    SendRetries = 1
    Observed <- Shown
    Lines = {1, 2, 3}
    StartCmd <- Startups
    RestartCmds <- Restarts
    NoCmd = "none"
    PROCESS_REBOOT_RETRY = 1
    Nodes = {me, a, b, c}
    MaxChild = 3
    Threshold = 1
    MaxFailed = 3
INVARIANTS FileIsRewritten
