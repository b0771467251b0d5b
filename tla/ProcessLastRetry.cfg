\* One process, two attempts, no monitoring command that raises.
SPECIFICATION MonitorsSpec
CONSTANTS
    Programs = {"processmonitor"}
    Processes = {p1}
    RestartRetries = 1
    MaxRaises = 0
    NoProcess = NoProcess
    a = a
    b = b
    c = c
    Guests = {guest1}
    Events <- Occurrences
    RetryMax = 1
    Me = me
    StatusOf <- Statuses
    CheckPower = TRUE
    PowerRetries = 1
    SendRetries = 1
    Observed <- Shown
    Lines = {1, 2, 3}
    StartCmd <- Startups
    RestartCmds <- Restarts
    NoCmd = "none"
    PROCESS_REBOOT_RETRY = 1
    Nodes = {me}
    MaxChild = 1
    Threshold = 1
    MaxFailed = 3
PROPERTIES FailureListMeansFailed
