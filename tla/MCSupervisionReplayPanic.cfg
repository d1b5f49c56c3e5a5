CONSTANTS
    h1 = h1
    h2 = h2
    NoEvent = NoEvent
    Host <- TwoHosts
    Policies = {"block", "drop_newest"}
    Capacity = 1
    Messages = 1
    MaxInst = 2
    MaxFlaps = 3
    MaxPanics = 2
    MaxRestarts = 5
    OnPanic = {"Restart", "Stop", "Escalate"}
    OnGiveUp = {"Stop"}
    TimerInst = {}
    MayCancel = TRUE
    Scenarios <- ReplayOnly
CHECK_DEADLOCK FALSE
SPECIFICATION MCFairSpec
PROPERTY FailuresResolve
