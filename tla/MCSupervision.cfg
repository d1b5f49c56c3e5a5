CONSTANTS
    h1 = h1
    h2 = h2
    NoEvent = NoEvent
    Host <- OneHost
    Policies = {"block", "drop_newest"}
    Capacity = 1
    Messages = 1
    MaxInst = 2
    MaxFlaps = 3
    MaxPanics = 2
    MaxRestarts = 1
    OnPanic = {"Restart", "Stop", "Escalate"}
    OnGiveUp = {"Stop", "Escalate"}
    TimerInst = {1}
    MayCancel = TRUE
    Scenarios <- Contract
CHECK_DEADLOCK FALSE
SPECIFICATION MCFairSpec
INVARIANTS OneLoop  EstablishedKnown
 
