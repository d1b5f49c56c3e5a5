CONSTANTS
    h1 = h1
    None = None
    NoEvent = NoEvent
    Host <- OneHost
    Policies = {"block", "drop_newest", "unbounded"}
    Capacity = 1
    MaxAttempts = 2
    EventsBuf = 1
    MsgsBuf = 1
    Scenarios <- Backpressure
CHECK_DEADLOCK FALSE
SPECIFICATION MCFairSpec
PROPERTY CallsReturn
