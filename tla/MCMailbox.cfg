CONSTANTS
    p1 = p1
    p2 = p2
    Loop = Loop
    NoEvent = NoEvent
    Producer <- MCProducer
    Capacity = 1
    MaxEvents = 2
    Policies = {"block", "drop_oldest", "drop_newest", "unbounded"}
    SelfSenders = {"drop_newest"}
SPECIFICATION FairSpec
INVARIANTS NoLostWakeup QuiescentSound SenderOrder
CHECK_DEADLOCK FALSE
PROPERTIES EveryEventSettles ImplementsQueue
