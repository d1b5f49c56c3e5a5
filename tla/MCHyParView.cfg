CONSTANTS
    Node = {a, b, c, d}
    None = None
    Contacts <- MCContacts
    ActiveSizes = {1, 2}
    PassiveSize = 1
    ARWL = 2
    PRWL = 1
    ShuffleActive = 1
    ShufflePassive = 1
    Rendezvous = b
    Extra = d
    Few = 4
SPECIFICATION MCFairSpec
INVARIANTS ViewsAreSound 
 
CHECK_DEADLOCK FALSE
