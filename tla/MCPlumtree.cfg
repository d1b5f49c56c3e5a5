CONSTANTS
    Node = {a, b, c}
    MaxSeq = 2
    CacheSizes = {1, 6}
    Origins = {a, b}
    Leader = a
    StartLinks = {2, 3}
    MaxChanges = 1
SPECIFICATION MCFairSpec
INVARIANT AnnouncedIsPulled
PROPERTIES Refinement EveryoneDelivers
CHECK_DEADLOCK FALSE
