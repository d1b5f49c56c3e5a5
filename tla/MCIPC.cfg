CONSTANTS
    p = p
    q = q
    Proto <- Both
    Handlers <- JustQ
    Subscribers <- Both
    TimerId = {1, 2}
    MaxArms = 3
    MaxRequests = 2
    Scenarios <- All
CHECK_DEADLOCK FALSE
SPECIFICATION MCFairSpec
INVARIANTS RequestsAnsweredOnce 
PROPERTIES RequestsResolve TimersObey
