CONSTANTS
    n0 = n0
    n1 = n1
    n2 = n2
    v1 = v1
    v2 = v2
    Node = {n0, n1, n2}
    Index <- MCIndex
    Value = {v1, v2}
    None = None
    Ballot <- MCBallot
    MaxBallot = 7
    Scenarios <- StrandedOnly
CHECK_DEADLOCK FALSE
SPECIFICATION MCSpec
INVARIANT CatchUp
