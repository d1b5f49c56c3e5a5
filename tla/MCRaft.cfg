CONSTANTS
    n1 = n1
    n2 = n2
    n3 = n3
    Node <- MCNode
    Bounds <- MCBounds
    Command = {c1}
    None = None
    Candidates = {n1, n3}
SYMMETRY Symmetry
SPECIFICATION MCSpec
INVARIANTS ElectionSafety LogMatching LeaderCompleteness TimersFollowRole
PROPERTIES AppliedIsDurable Refinement
CHECK_DEADLOCK FALSE
