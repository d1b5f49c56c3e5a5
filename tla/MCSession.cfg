CONSTANTS
    Node = {a, b}
    None = None
    Frame <- SessionFrame
    Versions = {1, 2}
    MaxConn = 2
    First = a
    MaxConnects = 2
SPECIFICATION MCFairSpec
INVARIANTS MappingsAgree BothAccepted EstablishedIsBacked
PROPERTY DialsResolve
CHECK_DEADLOCK FALSE
