SPECIFICATION Spec
CONSTANTS
    w1 = w1
    w2 = w2
    w3 = w3
    Proc = {w1, w2, w3}
    host <- MCHost
    pid <- MCPid
    None = None
CHECK_DEADLOCK FALSE
INVARIANT
    GoneOwnerIsStale
