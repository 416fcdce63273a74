SPECIFICATION Spec
CONSTANTS
    Doc = {a}
    Job = {t1, t2, t3}
    Req = {q}
    Ext = {pdf}
    MaxRev = 2
    Workers = 1
    ChunkCount <- SameCount
    Faults = {}
    None = None
SYMMETRY Symmetric
CHECK_DEADLOCK FALSE
INVARIANT
    SettledIsCurrent
