SPECIFICATION FairSpec
CONSTANTS
    Doc = {a, b}
    Job = {t1, t2, t3}
    Req = {q, r}
    Ext = {pdf}
    MaxRev = 3
    Workers = 1
    ChunkCount <- OwnCount
    Faults = {}
    None = None
CHECK_DEADLOCK FALSE
INVARIANT
    ParsesTheStoredFile
PROPERTIES
    EveryDocumentSettles
    DeletedLeavesIndex
