SPECIFICATION Spec
CONSTANTS
    Doc = {a, b}
    Job = {t1, t2, t3}
    Req = {q}
    Ext = {pdf}
    MaxRev = 2
    Workers = 2
    ChunkCount <- FirstEmpty
    Faults = {"fail", "crash", "drop", "busy"}
    None = None
SYMMETRY Symmetric
CHECK_DEADLOCK FALSE
INVARIANTS
    TypeOK
    CompletedIsIndexed
    WaitingIsCarried
PROPERTY
    IndexNeverGoesBack
