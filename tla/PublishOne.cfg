SPECIFICATION Spec
CONSTANTS
    Version = {v1, v2, v3}
    Reader = {r1}
    Concurrent = FALSE
    Faults = {"fail", "crash", "refuse"}
    None = None
SYMMETRY Symmetric
CHECK_DEADLOCK FALSE
INVARIANTS
    PointerNamesWhole
    FailedLoadWasOvertaken
PROPERTY
    ImplementsAtomicIndex
