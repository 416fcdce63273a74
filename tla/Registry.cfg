SPECIFICATION Spec
CONSTANTS
    Process = {p, q, r}
    Existing = {paper}
    Format = {pdf, docx}
    Slow = FALSE
    None = None
SYMMETRY Symmetry
INVARIANTS
    BytesStay
    BytesAreTheRecords
PROPERTY
    NoUpdateLost
CHECK_DEADLOCK FALSE
