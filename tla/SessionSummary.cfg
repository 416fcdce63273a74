SPECIFICATION Spec
CONSTANTS
    Client = {p, q}
    Collection = {k}
    Home <- Homes
    None = None
    MaxPast = 2
    Gap <- Gaps
    Floor = 2
    Window = 4
    Keep = 2
    MaxFailures = 3
    MaxJobs = 2
    MaxCandidates = 2
    Past <- TwoOrNone
SYMMETRY Symmetric
CHECK_DEADLOCK FALSE
INVARIANT
    SummaryHoldsItsTurns
