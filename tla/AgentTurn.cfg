SPECIFICATION FairSpec
CONSTANTS
    Chunk = {c}
    MaxSteps = 3
    MaxGateBlocks = 2
    MaxCalls = 1
    Faults <- AllFaults
CHECK_DEADLOCK FALSE
INVARIANTS
    CitationsWereShown
    DeepAnswersFromEvidence
    UnsourcedIsMarked
    FailureTellsTruth
    DraftIsOpen
    OneReply
PROPERTIES
    SendSettles
