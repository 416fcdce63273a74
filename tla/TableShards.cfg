SPECIFICATION Spec
CONSTANTS
    Doc = {1, 2}
    Members = {1, 2}
    Libraries <- MCLibraries
    None = None
    Target = 3
    Limit = 5
    Overlap = 1
    Slack = 1
    HeadingCost = 1
    CaptionCost = 1
    CandidateK = 3
    FinalK = 2
    WindowFactor = 4
    MaxWindow = 4
    Quota = 1
    RrfK = 60
    FloorPercent = 82
    MinScore = 45
    Budget = 4
    TableBudget = 6
    Score <- MCScore
    MaxTexts = 2
    MaxHits = 2
    ReadText = 2
    ReadTable = 3
    PageChars = 5
    NeighborMin = 2
    SearchBound = 2
    Unsettled = {2}
INVARIANT
    TableStandsAlone
