SPECIFICATION FairSpec
CONSTANTS
    LineKinds = {"started", "completed"}
    TornKinds = {}
    MaxLines = 1
    MaxParts = 1
    RequestLimit = 1
    MaxCalls = 1
INVARIANTS NoOrphan
CHECK_DEADLOCK FALSE
