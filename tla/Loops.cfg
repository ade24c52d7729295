SPECIFICATION FairSpec
CONSTANTS
    LineKinds = {"started", "completed", "failed", "tool", "turn", "error", "unreadable"}
    TornKinds = {"completed", "tool"}
    MaxLines = 4
    MaxParts = 3
    RequestLimit = 3
    MaxCalls = 3
INVARIANTS RecordIsTrue RefusalsAreErrors NoProcessLeft SameRun
PROPERTIES KeepsContract EveryLoopEnds
CHECK_DEADLOCK FALSE
