CONSTANTS
    N = 3
    Manual = {2}
    MaxNames = 0
    MaxCalls = 2
    Config <- MCConfig
    LastOrdinal = 1
SPECIFICATION FairSpec
INVARIANTS NoParentLoop
CHECK_DEADLOCK FALSE
