CONSTANTS
    N = 3
    Manual = {2}
    MaxNames = 2
    MaxCalls = 2
    Config <- MCConfig
    LastOrdinal = 1
SPECIFICATION FairSpec
INVARIANTS ParentAbove ChildrenFirst PassIsComplete
PROPERTIES NoFalseRefusal ClimbEnds
CHECK_DEADLOCK FALSE
