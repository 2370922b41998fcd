CONSTANTS
    Tools = {"validate", "job"}
    Outcomes = {"ok", "error", "access", "interrupted"}
    MaxFiles = 2
    MaxTested = 2
    Processors = 2
    WordSize = 8
SPECIFICATION FairSpec
INVARIANTS RightUnlessRaced
PROPERTIES RunnerEnds
CHECK_DEADLOCK FALSE
