CONSTANTS
    TS_NEVER = 6
    TS_MAX = 9
    Sizes <- MCSizes
    Loads <- MCLoads
    MaxSize = 3
    Service <- MCService
    Answer <- MCAnswer
    global_threadcount = 2
    MinItems = 1
    Client = {c1, c2}
    StartTime = 2
    EndTime = 4
    FirstPause <- MCFirstPause
    MaxRequests = 2
SPECIFICATION FairSpec
INVARIANTS RunIsWhole CommittedOnce PauseTakesHold
PROPERTIES  PauseIsSeen ResumeWakes
CHECK_DEADLOCK FALSE
