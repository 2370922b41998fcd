CONSTANTS
    N = 2
    Rank <- MCRank
    Registry <- MCRegistry
    Preferred <- MCPreferred
    Federates = {"connection", "mine"}
    PreferredOrder = TRUE
    Second = 5
    Grid = 2
    Windows <- MCWindows
    Timestep = 3
    Steps = {1, 2, 4}
    MaximumTime = 8
    Stops = {1, 2}
    Limit = 2
    Extras = {0, 2}
    Always = {TRUE, FALSE}
SPECIFICATION FairSpec
INVARIANTS StepIsSettled AnnouncedIsKept ForcedStepsAreDone
PROPERTIES DeltaEnds
CHECK_DEADLOCK FALSE
