CONSTANTS
    TS_NEVER = 8
    TS_MAX = 10
    Obj = {1, 2, 3}
    Rank <- MCRank
    Passes <- MCPasses
    InSvc <- MCInSvc
    OutSvc <- MCOutSvc
    InSvcMicro = {2}
    Precommitting = {1}
    Committing = {1, 2, 3}
    Observers = {1}
    SyncTimes <- MCSync
    InternalTimes <- MCInternal
    TransformTimes = {2, 4, 5}
    UpdateTimes = {3}
    CommitTimes <- MCCommit
    DeltaDesired <- MCDeltaAny
    DeltaElapsed <- MCElapsed
    Faults = {}
    StartTime = 2
    StopTime = 5
    MinimumTimestep = 1
    IterationLimit = 3
SPECIFICATION FairSpec
INVARIANTS ClockWithinStop NoEarlyStop
PROPERTIES ClockForward NoMissedEvent OncePerStep Terminates
