CONSTANTS
    TS_NEVER = 10
    TS_MAX = 14
    Obj = {1, 2, 3}
    Rank <- MCRank
    Passes <- MCPasses
    InSvc <- MCInSvcGrid
    OutSvc <- MCOutSvc
    InSvcMicro = {}
    Precommitting = {1}
    Committing = {1, 2, 3}
    Observers = {1}
    SyncTimes <- MCSync
    InternalTimes <- MCGridInternal
    TransformTimes <- MCGridTransform
    UpdateTimes <- MCGridUpdate
    CommitTimes <- MCGridCommit
    DeltaDesired <- MCDeltaError
    DeltaElapsed = {}
    Faults = {"precommit", "script", "interrupt"}
    StartTime = 2
    StopTime = 10
    MinimumTimestep = 2
    IterationLimit = 3
SPECIFICATION FairSpec
INVARIANTS FaultReported OnGrid
PROPERTIES ImplementsClock
