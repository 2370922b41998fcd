CONSTANTS
    Worker = {w1, w2}
    Sync = s
    MaxJobs = 2
    MaxSwitches = 2
SPECIFICATION FairSpec
INVARIANTS JobsInOrder AwaitMeansDone
PROPERTIES JobsGetDone QuietShutdownEnds
