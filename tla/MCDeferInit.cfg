CONSTANTS
    N = 3
    MaxDefer = 4
    Sequences = {"creation", "deferred"}
    MayFail = TRUE
    MayRunOut = TRUE
SPECIFICATION Spec
INVARIANTS InitOnce AttemptsAreProgress FreedOnceIfNoneFails
