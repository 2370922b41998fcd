CONSTANTS
    Locker = {t1, t2}
    WordSize = 4
    MAXSPIN = 2
SPECIFICATION LockFairSpec
INVARIANTS MutualExclusion NoIdleFailure
PROPERTIES LockingEnds
