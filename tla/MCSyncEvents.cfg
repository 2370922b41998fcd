CONSTANTS
    TS_NEVER = 6
    TS_MAX = 9
    Sync = {s1, s2}
    HardTimes = {2, 3, 4}
    SoftTimes = {2, 3, 4}
    BadPosts <- MCBadPosts
SYMMETRY MCSymmetry
SPECIFICATION SyncSpec
INVARIANTS OrderIndependent
