CONSTANTS
    Threads = {a, b, c, d}
    Killable = {a, b, c}
SPECIFICATION Spec
INVARIANTS MutualExclusion NoStrandedWaiter
PROPERTIES FreeLockIsTaken
CHECK_DEADLOCK FALSE
