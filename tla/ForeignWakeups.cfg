SPECIFICATION WakeupSpec
CONSTANTS
    Tasks = {t1, t2}
    NULL = NULL
    MaxDepth = 2
INVARIANT
    MutualExclusion
CHECK_DEADLOCK FALSE
