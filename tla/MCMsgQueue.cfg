SPECIFICATION Spec
CONSTANTS
    Tasks = {t1, t2, t3}
    NULL = NULL
    Conds = {"not_full", "not_empty"}
    Messages <- MCMessages
    WantedTypes = {0, 1}
    Timeouts = {0, 1}
    MayBeLate = {TRUE, FALSE}
    max_msgs = 3
SYMMETRY Symmetry
INVARIANTS
    WakeupsReachWaiters
PROPERTIES
    ImplementsMsgChannel
CHECK_DEADLOCK FALSE
