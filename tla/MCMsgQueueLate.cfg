SPECIFICATION Spec
CONSTANTS
    Tasks = {t1, t2, t3}
    NULL = NULL
    Conds = {"not_full", "not_empty"}
    Messages <- MCMessages
    WantedTypes = {0}
    Timeouts = {1}
    MayBeLate = {TRUE, FALSE}
    max_msgs = 2
INVARIANT
    NoStrandedReceiver
CHECK_DEADLOCK FALSE
