SPECIFICATION Spec
CONSTANTS
    Txns = {x1}
    Keys = {k1, k2}
    Values = {v1, v2}
    NOTFOUND = NOTFOUND
    MaxOps = 2
INVARIANT
    CommitInOrder
CHECK_DEADLOCK FALSE
