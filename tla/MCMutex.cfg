SPECIFICATION CpuSpec
CONSTANTS
    Tasks = {t1, t2, t3, t4}
    QueuedTasks = {t1, t2, t3}
    NULL = NULL
    MaxDepth = 3
INVARIANTS
    MutualExclusion
    NoForgottenWaiter
    RecursionBalanced
PROPERTIES
    NoOvertaking
    ImplementsLockService
    WaiterIsServed
CHECK_DEADLOCK FALSE
