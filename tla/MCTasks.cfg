SPECIFICATION TasksSpec
CONSTANTS
    \* TaskLifecycle
    Tasks = {t1, t2, t3}
    NULL = NULL
    MLFQ_QUEUE_COUNT = 3
    BASE_QUANTUM = 1
    boost_period = 4
    \* WaitQueue
    Waiters = {w1, w2, w3, w4}
    Queues = {mutex_q, cond_q}
    Nil = Nil
CONSTRAINT Intact
SYMMETRY Symmetry
INVARIANTS
    TasksOnTheirQueue
    QueuesWellFormed
PROPERTIES
    ImplementsFifoQueues
CHECK_DEADLOCK FALSE
