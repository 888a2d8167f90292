SPECIFICATION LifeSpec
CONSTANTS
    Tasks = {t1, t2, t3}
    NULL = NULL
    MLFQ_QUEUE_COUNT = 2
    BASE_QUANTUM = 1
    boost_period = 3
INVARIANT
    NoTaskTwice
CHECK_DEADLOCK FALSE
