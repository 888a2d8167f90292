SPECIFICATION CpuSpec
CONSTANTS
    Tasks = {t1, t2, t3, t4}
    QueuedTasks = {t1, t2, t3}
    NULL = NULL
    Conds = {"readers", "writers"}
INVARIANTS
    WriterAlone
    SleepersHaveWaker
PROPERTIES
    SomeoneGetsIt
