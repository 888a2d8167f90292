SPECIFICATION CpuSpec
CONSTANTS
    Tasks = {r1, w1, w2}
    Readers = {r1}
    Writers = {w1, w2}
    NULL = NULL
    Conds = {"not_full", "not_empty"}
    Counts = {1, 2, 3, 5}
    size = 3
    MaxBytes = 9
INVARIANTS
    ByteStream
PROPERTIES
    ReaderServed
CHECK_DEADLOCK FALSE
