SPECIFICATION KernelSpec
CONSTANTS
    \* Semaphore
    Tasks = {t1, t2, t3, t4, t5}
    NULL = NULL
    Initial = 1
    MaxPosts = 4
    \* VirtualMemory
    FrameCount = 3
    Pages = {1, 2, 3, 4, 5}
    Regions <- OneRegion
    RefBits = 2
    None = None
    \* RtScheduler
    RtTasks = {r1, r2}
    NoTask = NoTask
    Periods = {2, 3}
    Executions = {1, 2}
    TickWrap = 10
    MaxDelay = 3
    MaxTime = 9
    \* IpcTables
    IpcTasks = {p1, p2}
    IpcKeys = {k1, k2}
    NoKey = NoKey
    SegmentSizes = {2, 4}
    SHM_PAGE = 2
    VirtualPages = 5
    Descriptors = 3
    RefWrap = 8
    \* FileSystem
    block_group_nr = 2
    blocks_per_group = 4
    first_data_block = 0
    first_inode = 3
    inodes_per_group = 2
    InodesPerBlock = 2
    W = 2
    NDirect = 1
    MAX_CACHE_BLOCKS = 2
    Fds = {0, 1}
    Inodes = {1, 2}
    Lengths = {1, 3}
    Faulty = {3}
    MaxCalls = 7
CONSTRAINTS
    Intact
    FaultsUnderFifo
VIEW ByPolicy
INVARIANTS
    PermitsConserved
    NoSleepOnPermit
    PagesNotShared
    ProtectionAgrees
    RtPaced
    IpcAccounted
    FilesIntact
    ReadsFile
    BitmapAgrees
    ClosedFilesOnDevice
PROPERTIES
    FifoWakeup
    VictimJustified
CHECK_DEADLOCK FALSE
