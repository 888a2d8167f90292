SPECIFICATION ServicesSpec
CONSTANTS
    \* KvTxn
    Txns = {x1, x2}
    Keys = {k1, k2}
    Values = {v1, v2}
    NOTFOUND = NOTFOUND
    MaxOps = 2
    \* KvStore
    KeyRange = {1, 2, 3}
    StoredValues <- MCStoredValues
    MAX_LEVEL = 2
    None = None
    MaxPuts = 3
    MaxFailures = 1
    MaxCrashes = 1
    \* Epoll
    RbNodes = {1, 2, 3, 4, 5, 6}
    Null = Null
    Users = {u1, u2}
    Slots = {0}
    Events = {"e1", "e2"}
    \* WsServer
    Conns = {"c1", "c2", "c3"}
    MAX_CLIENTS = 2
    MAX_HEADERS = 4
    BUFFER_SIZE = 140
    RecvSizes = {6, 8, 10, 11, 14, 17, 25, 134}
    MaxBroadcasts = 1
    Requests <- MCRequests
    Script <- MCScript
    MaskingKey <- MCMaskingKey
    \* Mqtt
    Configs <- MCConfigs
    Absent = Absent
    MaxAddresses = 2
    ProbeLengths <- MCProbeLengths
    \* LwipPort
    Pbufs = {p1, p2}
    Apps = {a1, a2}
    Nothing = Nothing
    MboxSize = 2
    RingSize = 2
    MaxFrames = 4
    MaxTicks = 1
    \* Json
    Items <- MCItems
    CodePoints <- MCCodePoints
    Literals <- MCLiterals
CONSTRAINTS
    NoFrameCut
    OneForE2
INVARIANTS
    ReadsOwnWrites
    FailedCommitIsPartial
    AckedReadable
    FindSeesList
    TreeBalanced
    RegistrationsFound
    MessagesInOrder
    ClientsAreLive
    ConnectDecodes
    NetworkReleased
    MailConserved
    JsonSurvives
CHECK_DEADLOCK FALSE
