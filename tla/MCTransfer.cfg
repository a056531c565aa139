SPECIFICATION FairTransferSpec
CONSTANTS
    Ids = {b1}
    b1 = b1
    NoId = NoId
    Sizes = {4}
    BlockLen = 4
    EmptyFin = FALSE
    AppShutdown = FALSE
    Deadlines = {0}
    DTP = TRUE
    InitStreamMax = 4
    StreamMaxes = {}
    InitMaxTx = 3
    TxMaxes = {}
    ResetLen = 2
    InfoLen = 1
    StreamHdr = 1
    MaxStreamOverhead = 1
    Lefts = {4}
    Others = {FALSE}
    LateFrames = TRUE
    PktNums = {1, 2}
    MaxOff = 4
    MaxQueue = 3
    MaxNow = 1
    MaxLost = 1
    Caps = {2}
    RLefts = {3}
    MaxDrops = 1
INVARIANTS
    MaxDataKept
PROPERTIES
    Delivery
    BlockDelivered
CHECK_DEADLOCK FALSE
