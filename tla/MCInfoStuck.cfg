SPECIFICATION FairTransferSpec
CONSTANTS
    Ids = {b1}
    b1 = b1
    NoId = NoId
    Sizes = {3}
    BlockLen = 3
    EmptyFin = FALSE
    AppShutdown = FALSE
    Deadlines = {1}
    DTP = FALSE
    InitStreamMax = 3
    StreamMaxes = {}
    InitMaxTx = 122
    TxMaxes = {}
    ResetLen = 2
    InfoLen = 1
    StreamHdr = 1
    MaxStreamOverhead = 1
    Lefts = {4}
    Others = {FALSE}
    LateFrames = TRUE
    PktNums = {1, 2}
    MaxOff = 3
    MaxQueue = 3
    MaxNow = 0
    MaxLost = 1
    Caps = {2}
    RLefts = {3}
    MaxDrops = 0
PROPERTIES
    BlockSettled
CHECK_DEADLOCK FALSE
