SPECIFICATION FairSpec
CONSTANTS
    Ids = {b1, b2}
    b1 = b1
    b2 = b2
    NoId = NoId
    Sizes = {2}
    EmptyFin = FALSE
    AppShutdown = FALSE
    Deadlines = {1}
    DTP = TRUE
    InitStreamMax = 2
    StreamMaxes = {3}
    InitMaxTx = 9
    TxMaxes = {}
    ResetLen = 2
    InfoLen = 1
    StreamHdr = 1
    MaxStreamOverhead = 1
    Lefts = {3}
    Others = {FALSE}
    LateFrames = FALSE
    PktNums = {1, 2}
    MaxOff = 3
    MaxQueue = 3
    MaxNow = 2
    MaxLost = 1
INVARIANTS
    QueueExact
    NoExpiredData
    TxDataExact
PROPERTIES
    BlockResolved
