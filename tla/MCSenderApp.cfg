SPECIFICATION Spec
CONSTANTS
    Ids = {b1, b2}
    b1 = b1
    b2 = b2
    NoId = NoId
    Sizes = {2}
    EmptyFin = TRUE
    AppShutdown = TRUE
    Deadlines = {0}
    DTP = TRUE
    InitStreamMax = 3
    StreamMaxes = {}
    InitMaxTx = 3
    TxMaxes = {4}
    ResetLen = 2
    InfoLen = 1
    StreamHdr = 1
    MaxStreamOverhead = 1
    Lefts = {3}
    Others = {FALSE}
    LateFrames = TRUE
    PktNums = {1, 2}
    MaxOff = 2
    MaxQueue = 1
    MaxNow = 1
    MaxLost = 1
INVARIANTS
    FinalSizeConsistent
    NoByteLost
    ByteInOnePlace
    WritableExact
SYMMETRY BlockSymmetry
CHECK_DEADLOCK FALSE
