SPECIFICATION HeapSpec
CONSTANTS
    Ids = {s1, s2}
    s1 = s1
    s2 = s2
    NoId = NoId
    BlockLen = 3
    Frames <- AnyFrames
    Retransmit = TRUE
    Resets = TRUE
    Infos = TRUE
    AppShutdown = TRUE
    Caps = {2}
    InitStreamMax = 2
    InitMaxData = 3
    InitMaxStreams = 1
    Lefts = {0, 2}
    LossyControl = TRUE
    UsizeMod = 64
    EvalLimit = 0
    MaxNow = 1
INVARIANTS
    HeapAgrees
    ChunksDisjoint
    ReadableExact
    NoUnderflow
    HonestPeerKept
SYMMETRY StreamSymmetry
CHECK_DEADLOCK FALSE
