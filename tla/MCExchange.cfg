SPECIFICATION Spec
CONSTANTS
    Units = {u1, u2}
    u1 = u1
    u2 = u2
    Infos = {u1}
    Shapes <- WideShapes
    AckRatio = 2
    WindowSize = 3
    MaxPn = 5
    MaxAcks = 2
    MaxLosses = 1
    MaxCopies = 1
INVARIANTS
    AckedWasRecorded
    HandledOnce
    RangesExact
    SettledWasProcessed
CHECK_DEADLOCK FALSE
