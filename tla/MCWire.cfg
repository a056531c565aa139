CONSTANTS
    TagLen <- Tag16
    SampleLen <- Sample16
    Works <- AllWorks
    MaxPkt = 120
    MinInitial = 60
    FecPayload = 60
    AckRatio = 2
    UsizeMod = 65536
    MaxLosses = 1
    StaticTable <- SomeTable
    Samples <- AllSamples
SPECIFICATION WireSpec
INVARIANTS FramesSurvive NothingMisread SizesRight WorkKept CodecsAgree
CHECK_DEADLOCK FALSE
