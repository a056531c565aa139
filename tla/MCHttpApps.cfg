CONSTANTS
    Body <- TwoFiles
    Window = 2
    MaxStreams = 1
    Cuts = {1, 2}
    InboxLen = 2
    MaxFaults = 1
    MaxAccepts = 2
SPECIFICATION FairSpec
INVARIANT ConnectionKept
PROPERTY AllAnswered
CHECK_DEADLOCK FALSE
