SPECIFICATION FairSpec
CONSTANTS
    Cap = 1
    Flight = 3
    AckRatio = 2
    Talkers <- OnlyClient
    TlsFails <- Both
    Closers <- OnlyClient
    Retries = {TRUE, FALSE}
    Version = "greased"
    MaxPn = 9
    MaxFaults = 1
    MaxSpurious = 0
INVARIANTS
    DropIsSafe
    AmplificationLimit
PROPERTIES
    HandshakeCompletes
CHECK_DEADLOCK FALSE
