SPECIFICATION Spec
CONSTANTS
    FrameLen = 5
    BufSiz = 2
    Lag = 2
    ConnectTries = 2
    MaxPackets = 2
    MaxFrames = 3
INVARIANTS
    ReportsAreSnapshots
    NoOverrunInTime
PROPERTIES
    ReportsNeverGoBack
    CopiesArrive
CHECK_DEADLOCK FALSE
