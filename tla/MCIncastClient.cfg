SPECIFICATION Spec
CONSTANTS
    NServer = 1
    InitConn = 2
    MaxNode = 3
    UIntWord = 16
    MaxBreaks = 0
    ConnectFails = TRUE
    NReq = 3
    FlowCount <- LeftBehind
INVARIANTS
    FlowsServed
PROPERTY
    ImplementsLog
CHECK_DEADLOCK FALSE
