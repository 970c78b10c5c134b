SPECIFICATION Spec
CONSTANTS
    NServer = 2
    InitConn = 2
    MaxNode = 2
    UIntWord = 16
    MaxBreaks = 1
    ConnectFails = TRUE
    NReq = 2
    FlowCount <- TwoServers
INVARIANTS
    FlowReqIdWhileServed
    NeverStuck
CHECK_DEADLOCK FALSE
