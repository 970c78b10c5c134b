SPECIFICATION Spec
CONSTANTS
    NServer = 2
    InitConn = 1
    MaxNode = 2
    UIntWord = 16
    MaxBreaks = 1
    ConnectFails = TRUE
    NReq = 3
    ReqServer <- MCReqServer
INVARIANTS
    OneFlowPerConnection
    AvailableLenCounts
    SearchFinds
PROPERTIES
    Terminates
    ServersReleased
    ImplementsLog
CHECK_DEADLOCK FALSE
