SPECIFICATION Spec
CONSTANTS
    NConn = 2
    DeviceId = {0, 1, 2}
    Content <- MCContent
    GetTries = 1
    PostTries = 0
    MaxReports = 2
INVARIANTS
    DeviceIsKnown
    ReportIsWhole
PROPERTY
    ReportsFinish
CHECK_DEADLOCK FALSE
