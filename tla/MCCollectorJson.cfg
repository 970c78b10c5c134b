SPECIFICATION Spec
CONSTANTS
    NConn = 1
    DeviceId = {1}
    Content <- FadingContent
    GetTries = 1
    PostTries = 1
    MaxReports = 1
INVARIANT DistributionsAreLists
CHECK_DEADLOCK FALSE
