SPECIFICATION Spec
CONSTANTS
    WorkerLists <- MCWorkerLists
    PastHosts <- MCPastHosts
    MaxResets = 1
INVARIANTS
    ResultsAreFinal
PROPERTY
    MasterEnds
CHECK_DEADLOCK FALSE
