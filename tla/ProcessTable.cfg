SPECIFICATION Spec
CONSTANTS
    MaxProcs = 3
    WaitIds <- AnyOrOne
    Killers = {1}
    MaxFailed = 1
INVARIANTS
    TypeOK
    TreeConsistent
    ReportedOnce
    WaiterHasLiveChild
    LiveCounted
CHECK_DEADLOCK FALSE
