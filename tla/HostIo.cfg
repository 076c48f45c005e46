SPECIFICATION FairSpec
CONSTANTS
    Procs = {p1, p2}
    Files = {f1}
    MaxRequests = 3
    Addresses = {a1, a2, a3}
    NoRequest = NoRequest
INVARIANTS
    SleepersHaveReason
PROPERTIES
    ImplementsTransfer
    Answered
CHECK_DEADLOCK FALSE
