SPECIFICATION FairSpec
CONSTANTS
    Procs = {p1, p2}
    Names = {n1}
    MaxQueues = 2
    MaxOpens = 2
    MaxMsgs = 2
    NoName = NoName
INVARIANTS
    TypeOK
    NamesAgree
    OpenMeansHeld
    SleepersHaveReason
PROPERTIES
    AlarmWakes
CHECK_DEADLOCK FALSE
