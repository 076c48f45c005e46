SPECIFICATION Spec
CONSTANTS
    INodes = {0, 1, 2}
    Procs = {p1, p2}
    MaxCached = 2
    MaxHeld = 2
    Blank = Blank
    NoProc = NoProc
    NoINode = NoINode
SYMMETRY ProcsSymmetry
INVARIANTS
    TypeOK
    CountsAgree
    SleepersHaveReason
    CreatedOnce
CHECK_DEADLOCK FALSE
