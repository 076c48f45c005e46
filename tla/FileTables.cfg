SPECIFICATION Spec
CONSTANTS
    Procs = {p1, p2}
    NoProc = NoProc
    MaxOpenFiles = 2
    Terminals = {0}
    Pipes = {1}
    Opens = {1}
    MaxCount = 3
    MaxAgain = 1
    Processors = 2
SYMMETRY ProcsSymmetry
INVARIANTS
    PipeEndsAgree
    NoDangling
CHECK_DEADLOCK FALSE
