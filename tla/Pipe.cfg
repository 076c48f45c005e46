SPECIFICATION Spec
CONSTANTS
    Readers = {r1}
    Writers = {w1, w2}
    Bytes = {0, 1}
    Counts = {1, 2}
    MaxPipeSize = 3
SYMMETRY EndsSymmetry
INVARIANTS
    TypeOK
    SleepersHaveReason
    NotBothEndsAsleep
PROPERTIES
    ImplementsFifo
CHECK_DEADLOCK FALSE
