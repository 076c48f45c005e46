SPECIFICATION Spec
CONSTANTS
    Readers = {r1}
    Writers = {w1}
    Bytes = {0, 1}
    Counts = {0, 1}
    MaxPipeSize = 3
INVARIANTS
    NotBothEndsAsleep
CHECK_DEADLOCK FALSE
