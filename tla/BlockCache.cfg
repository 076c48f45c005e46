SPECIFICATION Spec
CONSTANTS
    Blocks = {b1, b2}
    Keys = {1, 2, 3}
    Procs = {p1, p2, p3}
    MaxHeld = 2
    Chains = 2
    NoKey = NoKey
    NoBlock = NoBlock
SYMMETRY CacheSymmetry
INVARIANTS
    TypeOK
    OneBufferPerBlock
    LockedMeansHeld
    SleepersHaveReason
    CacheCoherent
    NotAllAsleep
CHECK_DEADLOCK FALSE
