SPECIFICATION FairSpec
CONSTANTS
    Blocks = {b1}
    Keys = {1, 2}
    Procs = {p1, p2, p3}
    MaxHeld = 1
    Chains = 2
    NoKey = NoKey
    NoBlock = NoBlock
PROPERTIES
    WaiterWakes
