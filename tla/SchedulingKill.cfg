SPECIFICATION Spec
CONSTANTS
    CPUs = {c1, c2}
    Procs = {p1, p2}
    InitProcs = {p1, p2}
    Events = {e1}
    Traps = {"exit", "kill"}
    NoCpu = NoCpu
    NoProc = NoProc
INVARIANTS
    KillEndsNoProcessor
