SPECIFICATION FairSpec
CONSTANTS
    CPUs = {c1}
    Procs = {p1, p2}
    InitProcs = {p1}
    Events = {e1}
    Traps = {"sleep", "fork", "exec", "exit", "kill"}
    NoCpu = NoCpu
    NoProc = NoProc
INVARIANTS
    LifeInv
PROPERTIES
    ReadyRuns
    WokenResumes
