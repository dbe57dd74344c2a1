SPECIFICATION Spec
CONSTANTS
    NoFork = NoFork
    Inst <- MCInst
    Fun <- MCFun
    Mem <- MCMem
    Programs <- Others
    MaxThreads = 3
    MaxDepth = 2
INVARIANTS
    RacesAnnotated
CHECK_DEADLOCK FALSE
