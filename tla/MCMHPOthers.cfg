SPECIFICATION SystemSpec
CONSTANTS
    NoFork = NoFork
    Mem = {}
    Inst <- MCInst
    Fun <- MCFun
    Programs <- Others
    MaxThreads = 4
    MaxDepth = 2
INVARIANTS
    Sound
    JoinEnds
CHECK_DEADLOCK FALSE
