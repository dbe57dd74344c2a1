SPECIFICATION SystemSpec
CONSTANTS
    NoFork = NoFork
    Mem = {}
    Inst <- MCInst
    Fun <- MCFun
    Programs <- MCPrograms
    MaxThreads = 4
    MaxDepth = 2
INVARIANTS
    OneParent
    Sound
    OrderIrrelevant
CHECK_DEADLOCK FALSE
