SPECIFICATION Spec
CONSTANTS
    NoFork = NoFork
    Inst <- MCInst
    Fun <- MCFun
    Mem <- MCMem
    Programs <- MCPrograms
    MaxThreads = 3
    MaxDepth = 2
INVARIANTS
    RacesAnnotated
    LocksHeld
    LocksCollected
PROPERTIES
    AnnotationEnds
CHECK_DEADLOCK FALSE
