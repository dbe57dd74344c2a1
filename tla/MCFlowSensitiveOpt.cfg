SPECIFICATION FIFOSpec
CONSTANTS
    Var <- MCVar
    Obj <- MCObj
    Node <- OptNode
    Kind <- OptKind
    Def <- OptDef
    Ptr <- OptPtr
    Use <- OptUse
    AddrOf <- OptAddrOf
    GepObj <- OptGepObj
    DirEdges <- OptDirEdges
    IndEdges <- OptIndEdges
    ConstantObj = {}
    Shared = {}
    Insensitive = {"s"}
    AllFields <- MCAllFields
    CallSite = {"cs"}
    FunPtr <- MCFunPtr
    Callee = {"f"}
    AndersCalls <- MCCalls
    CallDir <- OptCallDir
    CallInd <- OptCallInd
    CallUse <- OptCallUse
    Incremental = TRUE
    Orders <- OptOrders
    Solution <- OptSolution
INVARIANTS
    WorklistCovers
    SolvedAtEnd
