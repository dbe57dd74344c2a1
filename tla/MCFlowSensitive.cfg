SPECIFICATION FIFOSpec
CONSTANTS
    Var <- MCVar
    Obj <- MCObj
    Node <- MCNode
    Kind <- MCKind
    Def <- MCDef
    Ptr <- MCPtr
    Use <- MCUse
    AddrOf <- MCAddrOf
    GepObj <- MCGepObj
    DirEdges <- MCDirEdges
    IndEdges <- MCIndEdges
    ConstantObj = {}
    Shared = {}
    Insensitive = {"s"}
    AllFields <- MCAllFields
    CallSite = {"cs"}
    FunPtr <- MCFunPtr
    Callee = {"f"}
    AndersCalls <- MCCalls
    CallDir <- MCCallDir
    CallInd <- MCCallInd
    CallUse <- MCCallUse
    Incremental = TRUE
    Orders <- MCOrders
    Solution <- MCSolution
INVARIANTS
    MarksCover
    WithinSolution
PROPERTIES
    RefinesAndersen
    Terminates
