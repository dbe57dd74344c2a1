SPECIFICATION Spec
CONSTANTS
    Var <- MCVar
    Obj <- MCObj
    Node <- MCNode
    Kind <- MCKind
    Def <- MCDef
    Ptr <- MCPtr
    Use <- MCUse
    AddrOf <- MCAddrOf
    GepObj <- MCGepObj
    DirEdges <- MCDirEdges
    IndEdges <- MCIndEdges
    ConstantObj = {}
    Shared = {}
    Insensitive = {}
    AllFields <- MCAllFields
    CallSite = {"cs"}
    FunPtr <- MCFunPtr
    Callee = {"f"}
    AndersCalls <- MCCalls
    CallDir <- MCCallDir
    CallInd <- MCCallInd
    CallUse <- MCCallUse
    Incremental = FALSE
    DefNode <- MCDefNode
    ResolveAt <- MCResolveAt
    Conservative <- MCConservative
    Budgets = {3, 9, 21, 1000}
    Orders <- MCOrders
    Queries = {"t", "y", "r", "h"}
    NoVar = "novar"
    Solution <- MCSolution
INVARIANTS
    AnswersComplete
    WithinSolution
PROPERTIES
    QueriesEnd
