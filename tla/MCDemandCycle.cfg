SPECIFICATION Spec
CONSTANTS
    Var <- CycleVar
    Obj = {"a"}
    Node <- CycleNode
    Kind <- CycleKind
    Def <- CycleDef
    Ptr <- CyclePtr
    Use <- CycleUse
    AddrOf <- CycleAddrOf
    GepObj <- CycleGepObj
    DirEdges <- CycleDirEdges
    IndEdges = {}
    ConstantObj = {}
    Shared = {}
    Insensitive = {}
    AllFields <- CycleAllFields
    CallSite = {}
    FunPtr <- NoCalls
    Callee = {}
    AndersCalls = {}
    CallDir <- NoCalls
    CallInd <- NoCalls
    CallUse <- NoCalls
    Incremental = FALSE
    DefNode <- CycleDefNode
    ResolveAt <- CycleResolveAt
    Conservative <- CycleConservative
    Budgets = {1000}
    Orders <- CycleOrders
    Queries = {"r", "y"}
    NoVar = "novar"
    Solution <- CycleSolution
INVARIANTS
    AnswersComplete
