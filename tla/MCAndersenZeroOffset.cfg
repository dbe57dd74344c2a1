SPECIFICATION Spec
CONSTANTS
    a = a
    b = b
    c = c
    f = f
    g = g
    m = m
    p = p
    q = q
    r = r
    s = s
    t = t
    u = u
    x = x
    y = y
    fp = fp
    d = d
    none = none
    Val <- MCVal
    Base <- MCBase
    NumFields <- MCNumFields
    MaxFieldLimit = 2
    U32Half = 32768
    FirstFieldEqBase = FALSE
    CyclicFldIdx = FALSE
    ConstObj = {}
    BlkOrConst = {}
    Fun <- MCFun
    FunInfo <- MCFunInfo
    NoVal = none
    IndirectCallLimit = 100
    Programs <- ZeroOffsetCyclePrograms
INVARIANTS
    DirectSolved
