SPECIFICATION Spec
CONSTANTS
    p = p
    q = q
    a = a
    b = b
    Key <- MCKey
    Data <- MCData
    Sources <- MCSources
    IdLimits = {3, 4}
SYMMETRY Sym
VIEW ReadState
INVARIANTS
    CacheExact
    RevPtsExact
PROPERTIES
    ImplementsMutable
CHECK_DEADLOCK FALSE
