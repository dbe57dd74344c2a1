SPECIFICATION POCRSpec
CONSTANTS
    n1 = n1
    n2 = n2
    n3 = n3
    Node <- MCNode
    Symbol <- MCSymbol
    Inputs <- OtherInputs
    Transitive <- OnlyF
INVARIANTS
    Complete
