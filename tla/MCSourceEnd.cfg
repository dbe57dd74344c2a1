SPECIFICATION Spec
CONSTANTS
    Width <- MCWidth
    HoleAt <- MCHoles
    AfterLines <- MCAfter
    BeforeLines <- MCBefore
    ReplaceLines <- MCReplace
    Ranges <- NoRanges
    Branches <- ElseBranch
    Fillings <- MCFillings
    Careful = TRUE
    MaxEdits = 5
INVARIANTS
    OnlyAsked
CHECK_DEADLOCK FALSE
