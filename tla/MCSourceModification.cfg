SPECIFICATION Spec
CONSTANTS
    Width <- MCWidth
    HoleAt <- MCHoles
    AfterLines <- MCAfter
    BeforeLines <- MCBefore
    ReplaceLines <- MCReplace
    Ranges <- MCRanges
    Branches <- MCBranches
    Fillings <- MCFillings
    Careful = TRUE
    MaxEdits = 5
INVARIANTS
    Aligned
    SnippetsInPlace
    OneBehindAtMost
    AllDeleted
CHECK_DEADLOCK FALSE
