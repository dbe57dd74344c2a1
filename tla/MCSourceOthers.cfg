SPECIFICATION Spec
CONSTANTS
    Width <- WidthOtherwise
    HoleAt <- TwoHoles
    AfterLines <- OtherAfter
    BeforeLines <- NoLines
    ReplaceLines <- NoLines
    Ranges <- FromSecondAndOneLine
    Branches <- DeleteEither
    Fillings <- FillFirst
    Careful = FALSE
    MaxEdits = 3
INVARIANTS
    Aligned
    SnippetsInPlace
    OneBehindAtMost
    AllDeleted
    HolesNamed
    HolesExact
CHECK_DEADLOCK FALSE
