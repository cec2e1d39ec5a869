SPECIFICATION FairSpec
CONSTANTS
    PageSize = 2
    PerTable = 2
    Ident = 6
    Booted = 2
    BrkStart = 8
    BrkEnd = 14
    Frames = 12
    Breaks <- MCBreaks
    Touched <- MCTouched
    None = None
INVARIANTS
    TypeOK
    FramesAccounted
    HaltedForAReason
PROPERTIES
    MappingsStand
    AccessEnds
CHECK_DEADLOCK FALSE
