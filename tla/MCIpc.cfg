SPECIFICATION FairSpec
CONSTANTS
    Slots <- MCSlots
    Receivers <- MCReceivers
    Senders <- MCSenders
    Capacity = 2
    Wrap = 3
    Messages = {a, b}
    Nothing = Nothing
INVARIANTS
    TypeOK
    RingsWhole
    StatsAddUp
PROPERTIES
    ImplementsMailbox
    EveryMessageMoves
