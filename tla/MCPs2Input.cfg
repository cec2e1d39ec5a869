SPECIFICATION FairSpec
CONSTANTS
    KB_BUF_SIZE = 3
    Keys = {30}
    Low <- MCLow
    High <- MCHigh
    Packets <- MCPackets
    Width = 3
    Height = 3
    Config = 101
    MaxKeys = 3
    MaxPackets = 2
    MaxOut = 3
INVARIANTS
    TypeOK
    KeysInOrder
    PointerTracks
PROPERTIES
    BootEnds
CHECK_DEADLOCK FALSE
