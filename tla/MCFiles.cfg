SPECIFICATION FairSpec
CONSTANTS
    Shell = shell
    User = user
    UserPath <- MCUserPath
    MAX_FAT32_NODES = 4
    MAX_RAMFS_FILES = 3
    RamList <- MCRamList
    Disk <- MCDisk
    FatStart = 1
    DataStart = 3
    PerCluster = 2
    RootCluster = 2
    FatWords = 5
    SectorBytes = 2
    Mask <- MCMask
    EndOfChain <- MCEnd
    Chunk = 4
    Magic = 127
    Names <- MCNames
    Chain <- MCChain
    Children <- MCChildren
    Before <- MCBefore
    Trail <- MCTrail
    Commands <- MCCommands
    MaxCommands = 1
    None = None
INVARIANTS
    TypeOK
    
    
PROPERTIES
    CommandsEnd
CHECK_DEADLOCK FALSE
