SPECIFICATION FairSpec
CONSTANTS
    MaxThreads = 5
    NThreads = 4
    Period = 2
    SpinTicks = 2
    IpcThreads <- MCIpcThreads
    UserThreads <- MCUserThreads
    Shell = 1
    Boot = Boot
    None = None
INVARIANTS
    TypeOK
    CurrentOwnsTheCpu
    ContextIntegrity
    
    CurrentIsRunning
PROPERTIES
    RoundRobinOrder
    StarvationFree
CHECK_DEADLOCK FALSE
