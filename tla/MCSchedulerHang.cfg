SPECIFICATION FairSpec
CONSTANTS
    MaxThreads = 3
    NThreads = 3
    Period = 2
    SpinTicks = 2
    IpcThreads <- MCIpcThreads
    UserThreads <- MCUserThreads
    Shell = 1
    Boot = Boot
    None = None
PROPERTY KeyboardStaysPolled
CHECK_DEADLOCK FALSE
