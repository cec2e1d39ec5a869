SPECIFICATION Spec
CONSTANTS
    MaxThreads = 3
    NThreads = 3
    Period = 2
    SpinTicks = 2
    IpcThreads <- MCIpcThreads
    UserThreads <- MCUserThreads
    Shell = None
    Boot = Boot
    None = None
INVARIANT ResumesWhereItLeftOff
CHECK_DEADLOCK FALSE
