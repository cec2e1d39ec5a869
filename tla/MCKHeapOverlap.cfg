SPECIFICATION Spec
CONSTANTS
    Threads = {t1, t2}
    Requests <- MCRequests
    Header = 1
    PageSize = 7
    FirstSize = 7
    Limit = 14
    MaxBuffers = 2
    Null = Null
INVARIANT BuffersPrivate
CHECK_DEADLOCK FALSE
