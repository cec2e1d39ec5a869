SPECIFICATION FairSpec
CONSTANTS
    Threads = {t1, t2}
    Requests <- MCRequests
    Header = 1
    PageSize = 7
    FirstSize = 7
    Limit = 21
    MaxBuffers = 3
    Null = Null
INVARIANTS
    TypeOK
    HeapTiled
    BuffersOwnBlocks
    Coalesced
PROPERTIES
    GrowsOnlyWhenFull
    EveryCallReturns
