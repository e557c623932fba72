\* Two threads, two sizes.
SPECIFICATION FairAllocSpec
CONSTANTS
    Thread = {t1, t2}
    NBucket = 2
    Count <- MCCount
    MaxStored <- MCMaxStored
    MaxPages = 2
INVARIANTS OnePlace
PROPERTIES ImplementsPool MallocReturns
CHECK_DEADLOCK FALSE
