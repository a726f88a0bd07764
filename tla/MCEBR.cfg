SPECIFICATION EbrSpec
CONSTANTS
    a0 = a0
    a1 = a1
    a2 = a2
    NoArray = NoArray
    NumWorkers = 2
    Deques = {0}
    Arrays <- MCArrays
    InitArray <- MCInitArray
    ReclaimThreshold = 1
CHECK_DEADLOCK FALSE
INVARIANTS
    EbrTypeOK
    NoUseAfterFree
    RetiredOnce
    
