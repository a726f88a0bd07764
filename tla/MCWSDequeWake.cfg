SPECIFICATION Spec
CONSTANTS
    a0 = a0
    a1 = a1
    a2 = a2
    NoArray = NoArray
    NumWorkers = 2
    Deques = {0}
    Arrays <- MCArrays
    InitArray <- MCInitArray
    ReclaimThreshold = 4
    Items = {i1, i2}
    NoItem = NoItem
    Pushers = {0, 1}
    InitCap = 4
    MaxBottom = 3
SYMMETRY MCSymmetry
INVARIANTS
    PushedIsSeen
