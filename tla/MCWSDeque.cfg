SPECIFICATION Spec
CONSTANTS
    a0 = a0
    a1 = a1
    a2 = a2
    NoArray = NoArray
    NumWorkers = 2
    Deques = {0}
    Arrays <- MCArrays
    InitArray <- MCInitArray
    ReclaimThreshold = 1
    Items = {i1, i2, i3}
    NoItem = NoItem
    Pushers = {0}
    InitCap = 2
    MaxBottom = 4
SYMMETRY MCSymmetry
INVARIANTS
    TypeOK
PROPERTIES
    IsTaskPool
    KeepsReclamationDiscipline
