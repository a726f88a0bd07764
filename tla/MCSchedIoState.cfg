SPECIFICATION Spec
CONSTANTS
    c1 = c1
    c2 = c2
    c3 = c3
    main = main
    Coros <- MCCoros
    Main = main
    NoCoro = NoCoro
    MaxWorkers = 2
    Scenarios <- MCIo
    MaxOps = 2
    LateAwait = FALSE
CHECK_DEADLOCK FALSE
SYMMETRY MCSymmetry
INVARIANTS
    NoInvalidTransition
