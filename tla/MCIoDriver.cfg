SPECIFICATION FairSpec
CONSTANTS
    Coros = {a, b}
    Cap = 2
    MaxCalls = 3
    Nothing = Nothing
    Timely = TRUE
CHECK_DEADLOCK FALSE
PROPERTIES
    KeepsIoPromise
    CallsReturn
