SPECIFICATION FairSpec
CONSTANTS
    Coros = {c1, c2}
    Threads = {main}
    Caps = {0, 1, 2}
    Zero = Zero
    MaxSends = 2
    MaxRecvs = 1
CHECK_DEADLOCK FALSE
INVARIANTS
    TypeOK
    RingConsistent
    NoPointlessWait
    WakeupPending
    OneValuePerReceive
PROPERTIES
    KeepsPromise
    CloseReleases
