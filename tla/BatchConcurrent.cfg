\* Two handlers at a time, each of which may die between two statements.
SPECIFICATION Spec
CONSTANTS
    Threads = {t1, t2}
    RfidThread = t1
    r1 = r1
    Readers = {r1}
    BATCH_STATUS_READERS = {r1}
    Balloons = {n1}
    Bodies <- CountingBodies
    Keep = Keep
    MayFail = TRUE
    MaxBatches = 1
    MaxCount = 1
    MaxOrphans = 0
    MaxSensor = 1
    MaxForced = 0
VIEW LiveState
INVARIANTS
    
    StatusFlagAgree
    CompletedMeansTtnClosed
CHECK_DEADLOCK FALSE
