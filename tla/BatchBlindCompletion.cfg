\* "status": 3 sent to a batch that failed to close.
SPECIFICATION Spec
CONSTANTS
    Threads = {t1}
    RfidThread = t1
    r1 = r1
    Readers = {r1}
    BATCH_STATUS_READERS = {r1}
    Balloons = {n1}
    Bodies <- CloseByStatus
    Keep = Keep
    MayFail = FALSE
    MaxBatches = 1
    MaxCount = 1
    MaxOrphans = 0
    MaxSensor = 0
    MaxForced = 1
INVARIANT CompletedMeansTtnClosed
CHECK_DEADLOCK FALSE
