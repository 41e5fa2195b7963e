\* A tag read while its batch is being closed.
SPECIFICATION Spec
CONSTANTS
    Threads = {t1, t2}
    RfidThread = t1
    r1 = r1
    Readers = {r1}
    BATCH_STATUS_READERS = {r1}
    Balloons = {n1, n2}
    Bodies <- DocumentedBodies
    Keep = Keep
    MayFail = FALSE
    MaxBatches = 1
    MaxCount = 2
    MaxOrphans = 0
    MaxSensor = 0
    MaxForced = 0
PROPERTY AllStatusesBeforeTtn
CHECK_DEADLOCK FALSE
