\* One handler at a time, none of them interrupted.
SPECIFICATION Spec
CONSTANTS
    Threads = {t1}
    RfidThread = t1
    r1 = r1
    Readers = {r1}
    BATCH_STATUS_READERS = {r1}
    Balloons = {n1, n2}
    Bodies <- StatusBodies
    Keep = Keep
    MayFail = FALSE
    MaxBatches = 2
    MaxCount = 2
    MaxOrphans = 1
    MaxSensor = 0
    MaxForced = 1
SYMMETRY SameBalloons
INVARIANTS
    TypeOK
    OneActivePerReader
    CounterMatchesList
PROPERTIES
    AllStatusesBeforeTtn
    LegalTransitions
    ReactivatedOnRequest
CHECK_DEADLOCK FALSE
