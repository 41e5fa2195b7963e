\* The reader of a carousel and that of a ramp; Miriada, Redis, the database, the lamp and
\* the connections fail, the process restarts once.
SPECIFICATION Spec
CONSTANTS
    carousel = carousel
    ramp = ramp
    Readers = {carousel, ramp}
    FieldSize <- OneAndTwo
    Traffic <- Cases
    MaxBalloons = 2
    NeedCache = {carousel}
    Immediate = {carousel}
    MayFail = TRUE
    WINDOW <- OneAndThree
    ATTEMPTS = 2
    Slots = {1, 2}
INVARIANTS
    TypeOK
    CountedOnce
    PassportsInOrder
    StatusAfterPassport
    AcknowledgedIsCounted
PROPERTIES
    AlwaysReadsAgain
    TagsAreProcessed
CHECK_DEADLOCK FALSE
