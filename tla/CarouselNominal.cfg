\* Two carousels with readers of their own; nothing fails and frames are handled at once.
SPECIFICATION Spec
CONSTANTS
    c1 = c1
    c2 = c2
    r1 = r1
    r2 = r2
    Carousels = {c1, c2}
    Posts = {1, 2}
    Readers = {r1, r2}
    ReaderOf <- OwnReaders
    Refused = {1}
    Oversized = {}
    Prompt = TRUE
    MayFail = FALSE
    Drift = {0}
    REQUEST_CACHE = 1
    MaxBalloons = 2
    Arriving <- ManyAndOne
    MaxRepeats = 1
INVARIANTS
    TypeOK
    OwnPassport
    OnePassportPerRequest
    FullWeightOnOwnRow
    AnswersAreRecorded
PROPERTIES
    FullWeightRecorded
CHECK_DEADLOCK FALSE
