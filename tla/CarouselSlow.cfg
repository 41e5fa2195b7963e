\* A repetition is read late, because handling the first frame took its time.
SPECIFICATION Spec
CONSTANTS
    c1 = c1
    c2 = c2
    r1 = r1
    r2 = r2
    Carousels = {c1}
    Posts = {1}
    Readers = {r1}
    ReaderOf <- OneCarousel
    Refused = {}
    Oversized = {}
    Prompt = FALSE
    MayFail = FALSE
    Drift = {0}
    REQUEST_CACHE = 1
    MaxBalloons = 2
    Arriving <- OneLine
    MaxRepeats = 1
INVARIANTS
    OnePassportPerRequest
CHECK_DEADLOCK FALSE
