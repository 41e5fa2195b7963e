\* Two carousels share a reader; connections, frames, Redis and the database fail.
SPECIFICATION Spec
CONSTANTS
    c1 = c1
    c2 = c2
    r1 = r1
    r2 = r2
    Carousels = {c1, c2}
    Posts = {1}
    Readers = {r1}
    ReaderOf <- SharedReader
    Refused = {}
    Oversized = {2}
    Prompt = TRUE
    MayFail = TRUE
    Drift = {0}
    REQUEST_CACHE = 1
    MaxBalloons = 2
    Arriving <- OneLine
    MaxRepeats = 1
INVARIANTS
    PassportUsedOnce
PROPERTIES
    AlwaysReadsAgain
    PassportsInLine
CHECK_DEADLOCK FALSE
