\* Saves, before and after their commit, between the statements of one listener thread;
\* nothing fails.
SPECIFICATION Spec
CONSTANTS
    web = web
    listener = listener
    w1 = w1
    l1 = l1
    l2 = l2
    Processes = {web, listener}
    Threads = {w1, l1}
    ProcessOf <- OneReader
    Writers = {w1}
    Numbers = {1, 2}
    Values = {a, b}
    Absent = Absent
    None = None
    Alone = {"create", "delete", "start"}
    MayFail = FALSE
    MaxWrites = 4
INVARIANTS
    FreshRead
PROPERTIES
    StoreSettles
