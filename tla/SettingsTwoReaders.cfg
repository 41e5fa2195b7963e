\* Two carousels ask at the same time.
SPECIFICATION Spec
CONSTANTS
    web = web
    listener = listener
    w1 = w1
    l1 = l1
    l2 = l2
    Processes = {web, listener}
    Threads = {w1, l1, l2}
    ProcessOf <- TwoReaders
    Writers = {w1}
    Numbers = {1}
    Values = {a, b}
    Absent = Absent
    None = None
    Alone = {"create", "edit", "delete", "start"}
    MayFail = FALSE
    MaxWrites = 4
INVARIANTS
    FreshRead
