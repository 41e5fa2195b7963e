\* One operation at a time; publishing may fail.
SPECIFICATION Spec
CONSTANTS
    web = web
    listener = listener
    w1 = w1
    l1 = l1
    l2 = l2
    Processes = {web, listener}
    Threads = {w1, l1}
    ProcessOf <- OneReader
    Writers = {w1}
    Numbers = {n1, n2}
    Values = {a, b}
    Absent = Absent
    None = None
    Alone = {"create", "edit", "save", "delete", "get", "start"}
    MayFail = TRUE
    MaxWrites = 4
VIEW LiveState
SYMMETRY SameContents
INVARIANTS
    TypeOK
    FreshRead
