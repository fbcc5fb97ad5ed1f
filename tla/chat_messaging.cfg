SPECIFICATION Spec
CONSTANTS
    None = None
    Users = {a, b}
    Procs = {p1, p2}
    Seeds = {"direct"}
    Ops = {"leave", "send", "bot", "read"}
    MaxRequests = 3
    MaxFailures = 1
    MaxClock = 2
SYMMETRY Symmetry
INVARIANTS
    SeenWasRead
    SequentialUnread
