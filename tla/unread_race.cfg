SPECIFICATION Spec
CONSTANTS
    None = None
    Users = {a, b}
    Procs = {p1, p2}
    Seeds = {"direct"}
    Ops = {"send", "read"}
    MaxRequests = 3
    MaxFailures = 0
    MaxClock = 2
SYMMETRY Symmetry
INVARIANT UnreadConsistent
