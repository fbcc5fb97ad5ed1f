SPECIFICATION Spec
CONSTANTS
    None = None
    Users = {a, b}
    Procs = {p1}
    Seeds = {"direct"}
    Ops = {"add", "leave", "send"}
    MaxRequests = 3
    MaxFailures = 0
    MaxClock = 1
INVARIANT UniqueActiveMembership
