SPECIFICATION Spec
CONSTANTS
    None = None
    Users = {a, b}
    Procs = {p1, p2}
    Seeds = {"direct"}
    Ops = {"leave", "presign", "confirm", "send"}
    MaxRequests = 4
    MaxFailures = 0
    MaxClock = 1
INVARIANTS
    AttachmentSound
    SequentialShare
PROPERTY EveryCallReturns
