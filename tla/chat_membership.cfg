SPECIFICATION Spec
CONSTANTS
    None = None
    Users = {a, b}
    Procs = {p1, p2}
    Seeds = {"direct", "group"}
    Ops = {"create", "add", "remove", "leave", "send"}
    MaxRequests = 3
    MaxFailures = 0
    MaxClock = 1
SYMMETRY Symmetry
INVARIANTS
    SenderWasMember
    RemovedByManager
    AbsenceExplained
    SequentialGroupUnique
    SequentialDirectUnique
PROPERTY GroupExitIsFinal
