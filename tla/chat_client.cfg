SPECIFICATION Spec
CONSTANTS
    a = a
    Convs = {a, b}
    History <- MCHistory
    Spoken = {a}
    PageSize = 1
    MaxMsgs = 3
    MaxInbox = 3
    MaxCalls = 1
    MaxFetches = 2
    MaxSyncs = 1
    MaxMoves = 4
INVARIANTS RoomsEarned ThreadSound ComposerReleased
CHECK_DEADLOCK FALSE
