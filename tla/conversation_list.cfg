SPECIFICATION Spec
CONSTANTS
    a = a
    b = b
    Convs = {a, b}
    First <- MCFirst
    Slots = {s1, s2}
    MaxLists = 2
    MaxMsgs = 4
    MaxInbox = 4
    MaxMoves = 3
SYMMETRY Symmetry
INVARIANTS ListTrue
CHECK_DEADLOCK FALSE
