SPECIFICATION PartsSpec
CONSTANTS
    NKeys = 3
    Convs = {a, b}
    Slots = {p, q}
    MaxFiles = 2
    MaxMsgs = 2
    MaxMoves = 5
    Queries = {q1, q2}
    MaxCalls = 4
    MaxStarts = 2
    MaxSearchMoves = 6
    Peers = {r, s}
    Ttl = 2
    Skews <- MCSkews
    MaxTime = 5
    MaxSignals = 3
    MaxInbox = 2
    Texts <- MCTexts
    Size = 7
    Lengths <- MCLengths
    Block = 64
SYMMETRY Symmetry
INVARIANTS
    SoloTriesEveryKey
    SuggestionsBelong
    FileAsChosen
    DraftNotStuck
    OwnTimeout
    ResultsAnswerField
    ShownAsSent
    BlocksArePadded
PROPERTY DraftKept
CHECK_DEADLOCK FALSE
