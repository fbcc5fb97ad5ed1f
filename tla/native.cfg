SPECIFICATION PartsSpec
CONSTANTS
    None = None
    Users = {u1, u2, u3}
    Conns = {c1, c2}
    MaxOnline = 2
    MaxInputs = 4
    MaxDeliveries = 1
    Calls = {j1, j2}
    NoCall = NoCall
    Blank = Blank
    Torn = Torn
INVARIANTS
    OneSessionPerUser
    AuthenticatedReachable
    EntriesOwned
    AnswerIsTrue
    NoSecondLogin
    SoloAnswersMatch
PROPERTIES
    HungUpIsClosed
    BackToPrompt
    EveryCallSettles
