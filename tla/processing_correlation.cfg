SPECIFICATION Spec
CONSTANTS
    Calls = {j1, j2}
    NoCall = NoCall
    Blank = Blank
    Torn = Torn
INVARIANT AnswersMatch
