SPECIFICATION Spec
CONSTANTS
    Texts <- MCTexts
    Size = 7
INVARIANT RestoredAsSent
CHECK_DEADLOCK FALSE
