SPECIFICATION FairSpec
CONSTANTS
    MaxInit = 4
    Polls = TRUE
    Outlasts = TRUE
INVARIANTS NoHandleLost GoneIsOff
PROPERTY StopHonoured
CHECK_DEADLOCK FALSE
