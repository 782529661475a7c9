SPECIFICATION FairSpec
CONSTANTS
    MaxInit = 1
    Polls = FALSE
    Outlasts = FALSE
INVARIANT DispatchOnOpenHandle
CHECK_DEADLOCK FALSE
