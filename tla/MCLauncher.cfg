CONSTANTS
    NoThread = none
    MaxClicks = 2
    MaxUpsets = 1
    MaxEvents = 2
    StopOnExit = TRUE
SPECIFICATION FairSpec
INVARIANT WindowBacked
PROPERTIES WaitingEnds StatusSettles
CHECK_DEADLOCK FALSE
