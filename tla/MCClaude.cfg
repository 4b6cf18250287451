CONSTANTS
    MaxRuns = 2
    MaxCrashes = 1
SPECIFICATION FairSpec
INVARIANTS Reaped ConversationFits
PROPERTIES CancelStops TurnsEnd
CHECK_DEADLOCK FALSE
