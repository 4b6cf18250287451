CONSTANTS
    MaxUtterances = 3
    MaxTime = 2
    MaxRevisions = 1
    MaxRuns = 2
    Sizes = {1}
    Actions <- MCActions
    FreePrompt <- MCFreePrompt
    MaxQueued = 2
SPECIFICATION ContextSpec
PROPERTIES  NothingPassedOver
CHECK_DEADLOCK FALSE
