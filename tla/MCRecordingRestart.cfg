SPECIFICATION FairSpec
CONSTANTS
    Sessions = {sA, sB}
    Sources = {x1}
    UtteranceIds = {u1}
    Tabs = {None}
    CaptionsShown = {"captions_not_detected"}
    EventIds = {e1, e2}
    None = None
    MaxRevision = 2
    MaxStops = 2
    MaxCleanups = 1
    MaxCrashes = 1
PROPERTIES
    
    
    PartialsResolved
CHECK_DEADLOCK FALSE
