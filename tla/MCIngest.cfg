SPECIFICATION FairSpec
CONSTANTS
    Sessions = {sA}
    None = None
    LastEvent = 2
    Statuses = {1}
    Refused = {1}
    MaxBuffer = 1
    MaxLimited = 1
    MaxStops = 1
    MaxFailures = 1
INVARIANTS
    TypeOK
PROPERTIES
    
    BufferDrains
    SessionLearned
CHECK_DEADLOCK FALSE
