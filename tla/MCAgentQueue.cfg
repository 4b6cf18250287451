SPECIFICATION FairSpec
CONSTANTS
    Sessions = {sX, sC}
    ClaudeSessions = {sC}
    Runs = {r1, r2}
    None = None
    MaxQueued = 2
    MaxRequests = 2
    MaxStamps = 2
    MaxDeaths = 1
    MaxRestarts = 1
INVARIANTS
    InFlightAtWorker
    
    OneThreadPerSession
PROPERTIES
    RunsSettle
CHECK_DEADLOCK FALSE
