CONSTANTS
    Patches = {p1, p2}
    Bodies <- MCBodies
    Nobody = nobody
    MaxRequests = 2
    MaxFaults = 2
    MaxDamages = 1
SPECIFICATION FairSpec
INVARIANTS ProvidersMatch
PROPERTIES Registers NoKeyReverts RequestsEnd
CHECK_DEADLOCK FALSE
