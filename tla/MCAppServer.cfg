CONSTANTS
    Providers = {o1, o2}
    First = o1
    None = none
    Capacity = 1
    MaxSlots = 3
    MaxTurns = 2
    MaxFaults = 1
SPECIFICATION FairSpec
INVARIANT TrueOutcome
 
CHECK_DEADLOCK FALSE
