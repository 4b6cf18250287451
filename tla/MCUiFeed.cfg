CONSTANTS
    Selectable = {s1}
    None = none
    Batch = 1
    MaxUiEvents = 1
    MaxEvents = 2
    MaxSelects = 1
    MaxFaults = 2
SPECIFICATION FairSpec
INVARIANTS NothingElseMissed
PROPERTIES  EventsArrive
CHECK_DEADLOCK FALSE
