SPECIFICATION Spec
CONSTANTS
    Sessions = {sA, sB}
    Sources = {x1, x2}
    UtteranceIds = {u1}
    Tabs = {t1, t2}
    CaptionsShown = {"capturing"}
    EventIds = {e1, e2}
    None = None
    MaxRevision = 2
    MaxStops = 2
    MaxCleanups = 2
    MaxCrashes = 0
SYMMETRY Symmetry
INVARIANTS
    OneRecording
    SegmentTracksRecording
    BindingCoherent
PROPERTIES
    QuietWhenStopped
    NoSourceSwitch
CHECK_DEADLOCK FALSE
