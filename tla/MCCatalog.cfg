CONSTANTS
    Buttons <- MCButtons
    Presets = {default, p, q}
    Default = default
    Sessions = {s}
    Names <- MCNames
    DefaultName = "default"
    lower <- MCLower
    Lists <- MCLists
    Factory <- MCFactory
    Null = Null
    MaxPresets = 2
    MaxActions = 2
    MaxPerPreset = 2
    MaxOpen = 2
    MaxRequests = 6
SPECIFICATION Spec
INVARIANTS SessionsServed TakenWhole
PROPERTIES PresetLocked
CHECK_DEADLOCK FALSE
