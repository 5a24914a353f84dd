SPECIFICATION Spec
CONSTANTS
    Dirs <- TwoDirs
    Capacity = 1
    MaxTakes = 2
    MaxFrames = 2
    MaxFaults = 2
    MaxExits = 1
INVARIANTS
    UnsavedIsFinal
    StopDrains
PROPERTIES
    TakesKept
    RecordingSettles
CHECK_DEADLOCK FALSE
