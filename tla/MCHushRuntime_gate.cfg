SPECIFICATION HushSpec
CONSTANTS
    Quanta = {2}
    Capacity = 2
    Schedule = 3
    BacklogLimit = 4
    Lead = 2
    MaxAttempts = 1
    Far = 6
INVARIANTS
    WetAligned
PROPERTIES
    GateReopens
    RetryReopens
CHECK_DEADLOCK FALSE
