SPECIFICATION DeskSpec
CONSTANTS
    o1 = o1
    o2 = o2
    i1 = i1
    Pairs <- MCPairs
    Patchbays <- MCPatchbays
    Pasts <- MCPasts
    MaxAttempts = 2
    MaxFaults = 1
    MaxEdits = 2
    MaxOutside = 1
PROPERTIES
    DeletedStaysGone
    RulesConverge
CHECK_DEADLOCK FALSE
