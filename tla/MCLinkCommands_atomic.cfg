SPECIFICATION Spec
CONSTANTS
    o1 = o1
    o2 = o2
    i1 = i1
    i2 = i2
    Pairs <- MCPairs
    Observed <- MCObserved
    Graphs <- MCGraphs
    Groups <- MCGroups
    Patchbays <- MCPatchbays
    MaxJobs = 3
    MaxFaults = 2
    MaxOutside = 1
    None = None
INVARIANTS
    StacksDescribeGraph
    SweepSparesOurLinks
PROPERTIES
    FailureLeavesNoTrace
CHECK_DEADLOCK FALSE
