SPECIFICATION Spec
CONSTANTS
    Effects = {e1, e2}
    Workers = {w1}
    Src = Src
    Dst = Dst
    QueueCapacity = 1
    MaxFaults = 2
    MaxOutside = 1
INVARIANTS
    CancelledNeverActive
    RouteKept
PROPERTIES
    TicketsAnswered
CHECK_DEADLOCK FALSE
