SPECIFICATION PathSpec
CONSTANTS
    wifi = wifi
    lan = lan
    tether = tether
    t1 = t1
    t2 = t2
    None = None
    Address <- Links
    Window = 3
    MaxCounter = 5
    HostAddress <- HostLinks
    Wild = Wild
    NoLink = NoLink
    MaxResumes = 2
    Conn = {1, 2, 3, 4}
    Opener <- Threads2
    Supervisor = t1
    MaxFailures = 2
    MaxMishaps = 3
INVARIANTS
    OpenedOnce
    FreshAllowed
    AudioReachable
PROPERTIES
    StreamReturns
CHECK_DEADLOCK FALSE
