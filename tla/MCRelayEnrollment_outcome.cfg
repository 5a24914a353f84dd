SPECIFICATION FairSpec
CONSTANTS
    s1 = s1
    s2 = s2
    p1 = p1
    p2 = p2
    None = None
    Session <- TwoSessions
    Peer <- TwoPeers
    Pairings <- AnyPairing
    MaxTrusted = 1
    MaxPending = 2
    MaxCrashes = 1
    MaxMishaps = 1
    MayForget = TRUE
INVARIANTS
    RefusalIsFinal
    AcknowledgedIsDurable
PROPERTIES
    TransactionSettles
CHECK_DEADLOCK FALSE
