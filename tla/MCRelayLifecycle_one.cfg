SPECIFICATION FairSpec
CONSTANTS
    c1 = c1
    MaxSessions = 1
    MaxHandshakes = 2
    Hosted <- OneAttempt
    Dialled <- OneAttempt
    MaxStrangers = 2
INVARIANTS
    OneLossPerSession
    NoOrphanSession
PROPERTIES
    ConnectAnswered
    DisconnectEnds
    ThreadsObserveStop
CHECK_DEADLOCK FALSE
