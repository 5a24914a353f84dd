SPECIFICATION FairSpec
CONSTANTS
    Host = 1
    Client = 2
    MaxGeneration = 1
    MaxBreaks = 1
    MaxWire = 2
    OfferAtStart = {TRUE, FALSE}
    AckWriteMayFail = TRUE
INVARIANTS
    SettledAgree
PROPERTIES
    PendingUntilDecided
    WinnerOnlyGrows
    EventuallyOneEmitter
CHECK_DEADLOCK FALSE
