SPECIFICATION Spec
CONSTANTS
    Host = 1
    Client = 2
    MaxGeneration = 1
    MaxBreaks = 1
    MaxWire = 2
    OfferAtStart = {FALSE}
    AckWriteMayFail = TRUE
INVARIANTS
    OneEmitter
CHECK_DEADLOCK FALSE
