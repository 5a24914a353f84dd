SPECIFICATION JitterSpec
CONSTANTS
    Unset = Unset
    Numbers = 32
    Depth = 2
    MinLookahead = 2
    MaxLookahead = 3
    DecayPops = 2
    MaxForward = 6
    MaxQueued = 8
    MaxReorder = 2
    MaxOutage = 1
INVARIANTS
    QueuePlayable
    NoFalseLoss
    NoStall
