SPECIFICATION FairSpec
CONSTANTS
    t0 = t0
    t1 = t1
    t2 = t2
    Thread <- ThreeThreads
    FirstOwner = t0
    MaxGeneration = 3
INVARIANTS
    NoZombie
    ChallengeHeld
    UniqueGenerations
    OneOwner
PROPERTIES
    OrphanSettles
    ImplementsOwnership
CHECK_DEADLOCK FALSE
