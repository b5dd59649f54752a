SPECIFICATION FairSpec
CONSTANTS
    g1 = g1
    g2 = g2
    b1 = b1
    f1 = f1
    host = host
    NPages = 4
    NShards = 2
    Guests = {g1, g2}
    Background = {}
    WaveFreers = {}
    Host = host
INVARIANTS
    SingleOwner
    NothingLost
PROPERTIES
    ImplementsOwnership
    AllocationEnds
\* a run that is out of pages stops
CHECK_DEADLOCK FALSE
