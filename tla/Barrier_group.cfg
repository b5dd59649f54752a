CONSTANTS
    p1 = p1
    p2 = p2
    p3 = p3
    Parties = {p1, p2, p3}
    NBarriers = 2
    Assigned = {0, 1}
    PartyCount = 3
    MaxRuns = 2
SPECIFICATION FairSpec
CHECK_DEADLOCK FALSE
INVARIANTS
    NobodyPassesEarly
PROPERTIES
    ImplementsBarrier
    EveryRunEnds
