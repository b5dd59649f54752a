SPECIFICATION Spec
CONSTANTS
    g1 = g1
    g2 = g2
    b1 = b1
    f1 = f1
    host = host
    NPages = 3
    NShards = 1
    Guests = {g1, g2}
    Background = {}
    WaveFreers = {f1}
    Host = host
INVARIANT SingleOwner
\* a run that is out of pages stops
CHECK_DEADLOCK FALSE
