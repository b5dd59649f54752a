CONSTANTS
    g1 = g1
    g2 = g2
    h1 = h1
    h2 = h2
    r1 = r1
    host = host
    Guests = {g1, g2}
    Hosts = {h1, h2}
    Receivers = {r1}
    InWave = {r1}
    Initial = 2
    SoftLimit = 10
    HardLimit = 11
    Sizes = {1, 2, 3}
    Scenes <- GuestsOnly
    Host = host
CHECK_DEADLOCK FALSE
SPECIFICATION Spec
INVARIANTS
    PagesBacked
