SPECIFICATION Spec
CONSTANTS
    a = a
    b = b
    None = None
    Coord = 0
    Workers = {1, 2}
    Jobs = {a, b}
    MaxInc = 2
    Shards = 3
    Window = 2
    Scenes <- MCScenes
INVARIANTS
    TypeOK
    
    OneReaderPerSocket
    
PROPERTIES
    
    EverySubmissionEnds
CHECK_DEADLOCK FALSE
