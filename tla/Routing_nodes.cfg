SPECIFICATION Spec
CONSTANTS
    Nodes <- AllNodes
    Downstream <- TwoDown
    Threshold = 2
    Null = Null
INVARIANTS
    Delivered
    PagesKept
    CallsDisjoint
