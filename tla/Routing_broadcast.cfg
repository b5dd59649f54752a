SPECIFICATION Spec
CONSTANTS
    Nodes <- WideBroadcast
    Downstream <- TwoDown
    Threshold = 2
    Null = Null
INVARIANT Delivered
