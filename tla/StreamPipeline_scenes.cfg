SPECIFICATION Spec
CONSTANTS
    Nodes = {0, 1}
    Slots <- MCSlots
    Threads <- MCThreads
    Scenes <- MCScenes
    PageSize = 3
    PageData = 2
    Mr2Initial = 4
    Garbage = 0
    MaxStageWidth = 2
    SubSlotBase = 12
    SubSlotHalf = 6
    ScaleTarget = 1
    EmaUnit = 16
INVARIANTS
    TypeOK
    StageWindows
    SendsUndisturbed
    ExactOnSuccess
PROPERTIES
    ImplementsRoundSink
    EveryNodeEnds
CHECK_DEADLOCK FALSE
