CONSTANTS
    Dags <- InternalsLeft
    Slots <- AllSlots
    BarrierCount = 2
    NoGroup = "none"
SPECIFICATION Spec
INVARIANT IntermediatesFreed
CHECK_DEADLOCK FALSE
