CONSTANTS
    Dags <- AllDags
    Slots <- AllSlots
    BarrierCount = 2
    NoGroup = "none"
SPECIFICATION Spec
INVARIANTS
    TypeOK
    PlanRight
    ReadsItsProducers
    FreedOnce
    NothingLost
    RunsApart
PROPERTIES
    Returns
CHECK_DEADLOCK FALSE
