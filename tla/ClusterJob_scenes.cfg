CONSTANT Jobs <- MCJobs
SPECIFICATION Spec
INVARIANTS TypeOK PlansFit ExactResult LinesLoadedOnce PiecesExact
PROPERTIES PlacementWithinLimits 
CHECK_DEADLOCK FALSE
