SPECIFICATION RunSpec
CONSTANT MaxEvents = 2
INVARIANTS
    RunLeavesCleanly
    
PROPERTIES
    AbortReachesTheTurn
    RunEnds
CHECK_DEADLOCK FALSE
