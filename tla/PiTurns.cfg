SPECIFICATION Spec
CONSTANTS
    MaxTurn = 2
    MaxText = 1
INVARIANTS
    
    
    NothingIsLeftOver
PROPERTIES
    AbortedTurnEnds
CHECK_DEADLOCK FALSE
