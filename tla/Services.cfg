SPECIFICATION Spec
CONSTANTS
    Ids = {t1, t2}
    Nested = {t2}
    Throttle = 1
    MaxTime = 1
    MaxRecords = 4
    MaxValues = 3
    MaxReads = 4
    Shells = {s1, s2}
    Roots = {r1, r2}
    MaxConversations = 2
    MaxOperations = 2
    MaxCrashes = 1
    Conversations = {c1, c2}
    MaxRuns = 3
    RingSizes = {1, 3}
    MaxPushed = 5
    Limits = {0, 1, 2}
    MaxCommands = 3
INVARIANTS
    EventsTellTheTurn
    
    
    

    
CHECK_DEADLOCK FALSE
