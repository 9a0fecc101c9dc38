SPECIFICATION EdgeSpec
CONSTANTS
    Budget = 6
    MaxRetry = 4
    MaxCalls = 3
    MaxTurns = 2
    MaxKeys = 3
    Blocks = {b1, b2}
    Tools = {u1, u2}
    MaxEvents = 5
    MaxEntries = 4
    MaxQuery = 2
    MaxRows = 6
    MaxRuns = 3
    MaxMessage = 4
    MaxEdits = 2
    MaxPublished = 3
    MaxDeaths = 1
INVARIANTS
    PeersKeepTheirWord
    TerminalTellsTheTruth
    
PROPERTIES
    NoStepOversteps
    
CHECK_DEADLOCK FALSE
