SPECIFICATION FairSpec
CONSTANTS
    Conv = {k1}
    Place = {home, work}
    Persona = {nobody}
    NoPersona = nobody
    Keep = keep
    Max = 2
    PreWarm = TRUE
    LivePersonas = TRUE
    MaxSpawns = 4
    MaxOps = 3
    MaxAsks = 1
    MaxTemps = 1
INVARIANTS
    TurnGetsWhatItAsked
PROPERTIES
    EveryAcquireIsAnswered
CHECK_DEADLOCK FALSE
