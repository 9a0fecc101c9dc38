SPECIFICATION Spec
CONSTANTS
    Conv = {k1, k2}
    Place = {home}
    Persona = {nobody, plan}
    NoPersona = nobody
    Keep = keep
    Max = 1
    PreWarm = TRUE
    LivePersonas = TRUE
    MaxSpawns = 4
    MaxOps = 4
    MaxAsks = 0
    MaxTemps = 0
SYMMETRY ConvSymmetry
INVARIANTS
    Capacity
    NoOrphans
    
CHECK_DEADLOCK FALSE
