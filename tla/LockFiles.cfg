\* Three processes, started one after the other or together, in a directory
\* that may hold what a dead daemon left.
CONSTANTS
    Proc = {p1, p2, p3}
    Gone = Gone
    NoFile = NoFile
    Starts = {"apart", "together"}
SPECIFICATION LockFairSpec
INVARIANTS
    LockExcludes
    DaemonIsFound
PROPERTIES
    CrashIsNoObstacle
CHECK_DEADLOCK FALSE
