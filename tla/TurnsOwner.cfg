SPECIFICATION Spec
CONSTANTS
    c1 = c1
    c2 = c2
    s1 = s1
    Conn = {c1, c2}
    Conv = {k1}
    Shell = {s1}
    ShellOf <- OneShell
    Edits = {TRUE, FALSE}
    Keeps = {TRUE, FALSE}
    Slow = {c2}
    Outcomes = {"stop", "aborted"}
    Dialog = {d1}
    MaxTurns = 1
    MaxSeq = 1
    MaxUses <- OneUse
    MaxStops = 1
    Retained = 1
    NoConn = NoConn
INVARIANTS
    FollowerIsUpToDate
    
    UnattendedTurnIsCaredFor
    DrainedBeforeUnlock
PROPERTIES
    NoTheft
CHECK_DEADLOCK FALSE
