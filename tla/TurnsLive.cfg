SPECIFICATION FairSpec
CONSTANTS
    c1 = c1
    c2 = c2
    s1 = s1
    Conn = {c1, c2}
    Conv = {k1}
    Shell = {s1}
    ShellOf <- OneShell
    Edits = {FALSE}
    Keeps = {FALSE}
    Slow = {c1}
    Outcomes = {"stop"}
    Dialog = {}
    MaxTurns = 1
    MaxSeq = 0
    MaxUses <- OneUse
    MaxStops = 1
    Retained = 1
    NoConn = NoConn
CHECK_DEADLOCK FALSE
PROPERTIES
    AbortEndsTurn
    StopCompletes
