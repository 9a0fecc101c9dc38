SPECIFICATION Spec
CONSTANTS
    c1 = c1
    c2 = c2
    s1 = s1
    Conn = {c1, c2}
    Conv = {k1, k2}
    Shell = {s1}
    ShellOf <- OneShell
    Edits = {FALSE}
    Keeps = {TRUE}
    Slow = {}
    Outcomes = {"stop"}
    Dialog = {}
    MaxTurns = 2
    MaxSeq = 0
    MaxUses <- OneUse
    MaxStops = 0
    Retained = 1
    NoConn = NoConn
SYMMETRY Interchangeable
INVARIANTS
    BusyIsExact
    StatusIsTrue
CHECK_DEADLOCK FALSE
