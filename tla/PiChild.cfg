SPECIFICATION Spec
CONSTANTS
    Calls = {hello, c1}
    Hello = hello
    Dialogs = {d1, d2}
    MaxRecords = 2
INVARIANTS
    
    EndLosesNothing
PROPERTIES
    NothingHangs
CHECK_DEADLOCK FALSE
