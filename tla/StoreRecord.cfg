\* Two calls at a time on one record of two fields, every failure and a crash
\* between any two steps.
CONSTANTS
    f1 = f1
    f2 = f2
    v1 = v1
    v2 = v2
    Caller = {c1, c2}
    Field = {f1, f2}
    Value = {v1, v2}
    None = None
    Torn = Torn
    Ok = Ok
    Failed = Failed
    Nobody = Nobody
    Asked <- OneOfEach
SPECIFICATION RecordFairSpec
PROPERTIES
    Implements
    EveryCallReturns
CHECK_DEADLOCK FALSE
