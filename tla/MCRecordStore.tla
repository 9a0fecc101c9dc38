--------------------------- MODULE MCRecordStore ---------------------------
EXTENDS RecordStore

CONSTANTS f1, f2, v1, v2

\* A new record, and the patches of its two parts.
OneOfEach ==
    {[kind |-> "get"], [kind |-> "remove"], [kind |-> "save", to |-> [f \in Field |-> v1]]}
        \cup [kind : {"update"}, field : Field, to : {v2}]
=============================================================================
