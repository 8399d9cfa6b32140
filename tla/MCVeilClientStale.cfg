SPECIFICATION Spec
CONSTANTS
    Sid = {s1}
    NoSid = NoSid
    Reads = FALSE
    MaxConnects = 1
    MaxAhead = 2
INVARIANTS ActiveSessionHasNotEnded
CHECK_DEADLOCK FALSE
