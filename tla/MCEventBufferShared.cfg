SPECIFICATION Spec
CONSTANTS
    e1 = e1
    e2 = e2
    e3 = e3
    e4 = e4
    Event = {e1, e2, e3}
    Receiver = {r1, r2}
    Filter <- ThreeEvents
    Timeouts = TRUE
INVARIANTS NothingLost
CHECK_DEADLOCK FALSE
