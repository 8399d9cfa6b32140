SPECIFICATION FairSpec
CONSTANTS
    e1 = e1
    e2 = e2
    e3 = e3
    e4 = e4
    Event = {e1, e2, e3, e4}
    Receiver = {r1}
    Filter <- TwoStreams
    Timeouts = TRUE
PROPERTIES ImplementsPending
CHECK_DEADLOCK FALSE
