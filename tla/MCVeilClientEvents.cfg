SPECIFICATION Spec
CONSTANTS
    Sid = {s1}
    NoSid = NoSid
    Reads = TRUE
    MaxConnects = 1
    MaxAhead = 2
PROPERTIES EventsReportEnd
CHECK_DEADLOCK FALSE
