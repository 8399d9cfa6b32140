SPECIFICATION FairSpec
CONSTANTS
    Sid = {s1}
    NoSid = NoSid
    Reads = TRUE
    MaxConnects = 2
    MaxAhead = 2
INVARIANTS ClientTypeOK WaitingIsReachable
PROPERTIES StopReleasesConnect EventsNoticeStop
CHECK_DEADLOCK FALSE
