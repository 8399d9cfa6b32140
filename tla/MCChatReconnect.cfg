SPECIFICATION ChatFairSpec
CONSTANTS
    Session = {s1, s2}
    NoSession = NoSession
    HistoryMax = 2
    QueueMax = 2
    Watched = FALSE
    MaxRecorded = 3
    MaxUnread = 1
PROPERTY EndedIsLeft
CHECK_DEADLOCK FALSE
