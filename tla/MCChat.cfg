SPECIFICATION ChatFairSpec
CONSTANTS
    Session = {s1, s2}
    NoSession = NoSession
    HistoryMax = 2
    QueueMax = 2
    Watched = TRUE
    MaxRecorded = 3
    MaxUnread = 1
CONSTRAINT AudienceBound
INVARIANTS
    ChatTypeOK
    PageKeepsUp
PROPERTY EndIsSeen
CHECK_DEADLOCK FALSE
