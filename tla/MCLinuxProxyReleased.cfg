SPECIFICATION FairSpec
CONSTANTS
    c1 = c1
    c2 = c2
    Client = {c1, c2}
    Static <- MCStatic
    Session = {s1, s2, s3}
    NoSession = NoSession
    Size = 5
    ServerIp = 1
    BaseDelay = 2
    MaxDelay = 2
PROPERTY ClosedIsReleased
CHECK_DEADLOCK FALSE
