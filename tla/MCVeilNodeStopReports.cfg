SPECIFICATION Spec
CONSTANTS
    Sid = {s1}
    Endpoint = {e1}
    ClientId = {}
    NoSid = NoSid
    NoEndpoint = NoEndpoint
    NoClient = NoClient
    IsClient = FALSE
    IdleTimeout = FALSE
    HttpPrelude = FALSE
    Packets <- PlainPackets
    MaxPackets = 2
    MaxConnects = 0
INVARIANT StopReportsEverySession
