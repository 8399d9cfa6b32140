SPECIFICATION FairSpec
CONSTANTS
    Sid = {s1}
    Endpoint = {e1}
    ClientId = {}
    NoSid = NoSid
    NoEndpoint = NoEndpoint
    NoClient = NoClient
    IsClient = TRUE
    IdleTimeout = TRUE
    HttpPrelude = FALSE
    Packets <- PlainPackets
    MaxPackets = 3
    MaxConnects = 2
INVARIANTS OneOutcomePerConnect NewBeforeData
PROPERTIES ConnectResolves RemovedIsReported StopReturns
