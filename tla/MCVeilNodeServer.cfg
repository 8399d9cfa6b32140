SPECIFICATION Spec
CONSTANTS
    Sid = {s1, s2}
    Endpoint = {e1, e2}
    ClientId = {c1}
    NoSid = NoSid
    NoEndpoint = NoEndpoint
    NoClient = NoClient
    IsClient = FALSE
    IdleTimeout = TRUE
    HttpPrelude = TRUE
    Packets <- PreludePackets
    MaxPackets = 3
    MaxConnects = 0
SYMMETRY TableSymmetry
INVARIANTS TypeOK IndicesMatch NoDataAfterEnd CallbacksOnce AnnouncedInDataPhase
