SPECIFICATION FairSpec
CONSTANTS
    MaxIdle = 1
    MaxHellos = 2
    MaxInFlight = 2
    MaxQueued = 1
CONSTRAINT InFlightBound
INVARIANTS
    VpnTypeOK
    ClientHasServer
    ClosedEndsSession
PROPERTY EndReachesPeer
CHECK_DEADLOCK FALSE
