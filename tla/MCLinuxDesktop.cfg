SPECIFICATION FairSpec
CONSTANTS
    Host = {h1, h2}
    Pid = {p1, p2}
    NoPid = NoPid
    TornPid = TornPid
    AsRoot = FALSE
    KillPoints <- Anywhere
CONSTRAINT ServersBound
INVARIANTS
    DesktopTypeOK
    OneRuntime
    NoLoop
    DownCleans
PROPERTY StatusConverges
