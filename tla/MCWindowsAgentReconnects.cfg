SPECIFICATION FairSpec
CONSTANTS
    Host = {h1, h2}
    DisableProxy = TRUE
    Quick = FALSE
PROPERTY Reconnects
