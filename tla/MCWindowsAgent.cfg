SPECIFICATION FairSpec
CONSTANTS
    Host = {h1, h2}
    DisableProxy = TRUE
    Quick = FALSE
INVARIANTS
    AgentTypeOK
    IdleIsClean
    StatusHonest
PROPERTIES
    DownIsObeyed
    UpHasOutcome
