SPECIFICATION Spec
CONSTANTS
    Host = {h1, h2}
    DisableProxy = TRUE
    Quick = FALSE
INVARIANT RoutesPresent
