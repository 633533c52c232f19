SPECIFICATION Spec
CONSTANTS
    Node <- MCNode
    Roles <- MCRoles
    Headless = {}
    MaxEvents = 1
INVARIANT
    UntrustedSessionEnds
CHECK_DEADLOCK FALSE
