SPECIFICATION Spec
CONSTANTS
    Node <- MCNode
    Roles <- MCRoles
    Headless = {}
    MaxEvents = 2
INVARIANTS
    IntentControls
    NothingLeaks
    CompleteResetEnds
PROPERTY
    Settles
CHECK_DEADLOCK FALSE
