SPECIFICATION LifeSpec
CONSTANTS
    LinkScene <- MCLinkScene
    WriteQueueCap = 2
    NetTask <- MCNetTask
    MaxUpdates = 2
INVARIANTS
    ControlIsFramed
    HandshakeIsMutual
    NewestMotionLeaves
    BulkIsBound
PROPERTY
    DeathIsSeen
CHECK_DEADLOCK FALSE
