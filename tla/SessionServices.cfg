SPECIFICATION ServicesSpec
CONSTANTS
    Device = {1, 2}
    EpochMax = 20
    SourceId = 1
    TargetId = 2
    Key = {}
    HeartbeatMissLimit = 1
    OwnershipAckTicks = 0
    InputRateBurst = 1
    InputRateRefill = 1
    Width = 4
    PeerWidth = 2
    EdgeRearmMargin = 0
    EscapeMinTravel = 2
    Moves <- MCThereAndBack
    Platforms = {"ok", "cannot", "error", "no_warp"}
    MaxCross = 1
    MaxSeq = 1
    nodeA = nodeA
    nodeB = nodeB
    Node = {nodeA, nodeB}
    OsPairs <- MCOsPairs
    UserClips <- MCUserClips
    SettingsChoices <- MCSettings
    ControlTextCap = 2
    MaxDataChunk = 2
    MaxPendingPulls = 2
    MaxAppliedClips = 2
    PullStallTicks = 2
    MaxEvents = 3
INVARIANTS
    WireIsCoherent
    FailsClosed
    NoBounce
    PullsAreSound
    NewestCopyArrives
