SPECIFICATION Spec
CONSTANTS
    Device = {1, 2}
    EpochMax = 20
    SourceId = 1
    TargetId = 2
    Key = {}
    HeartbeatMissLimit = 1
    OwnershipAckTicks = 0
    InputRateBurst = 1
    InputRateRefill = 1
    Width = 4
    PeerWidth = 2
    EdgeRearmMargin = 1
    EscapeMinTravel = 2
    Moves <- MCMoves
    Events <- MCNone
    FailKinds = {"Move", "Key"}
    MaxCross = 3
    MaxCtr = 0
    MaxSeq = 1
    MaxDgrams = 2
    Platforms = {TRUE}
    PeerMessages <- MCPeerMessages
INVARIANTS
    NoTwoDrivers
    HandoffIsCoherent
    FreshInjections
