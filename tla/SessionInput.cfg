SPECIFICATION Spec
CONSTANTS
    Device = {1, 2}
    EpochMax = 20
    SourceId = 1
    TargetId = 2
    Key = {k}
    HeartbeatMissLimit = 1
    OwnershipAckTicks = 0
    InputRateBurst = 1
    InputRateRefill = 1
    Width = 4
    PeerWidth = 2
    EdgeRearmMargin = 0
    EscapeMinTravel = 2
    Moves <- MCThereAndBack
    Events <- MCTyping
    FailKinds = {}
    MaxCross = 3
    MaxCtr = 2
    MaxSeq = 1
    MaxDgrams = 0
    Platforms = {TRUE, FALSE}
    PeerMessages <- MCNone
INVARIANT
    KeysMirrored
PROPERTY
    NoCrossLoop
