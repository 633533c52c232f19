SPECIFICATION FairSpec
CONSTANTS
    Device = {1, 2}
    EpochMax = 20
    SourceId = 1
    TargetId = 2
    Key = {}
    HeartbeatMissLimit = 2
    OwnershipAckTicks = 1
    InputRateBurst = 1
    InputRateRefill = 1
    Width = 4
    PeerWidth = 2
    EdgeRearmMargin = 1
    EscapeMinTravel = 2
    Moves <- MCThereAndBack
    Events <- MCNone
    FailKinds = {"Move"}
    MaxCross = 2
    MaxCtr = 0
    MaxSeq = 1
    MaxDgrams = 1
    Platforms = {TRUE, FALSE}
    PeerMessages <- MCNone
PROPERTIES
    InputComesBack
