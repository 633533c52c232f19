SPECIFICATION CoordinationSpec
CONSTANTS
    Device = {1, 2, 3}
    EpochMax = 3
    Node = {1, 2, 3}
    Ttl = 2
    MaxTerm = 2
    MaxClaims = 4
    None = None
INVARIANTS
    OwnersAreGenuine
    LeadershipIsGenuine
    PartitionHeals
PROPERTY
    YieldSparesLiveLeader
