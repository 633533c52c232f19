SPECIFICATION Spec
CONSTANTS
    Peer <- MCPeer
    HostIfaces <- MCHostIfaces
    Client = {c1, c2}
    Settings = {"default", "changed"}
    Bounds <- MCBounds
SYMMETRY ClientSymmetry
INVARIANTS
    SeenCommandsAreRead
    PublishedIsCurrent
    TrustIsApproved
    RegistryTracksNetwork
CHECK_DEADLOCK FALSE
