SPECIFICATION Spec
CONSTANTS
    Peer <- MCPeer
    HostIfaces <- MCHostIfaces
    Client = {c1, c2}
    Settings = {"default", "changed"}
    Bounds <- Wire
SYMMETRY ClientSymmetry
INVARIANT
    DrainedBeforeDropped
CHECK_DEADLOCK FALSE
