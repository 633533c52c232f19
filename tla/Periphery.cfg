SPECIFICATION Spec
CONSTANTS
    Caller = {c1, c2}
    MaxCalls = 3
    MaxFaults = 1
    MaxInput = 4
    MaxCaptureQueue = 3
    Arrangement <- MCArrangement
    Request <- MCRequest
    Task = {t1, t2}
    MaxCursorOps = 4
    Paths <- MCPaths
    Replica = {1, 2}
    Device = {1}
    Actor = {1, 2, 3}
    MonitorCounts = {1}
    Prefs <- MCPrefs
    Infos <- MCInfos
    Aliases = {"a", "b"}
    MaxChanges = 3
    MaxBatch = 2
    SnapshotCap = 2
INVARIANTS
    ModeIsReal
    CaptureIsFaithful
    
    PointerLandsWhereSent
    CursorComesHome
    NewestIsRead
    DeliveredIsApplied
CHECK_DEADLOCK FALSE
