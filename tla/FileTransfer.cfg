CONSTANTS
    Attempt = {t1, t2}
    Path <- MCPath
    Name <- MCName
    FileName <- MCFileName
    Flaws <- MCFlaws
    Plans <- MCPlans
    MaxLen = 2
    InitLen <- MCInitLen
    ChunkSize = 1
    Window = 1
    MaxFiles = 2
    MaxFileSize = 2
    MaxTotal = 3
    UpCap = 1
    DownCap = 4
    MaxEdits = 1
    MaxFaults = 1
SPECIFICATION Spec
INVARIANTS
    ChunksContinuePrefix
    NoSpuriousFailure
    NoMutualWait
PROPERTIES
    CommitIsFaithful
    ImplementsDelivery
SYMMETRY Symmetry
CHECK_DEADLOCK FALSE
