SPECIFICATION FairSpec
CONSTANTS
    Byte = {"e", "x"}
    Erased = "e"
    SlotSize = 8
    PageSize = 4
    ChunkSize = 2
    MaxFirmwareSize = 8
    Images <- MCImages
    VectorCells = {"x"}
    Packages <- MCPackages
    NoHeader = NoHeader
    NoImage = NoImage
    BootResumes = {"COPY_PENDING", "COPY_IN_PROGRESS"}
    MetaWriteFails = FALSE
    MaxCrashes = 2
    MaxFaults = 1
INVARIANTS TypeOK OnlySignedRuns CompleteIsSafeToBoot AlwaysRecoverable UpdateInv
PROPERTIES CompleteOnlyAfterFullCopy UpdateFinishes AtomicUpdateSpec
