SPECIFICATION FairSpec
CONSTANTS
    Byte = {"e", "x"}
    Erased = "e"
    SlotSize = 8
    PageSize = 4
    ChunkSize = 2
    MaxFirmwareSize = 8
    Images <- MCImages
    VectorCells = {"x"}
    Packages <- MCPackages
    NoHeader = NoHeader
    NoImage = NoImage
    BootResumes = {"COPY_PENDING"}
    MetaWriteFails = FALSE
    MaxCrashes = 1
    MaxFaults = 0
PROPERTIES UpdateFinishes
