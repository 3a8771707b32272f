SPECIFICATION FairSpec
CONSTANTS
    FirmwareLen = 5
    CfgPayload = 3
    EcuPayloads = {0, 2}
    SfPayload = 1
    MaxBsn = 2
    MaxPending = 1
    CanTimeout = 1
    VersionFrames = 1
    EcuPending = 2
    MaxCalls = 5
    MaxFaults = 2
    MaxForeign = 1
    MaxElapsed = 0
INVARIANTS TypeOK OkMeansInstalled VersionCurrent NothingMisplaced FailuresBounded
PROPERTIES CallsReturn
CHECK_DEADLOCK FALSE
