SPECIFICATION Spec
CONSTANTS
    FirmwareLen = 1
    CfgPayload = 1
    EcuPayloads = {0}
    SfPayload = 1
    MaxBsn = 2
    MaxPending = 1
    CanTimeout = 2
    VersionFrames = 1
    EcuPending = 1
    MaxCalls = 1
    MaxFaults = 0
    MaxForeign = 3
    MaxElapsed = 6
INVARIANTS WaitBounded
CHECK_DEADLOCK FALSE
