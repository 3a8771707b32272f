SPECIFICATION Spec
CONSTANTS
    Pairs = {p1, p2}
    AesKeys = {k1}
    None = None
    Torn = Torn
    Short = Short
    MaxFailures = 1
    VersionLength = 2
    BlockSize = 2
    Bytes <- MCBytes
    Builds <- MCBuilds
    MaxReleases = 2
SYMMETRY Symmetry
ACTION_CONSTRAINT KeysMatter
INVARIANTS
    TypeOK
    SelfVerifies
    OnlyReleases
    AcceptsWhole
    WholePackets
CHECK_DEADLOCK FALSE
