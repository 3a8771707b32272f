SPECIFICATION Spec
CONSTANTS
    Version = {v1, v2}
    Hash = {h1}
    NoHash = NoHash
    NoVersion = NoVersion
    MaxHistory = 2
    MaxCrashes = 2
INVARIANTS TypeOK VersionsUnique FileFollowsMemory HistoryComplete
