SPECIFICATION Spec
CONSTANTS
    Version = {v1}
    Hash = {h1}
    NoHash = NoHash
    NoVersion = NoVersion
    MaxHistory = 2
    MaxCrashes = 0
INVARIANTS NewestFirst
