SPECIFICATION Spec
CONSTANTS
    MaxConns = 2
    MaxStarts = 1
    MaxSends = 1
    MaxErrors = 0
    Chunks = 2
INVARIANTS WholePackage
CHECK_DEADLOCK FALSE
