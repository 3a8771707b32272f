SPECIFICATION FairSpec
CONSTANTS
    MaxConns = 2
    MaxStarts = 2
    MaxSends = 2
    MaxErrors = 1
    Chunks = 2
INVARIANTS TypeOK EveryChunkOnce NoGaps AcceptLoopAlive
PROPERTIES StopEndsTransfer GatewayServed
CHECK_DEADLOCK FALSE
