SPECIFICATION Spec
CONSTANTS
    Interval = 2
    JoinTimeout = 3
    RecvTimeout = 3
    Server <- MCServer
    Addresses <- MCAddresses
    ForeignMessages <- MCForeignMessages
    NotFound = NotFound
    MaxStarts = 3
    MaxErrors = 1
    MaxLost = 1
    MaxForeign = 2
INVARIANTS
    TypeOK
    OneBroadcaster
    ActiveBroadcasts
PROPERTIES
    FailsForReason
    WaitReturns
