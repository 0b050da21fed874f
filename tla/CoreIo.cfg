CONSTANTS
    RequestBytes = 2
    ReplyBytes = 4
    BufferSize = 2
    SocketRooms = {1, 2}
    Intblock = 1
    Timeout = 3
    Granularity = 1
    Never = Never
    MaxLate = 3
    MaxSignals = 1
    Horizon = 10
    Items <- MCItems
SPECIFICATION FairSpec
INVARIANTS
    StreamIntact
    LimitsAreKept
PROPERTIES
    ExchangeEnds
CHECK_DEADLOCK FALSE
