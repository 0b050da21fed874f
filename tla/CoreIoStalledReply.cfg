CONSTANTS
    RequestBytes = 2
    ReplyBytes = 4
    BufferSize = 2
    SocketRooms = {2}
    Intblock = 1
    Timeout = 3
    Granularity = 1
    Never = Never
    MaxLate = 0
    MaxSignals = 0
    Horizon = 10
    Items <- MCItems
SPECIFICATION Spec
INVARIANTS
    TimeoutHonoured
CHECK_DEADLOCK FALSE
