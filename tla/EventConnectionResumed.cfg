CONSTANTS
    Name <- MCName
    Value <- MCValue
    EventName = "event"
    Class = "class"
    RaiseTime = "raise_time"
    Times <- MCTimes
    Event <- DeepEvents
    BufferSize = 3
    MaxEvents = 1
SPECIFICATION MCSpec
INVARIANTS
    ReadsFromNode
CHECK_DEADLOCK FALSE
