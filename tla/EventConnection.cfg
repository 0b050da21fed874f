CONSTANTS
    Name <- MCName
    Value <- MCValue
    EventName = "event"
    Class = "class"
    RaiseTime = "raise_time"
    Times <- MCTimes
    Event <- AllEvents
    BufferSize = 5
    MaxEvents = 2
SPECIFICATION MCSpec
INVARIANTS
    EventsAreWhole
PROPERTIES
    EventsAreTaken
CHECK_DEADLOCK FALSE
