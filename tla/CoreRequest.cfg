CONSTANTS
    r1 = r1
    e1 = e1
    e2 = e2
    Request <- MCRequest
    Response <- MCResponse
    Continued <- MCContinued
    RequestSize <- MCRequestSize
    ParsedSize <- MCResponseSize
    CopiedSize <- MCResponseSize
    Replies <- MCReplies
    Message <- MCMessage
    Fatal <- MCFatal
    Read <- MCRead
    EntrySize = 1
    SizeRange = 16
    MaxSize = 4
    Ttl = 0
    TimeMax = 100
    Addr = {a1, a2}
    NoRequest = NoRequest
    NoAnswer = NoAnswer
    NoMessage = NoMessage
    Horizon = 1
    MaxId = 3
    MaxStale = 1
    MaxHeld = 1
SPECIFICATION MCSpec
SYMMETRY Symmetry
INVARIANTS
    
    LastMessageIsCurrent
    ResponsesAreOwned
    OutcomeIsOfAnswer
