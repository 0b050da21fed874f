CONSTANTS
    Caller = {c1, c2}
    Closes = TRUE
    Char = {" ", "'", "dq", "bs", "n", "z"}
    Space = {" ", "lf"}
    Quote = {"'", "dq"}
    Backslash = "bs"
    Escaped <- MCEscaped
    MaxLength = 5
    EnvChar = {"=", "lf", "x"}
    Separator = "lf"
    Equals = "="
    MaxText = 4
    Args <- MCArgs
    DefaultTimeout = 2
    IntBlock = 1
    None = None
    NoValue = NoValue
    Response <- MCResponse
    PathChar = {"a", "b", "/", "@"}
    MaxPath = 5
    Number <- MCNumber
    Truth <- MCTruth
    Own <- MCOwn
    Given <- MCGiven
    MaxDirs = 3
    Ptr = 4
    Core = {a1, a2}
    Events = {v1}
    Fd = {3, 4, 5}
    Program = Program
    Nobody = Nobody
SPECIFICATION MCSpec
INVARIANTS
    
    ArgumentsAreRead
    FeedbackIsTold
    AnswerIsOfPath
    
PROPERTIES
    
    DescriptorsAreOwned
CHECK_DEADLOCK FALSE
