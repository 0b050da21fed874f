CONSTANTS
    Block = 2
    Map = {m1, m2}
    lower = lower
    upper = upper
    other = other
    Key = {lower, upper, other}
    short = short
    long = long
    Value = {short, long}
    MaxItems = 4
    Folded <- MCFolded
    Size <- MCSize
    Addr <- MCAddr
    Modulus = 16
    Ptr = 2
    StaticSize = 5
    DynamicSize = 7
    Request = {0, 1, 3, 5, 14}
    MaxGiven = 3
    Vec = {v1, v2}
    Text = {1, 2}
    Duplicate = {1, 2, 3, 4}
    Acc = {a1, a2}
    Printed <- MCPrinted
    MaxPrinted = 5
    Tag = {1, 2, 3}
    TagValue <- MCTagValue
    Magic = Magic
    Other = Other
    ImgLenMax = 14
    IntMax = 16
    Lower <- MCLower
    Pairs <- MCPairs
    Spelling <- MCSpelling
    HostOrder = "le"
    Byte <- MCByte
    MaxText = 4
    Room = {1, 4}
    Prec = 20
    Scale = {1, 4, 20}
    MaxSec = 3
    Amount = {0, 1, 3, 4, 7, 25}
SPECIFICATION MCSpec
VIEW View
INVARIANT CodesAreLegal
CHECK_DEADLOCK FALSE
