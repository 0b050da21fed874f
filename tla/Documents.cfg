CONSTANTS
    Flags <- MCFlags
    Name <- MCName
    Ref <- MCRef
    MaxText = 10
    built = built
    copy = copy
    Doc = {built, copy}
    x = x
    y = y
    Label = {x, y}
    Node = {1, 2, 3, 4}
    Attr = {11, 12}
    Null = Null
    MaxNodes = 4
    MaxAttrs = 2
    Bits <- MCBits
    Double = {5}
    Numeral <- MCNumeral
    Quoted <- MCQuoted
    MaxTokens = 6
    BufSize = 4
    Compact = FALSE
    CrLf = TRUE
    MaxValues = 3
    Strings <- MCStrings
    Names <- MCNames
    Numbers <- MCNumbers
SPECIFICATION MCSpec
VIEW View
INVARIANTS
    CrashesAreKnown
    ListsAreSequences
    NumbersFitTheirTypes
    TextsAreRead
    PrintIsWhole
PROPERTIES
    NodesAreNested
    ParseEnds
    
    PromiseKept
CHECK_DEADLOCK FALSE
