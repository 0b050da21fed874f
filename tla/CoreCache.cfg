CONSTANTS
    q1 = q1
    q2 = q2
    q3 = q3
    small = small
    large = large
    grown = grown
    huge = huge
    endless = endless
    Request <- MCRequest
    Response <- MCResponse
    Continued <- MCContinued
    RequestSize <- MCRequestSize
    ParsedSize <- MCParsedSize
    CopiedSize <- MCCopiedSize
    EntrySize = 1
    SizeRange = 32
    MaxSize = 6
    Ttl = 1
    TimeMax = 100
    Addr = {a1, a2, a3, a4}
    NoRequest = NoRequest
    NoAnswer = NoAnswer
    Horizon = 4
    MaxDrift = 6
SPECIFICATION MCSpec
SYMMETRY Symmetry
INVARIANTS
    KeysUnique
    NextExpirationIsBound
    
PROPERTIES
    EvictionIsLru
    PromiseKept
