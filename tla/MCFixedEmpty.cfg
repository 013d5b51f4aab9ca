SPECIFICATION FixedSpec
CONSTANTS
    Task <- MCTask
    Queue <- MCQueue
    In <- MCIn
    Out <- MCOut
    Mode <- MCMode
    MinItems <- MCMinItems
    MaxItems <- MCMaxItems
    Shortest = 0
    Longest = 1
    MayFail = {}
    MayStop = {}
    MayAbort = FALSE
    EndOfStream = EndOfStream
    NullBuffer = NullBuffer
INVARIANTS
    NoHang
CHECK_DEADLOCK FALSE
