SPECIFICATION MCSpec
CONSTANTS
    Task <- MCTask
    Queue <- MCQueue
    In <- MCIn
    Out <- MCOut
    Mode <- MCMode
    MinItems <- MCMinItems
    MaxItems <- MCMaxItems
    Shortest = 1
    Longest = 2
    MayFail = {"average", "read", "write"}
    MayStop = {"copy", "write", "mix"}
    MayAbort = TRUE
    EndOfStream = EndOfStream
    NullBuffer = NullBuffer
INVARIANTS
    Exclusive
    SameData
    InputsAligned
    NoHang
    LocalEndsMeet
PROPERTIES
    StreamSpec
CHECK_DEADLOCK FALSE
