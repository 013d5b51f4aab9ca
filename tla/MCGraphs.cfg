SPECIFICATION MCSpec
CONSTANTS
    Task <- MCTask
    Queue <- MCQueue
    Targets <- MCTargets
    InQueues <- MCInQueues
    Mode <- MCMode
    Pattern <- MCPattern
    NumExpected <- MCNumExpected
    MinItems <- MCMinItems
    MaxItems <- MCMaxItems
    MayFail <- MCMayFail
    MayStop <- MCMayStop
    MayAbort = FALSE
    EndOfStream = EndOfStream
    NoBuffer = NoBuffer
INVARIANTS
    Exclusive
    InOrder
    NothingLeft
    NoHang
    InputsAligned
    BrokenUp
PROPERTIES
    StreamSpec
