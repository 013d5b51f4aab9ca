SPECIFICATION FairSpec
CONSTANTS
    Task <- MCTask
    Queue <- MCQueue
    Targets <- MCTargets
    InQueues <- MCInQueues
    Mode <- MCMode
    Pattern <- MCPattern
    NumExpected <- MCNumExpected
    MinItems <- MCMinItems
    MaxItems <- MCMaxItems
    MayFail <- MCMayFail
    MayStop <- MCMayStop
    MayAbort = TRUE
    EndOfStream = EndOfStream
    NoBuffer = NoBuffer
INVARIANTS
    TypeOK
    Exclusive
    InputsIntact
    ReductorReadsAll
PROPERTIES
    StreamSpec
    Termination
CHECK_DEADLOCK FALSE
