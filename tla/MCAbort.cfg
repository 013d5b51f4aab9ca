SPECIFICATION FairSpec
CONSTANTS
    Task <- MCTask
    Queue <- MCQueue
    Targets <- MCTargets
    InQueues <- MCInQueues
    Mode <- MCMode
    Pattern <- MCPattern
    NumExpected <- MCNumExpected
    MinItems <- MCMinItems
    MaxItems <- MCMaxItems
    MayFail <- MCMayFail
    MayStop = {}
    MayAbort = TRUE
    EndOfStream = EndOfStream
    NoBuffer = NoBuffer
PROPERTIES
    AbortStops
CHECK_DEADLOCK FALSE
