SPECIFICATION PySpec
CONSTANTS
    Task <- MCTask
    Queue <- MCQueue
    Targets <- MCTargets
    InQueues <- MCInQueues
    Mode <- MCMode
    Pattern <- MCPattern
    NumExpected <- MCNumExpected
    MinItems <- MCMinItems
    MaxItems <- MCMaxItems
    MayFail = {}
    MayStop = {}
    MayAbort = FALSE
    EndOfStream = EndOfStream
    NoBuffer = NoBuffer
    Feeds <- MCFeeds
    OutTask = "output"
    Copy = Copy
    PoisonPill = PoisonPill
    MaxLength = 2
    Consumers = {"items"}
    Earlier = TRUE
    KeptBy = "caller"
INVARIANTS
    Delivered
