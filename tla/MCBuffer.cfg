CONSTANTS
    Buffers = {a, b}
    Value = {v1, v2}
    Requisitions <- MCRequisitions
    Profiles <- MCProfiles
    Thread = {t1, t2}
    Null = Null
    Blank = Blank
SPECIFICATION MCSpec
SYMMETRY Symmetric
INVARIANTS
    HoldsLastWrite
    NoBadTransfer
    Fits
    OwnsHost
    LaunchedAsCalled
CHECK_DEADLOCK FALSE
