SPECIFICATION FairSpec
CONSTANTS
    app = app
    monitor = monitor
    main = main
    texture = texture
    Callers <- AppThreads
    Calls <- AppCalls
    SpuriousWakeups = TRUE
    StartsFail = TRUE
    MaxCalls = 5
INVARIANTS
    TypeOK
    ThreadInv
    StreamIsFlagged
    ReleasedMeansClosed
    WaiterIsServed
PROPERTIES
    ImplementsSession
    WaitEnds
    ReleaseEnds
    HandlerCreated
CHECK_DEADLOCK FALSE
