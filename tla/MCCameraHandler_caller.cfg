SPECIFICATION Spec
CONSTANTS
    app = app
    monitor = monitor
    main = main
    texture = texture
    Callers <- OneCaller
    Calls <- AllCalls
    SpuriousWakeups = FALSE
    StartsFail = TRUE
    MaxCalls = 7
INVARIANTS
    StopThatWaited
CHECK_DEADLOCK FALSE
