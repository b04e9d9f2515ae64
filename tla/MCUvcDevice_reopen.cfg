SPECIFICATION DeviceSpec
CONSTANTS
    t1 = t1
    t2 = t2
    Transfers = {t1}
    PARTS = 1
    SIZE_BUF = 2
    SubmitsFail = FALSE
    MaxFrames = 2
    MaxLost = 0
INVARIANTS
    HandlerServes
CHECK_DEADLOCK FALSE
