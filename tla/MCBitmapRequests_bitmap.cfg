SPECIFICATION FairSpec
CONSTANTS
    r1 = r1
    r2 = r2
    r3 = r3
    Requests = {r1,r2,r3}
    MaxFrames = 3
INVARIANTS
    TypeOK
    AnsweredOnce
    OtherSizeOnlyOverlapped
PROPERTIES
    SlotFreed
CHECK_DEADLOCK FALSE
