SPECIFICATION Spec
CONSTANTS
    t1 = t1
    t2 = t2
    Transfers = {t1,t2}
    PARTS = 2
    SIZE_BUF = 4
    SubmitsFail = TRUE
    MaxFrames = 3
    MaxLost = 2
INVARIANTS
    TypeOK
    WholeFrames
    JoinedOnlyAcrossLoss
PROPERTIES
    ImplementsSource
SYMMETRY TransferSymmetry
CHECK_DEADLOCK FALSE
