SPECIFICATION Spec
CONSTANTS
    NoFrame = NoFrame
    NoThread = NoThread
    NoCallback = NoCallback
    NoWindow = NoWindow
    NoFormat = NoFormat
    f1 = f1
    f2 = f2
    f3 = f3
    f4 = f4
    f5 = f5
    c1 = c1
    c2 = c2
    cb1 = cb1
    w1 = w1
    w2 = w2
    Frames = {f1,f2,f3}
    FRAME_POOL_SZ = 2
    CaptureThreads = {c1,c2}
    Callbacks = {}
    CaptureWindows = {}
    Formats <-Mjpeg
    MAX_FRAME = 2
    SettersWhileRunning = FALSE
    SpuriousWakeups = FALSE
    MaxArrivals = 2
    MaxStarts = 2
    MaxRefs = 1
INVARIANTS
    StoppedMeansQuiet
    LeakBound
    PipelineOrder
PROPERTIES
    LeaksOnlyWhenStopping
    PipelineSpec
SYMMETRY Symmetry
CHECK_DEADLOCK FALSE
