SPECIFICATION MCSpec
CHECK_DEADLOCK FALSE
CONSTANTS
    None = None
    NoTask = NoTask
    Never = Never
    InitialBackoff = 2
    MaxBackoff = 3
    MaxBurst = 2
    MaxFrames = 2
    MaxReconnects = 2
    MotionTotal = 2
    Samples = 2
    InitialWait = 1
    Neutral = 2
    Target = 2
    Hold = 2
    Release = 2
    MaxRecords = 2
INVARIANTS
    MonitorTypeOK
    StatusIsHonest
    OneCapture
    ReportIsTrue
    SegmentsInOrder
PROPERTIES
    OverlaysAdvance
    StopEndsEverything
    PalmsCountOnce
