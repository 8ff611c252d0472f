CONSTANTS
    f1 = f1
    f2 = f2
    f3 = f3
    f4 = f4
    c1 = c1
    o1 = o1
    Frames = {f1, f2, f3, f4}
    CapThreads = {c1}
    Callbacks = {o1}
    Windows = {}
    MaxFrame = 1
    PoolSize = 2
    Mjpeg = FALSE
    MaxArrivals = 1
    MaxCalls <- OnePreview
    None = None
SPECIFICATION FairSpec
PROPERTY StopReturns
CHECK_DEADLOCK FALSE
