CONSTANTS
    f1 = f1
    f2 = f2
    f3 = f3
    c1 = c1
    w1 = w1
    Frames = {f1, f2, f3}
    CapThreads = {c1}
    Callbacks = {}
    Windows = {w1}
    MaxFrame = 1
    PoolSize = 2
    Mjpeg = FALSE
    MaxArrivals = 2
    MaxCalls <- Surfaces
    None = None
SPECIFICATION FairSpec
PROPERTY QueuedFramesServed
PROPERTY CaptureFrameServed
CHECK_DEADLOCK FALSE
