CONSTANTS
    f1 = f1
    f2 = f2
    c1 = c1
    c2 = c2
    w1 = w1
    Frames = {f1, f2}
    CapThreads = {c1, c2}
    Callbacks = {}
    Windows = {w1}
    MaxFrame = 1
    PoolSize = 2
    Mjpeg = FALSE
    MaxArrivals = 1
    MaxCalls <- Restart
    None = None
SPECIFICATION Spec
SYMMETRY Symmetry
INVARIANT FrameOwnership
INVARIANT OnlyCallbackLeaks
 
CHECK_DEADLOCK FALSE
