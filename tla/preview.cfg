CONSTANTS
    f1 = f1
    f2 = f2
    f3 = f3
    f4 = f4
    c1 = c1
    o1 = o1
    Frames = {f1, f2, f3, f4}
    CapThreads = {c1}
    Callbacks = {o1}
    Windows = {}
    MaxFrame = 2
    PoolSize = 2
    Mjpeg = TRUE
    MaxArrivals = 3
    MaxCalls <- Listeners
    None = None
SPECIFICATION Spec
SYMMETRY Symmetry
INVARIANT TypeOK
INVARIANT FrameOwnership
INVARIANT QueuesBounded
INVARIANT OnlyCallbackLeaks
INVARIANT SleepersHaveNoWork
PROPERTY ImplementsChannel
CHECK_DEADLOCK FALSE
