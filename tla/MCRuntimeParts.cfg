SPECIFICATION Spec
CONSTANTS
    a = a
    b = b
    c = c
    l1 = l1
    l2 = l2
    MaxWorkers = 2
    MaxItems = 3
    StartFails = TRUE
    Nobody = Nobody
    Waiters = {a, b, c}
    Loops = {l1, l2}
    LoopOf <- Placement
    Kinds <- WaysToWait
    Sdks = {a, b, c}
    Original = Original
INVARIANTS ExecutorSound ForeignSound ClosingSound
PROPERTIES WaitersServed PartsSettle ChannelStops
CHECK_DEADLOCK FALSE
