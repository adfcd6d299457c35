SPECIFICATION FairSpec
CONSTANTS
    c1 = c1
    c2 = c2
    f1 = f1
    f2 = f2
    f3 = f3
    Callers = {c1, c2}
    Fallbacks = {f1, f2, f3}
    LoopThread = LoopThread
    Finalizer = Finalizer
    Watcher = Watcher
    Environments <- StoppedLoop
PROPERTIES NobodyStranded
CHECK_DEADLOCK FALSE
