SPECIFICATION Spec
CONSTANTS
    Subs = {s1, s2}
    None = None
    EagerTasks = TRUE
    FactoryMayFail = TRUE
    LoopMayClose = TRUE
    FinalizerMayClose = TRUE
SYMMETRY Symmetry
CHECK_DEADLOCK FALSE
INVARIANTS WorkAccounted CancelledExactly
