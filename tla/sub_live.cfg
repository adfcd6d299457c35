SPECIFICATION FairSpec
CONSTANTS
    Subs = {s1, s2}
    None = None
    EagerTasks = FALSE
    FactoryMayFail = FALSE
    LoopMayClose = FALSE
    FinalizerMayClose = FALSE
PROPERTIES SubmissionsEnd CloseCallerReturns
