SPECIFICATION Spec
CONSTANTS
    a = a
    b = b
    None = None
    Envs <- RequestEnvs
    MaxRounds = 1
CHECK_DEADLOCK FALSE
INVARIANTS
    TransportKept StreamSound OperationSound
PROPERTIES
    OutcomeKept ResultKept NeverRegresses UnarySound
    CallerAnswered CancellationEnds
