SPECIFICATION FairSpec
CONSTANTS
    Callers = {checker, worker}
    Checker = checker
    None = None
    TTL = 2
    Delay = 2
    Grace <- LeastGrace
    EnvSet = TRUE
    MaxRotations = 2
    MaxDisruptions = 1
INVARIANTS
    TypeOK
    RotationUnnoticed
    StoppedForCause
PROPERTIES
    Recovers
CHECK_DEADLOCK FALSE
