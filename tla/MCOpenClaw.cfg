SPECIFICATION Spec
CONSTANTS
    MaxSessions = 2
    InitialBackoff = 1
    MaxBackoff = 1
    Callers = {"c1", "c2"}
    Deadlined = {"c1"}
INVARIANTS
    TypeOK
    OneGeneration
    EachToItsOwn
    RetryIsFresh
    PendingAreWaiting
    CloseLeavesNothing
