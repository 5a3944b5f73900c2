SPECIFICATION FairSpec
CONSTANTS
    MaxSessions = 3
    InitialBackoff = 1
    MaxBackoff = 3
    Callers = {"c1"}
    Deadlined = {}
INVARIANTS
    WaitsGrow
PROPERTIES
    DroppedSessionReleases
    CloseReturns
