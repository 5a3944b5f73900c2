SPECIFICATION FairSpec
CONSTANTS
    MaxSessions = 1
    InitialBackoff = 1
    MaxBackoff = 2
    Callers = {"c1"}
    Deadlined = {}
PROPERTIES
    DropUnblocksCallers
