SPECIFICATION Spec
CONSTANTS
    c1 = c1
    c2 = c2
    c3 = c3
    Callers = {c1, c2, c3}
    Senders = {"a", ""}
    SenderOf <- OneSender
    Probe = ""
    Deadlined = {c1, c2, c3}
    IdleTTL = 1
    MaxConns = 3
    MaxTime = 1
CHECK_DEADLOCK FALSE
SYMMETRY Interchangeable
INVARIANTS
    TypeOK
    NoOrphan
    ReaperSparesRequests
PROPERTIES
    DropsOwnOrSuccessor
