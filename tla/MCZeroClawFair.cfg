SPECIFICATION FairSpec
CONSTANTS
    c1 = c1
    c2 = c2
    c3 = c3
    Callers = {c1, c2, c3}
    Senders = {"a", ""}
    SenderOf <- TwoSenders
    Probe = ""
    Deadlined = {c1, c3}
    IdleTTL = 1
    MaxConns = 2
    MaxTime = 0
CHECK_DEADLOCK FALSE
INVARIANTS
    OwnUnlessAbandoned
PROPERTIES
    SendersReturn
