SPECIFICATION Spec
CONSTANTS
    h1 = h1
    h2 = h2
    h3 = h3
    Handlers = {h1, h2, h3}
    Keys = {"k1", "k2"}
    KeyOf <- TwoSessions
    MaxClaimed = 2
    Deadlined = {h3}
    Window = 2
    MaxTime = 4
    MaxDisturbed = 1
SYMMETRY Interchangeable
CHECK_DEADLOCK FALSE
PROPERTIES
    MissedOnlyWhenEarly
INVARIANTS
    TypeOK
    OwnSession
    TwiceOnlyAfterWipe
