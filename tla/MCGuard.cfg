SPECIFICATION Spec
CONSTANTS
    Senders = {"ann", "bob", "eve"}
    Roles = {"admin", "member"}
    RoleLists <- MCRoleLists
    RateLimit = 2
    RateWindow = 2
    SweepFloor = 3
    Allowlist = TRUE
    MaxTime = 6
INVARIANTS
    TypeOK
    AtMostTwoWindowsWorth
    ThrottledForCause
    NoBucketOutlivesSweep
PROPERTIES
    ImplementsFixedWindow
