SPECIFICATION Spec
CONSTANTS
    MaxMsgs = 3
    MaxTime = 4
    Supported = {2, 3}
    ChCap = 1
    TTL = 1
    EvCap = 1
    PageSize = 1
    MaxPages = 2
    CursorFaults = TRUE
    MaxErrors = 1
    WebhookOn = FALSE
    MaxCrashes = 1
INVARIANTS
    TypeOK
    OnlyTiesPassedOver
PROPERTIES
    InOrder
