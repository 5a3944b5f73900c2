SPECIFICATION FairSpec
CONSTANTS
    MaxMsgs = 2
    MaxTime = 4
    Supported = {2}
    ChCap = 1
    TTL = 1
    EvCap = 1
    PageSize = 1
    MaxPages = 1
    CursorFaults = FALSE
    MaxErrors = 1
    WebhookOn = TRUE
    MaxCrashes = 0
PROPERTIES
    NoEarlyRepeat
    EveryMessageDelivered
