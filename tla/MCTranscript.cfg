SPECIFICATION FairSpec
CONSTANTS
    k1 = k1
    k2 = k2
    k3 = k3
    Keys <- Hashes
    Callers = {1, 2}
    Cloud = TRUE
    Timeout = 2
    MaxAttempts = 2
    Delays <- SleepOnce
    TTL = 2
    MaxEntries = 2
    MaxTime = 3
INVARIANTS
    TypeOK
PROPERTIES
    EvictsSoonest
    LateCallIsLast
    EveryCallReturns
