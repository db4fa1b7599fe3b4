SPECIFICATION CacheSpec
CONSTANTS
    Keys <- TwoKeys
    Callers = {c1, c2}
    Loads = {l1, l2}
    MaxEntries = 1
    TTL = 1
    MaxClock = 2
    MaxVersion = 2
    Users = {}
    Passwords = {}
    Requests = {}
    RateMax = 1
    RateWindow = 1
    Threshold = 1
    Window = 1
    LockDuration = 1
    TokenTTL = 1
    MaxRequests = 0
    NoUser = NoUser
    Tabs = {}
    Day = 1
    HalfHour = 1
    MaxTicks = 0
    MaxChanges = 0
    MaxLoads = 0
    MaxCuts = 0
INVARIANTS
    CacheIsSound
PROPERTIES
    StaleForTTLOnly
    EveryCallAnswered
CHECK_DEADLOCK FALSE
