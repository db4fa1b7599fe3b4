SPECIFICATION MCSpec
CONSTANTS
    u1 = u1
    w1 = w1
    w2 = w2
    r1 = r1
    r2 = r2
    NoUser = NoUser
    Users <- OneUser
    Passwords <- TwoPasswords
    Requests <- TwoRequests
    RateMax = 2
    RateWindow = 1
    Threshold = 2
    Window = 2
    LockDuration = 1
    TokenTTL = 1
    MaxClock = 2
    MaxRequests = 4
    Tabs <- TwoRequests
    Day = 2
    HalfHour = 2
    MaxTicks = 3
    MaxChanges = 1
    MaxLoads = 2
    MaxCuts = 1
    Keys = {}
    Callers = {}
    Loads = {}
    MaxEntries = 1
    TTL = 1
    MaxVersion = 1
SYMMETRY Symmetry
INVARIANTS
    AuthIsSound
    PagesShowTheTruth
PROPERTIES
    RunningLockStays
CHECK_DEADLOCK FALSE
