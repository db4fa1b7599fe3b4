SPECIFICATION FairSpec
CONSTANTS
    Requests = {1, 2, 3, 4}
    Keys = {1, 2, 3}
    KeyOf <- ThreeClients
    GlobalMax = 2
    PerIPMax = 1
    RateLimit = 1
INVARIANTS
    AdmissionIsExact
PROPERTIES
    EveryRequestAnswered
CHECK_DEADLOCK FALSE
