SPECIFICATION MCSpec
CONSTANTS
    MaxTests = 2
    TimeLimit = 3
    RunnerTimeout = 2
    Profiles <- TwoProfiles
    DefaultProfile <- Ample
    Requests <- Nobody
    Keys <- Nobody
    KeyOf <- NoKeys
    GlobalMax = 1
    PerIPMax = 1
    RateLimit = 1
INVARIANTS
    
    ListingsAreSound
    SeedsAreSound
PROPERTIES
    EveryRowIsJudged
CHECK_DEADLOCK FALSE
