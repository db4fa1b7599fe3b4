SPECIFICATION MCSpec
CONSTANTS
    j1 = j1
    j2 = j2
    j3 = j3
    j4 = j4
    Jobs <- FourJobs
    Concurrency = 2
    MaxAttempts = 3
INVARIANTS
    ConcurrencyCap
    PumpFixpoint
    DrainIsHonest
    PlaybackIsFaithful
PROPERTIES
    EveryJobSettles
