SPECIFICATION FairSpec
CONSTANTS
    Submissions = {s1, s2}
    Verdicts = {"accepted", "runtime_error"}
    Concurrency = 1
    MaxAttempts = 2
    StuckThreshold = 1
    FetchTimeout = 1
    Budget <- EveryFault
INVARIANTS
    ClaimIsExclusive
    RowsAreAccounted
PROPERTIES
    ImplementsLifecycle
    JudgingEnds
    SettlesUnlessDisturbed
