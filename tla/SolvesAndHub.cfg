SPECIFICATION MCSpec
CONSTANTS
    u1 = u1
    u2 = u2
    r1 = r1
    r2 = r2
    r3 = r3
    p1 = p1
    p2 = p2
    py = py
    h1 = h1
    h2 = h2
    Users <- TwoUsers
    ContestIds <- NoContest
    Scores <- Nothing
    Ratings <- Nothing
    StartRating = 0
    MaxEvents = 0
    Requests <- ThreeRequests
    UserOf <- AllOfOne
    ProblemOf <- TwoOfFirst
    Problems <- TwoProblems
    DifficultyOf <- Graded
    Languages <- OneLanguage
    Runtimes <- OneRuntime
    Days <- ThreeDays
    Challenge <- Alternating
    Catalog <- SolveTwo
    Profile <- Profiles
    Clients <- TwoClients
    Channels <- TwoChannels
    Buffer = 1
    Malformed = {1}
    MaxMessages = 2
    MaxCommands = 1
    MaxLosses = 1
SYMMETRY Interchangeable
INVARIANTS
    CreditIsSound
    FanoutIsSound
PROPERTIES
    StreakGoesBackOnlyWhenStale
CHECK_DEADLOCK FALSE
