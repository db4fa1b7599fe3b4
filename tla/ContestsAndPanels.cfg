SPECIFICATION MCSpec
CONSTANTS
    u1 = u1
    u2 = u2
    c1 = c1
    c2 = c2
    r1 = r1
    r2 = r2
    Users <- TwoUsers
    ContestIds <- TwoContests
    Requests <- TwoRequests
    Scores <- TwoScores
    Ratings <- TwoRatings
    StartRating = 0
    MaxEvents = 2
SYMMETRY Symmetry
INVARIANTS
    ContestsAreSound
    PanelsAreTrue
PROPERTIES
    RatedOnce
CHECK_DEADLOCK FALSE
