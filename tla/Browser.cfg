SPECIFICATION BrowserSpec
CONSTANTS
    Submission = s1
    Verdicts = {"accepted", "wrong_answer"}
    Slots = {1, 2}
    MaxErrors = 2
    Submissions = {s1, s2}
    Terminal = {"accepted", "wrong_answer"}
    MaxPolls = 2
INVARIANTS
    StreamIsSound
    PageIsHonest
PROPERTIES
    EndsUnlessDeleted
    SubmitEnds
CHECK_DEADLOCK FALSE
