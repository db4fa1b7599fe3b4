SPECIFICATION MCSpec
CONSTANTS
    c1 = c1
    c2 = c2
    c3 = c3
    c4 = c4
    u1 = u1
    u2 = u2
    a1 = a1
    a2 = a2
    Conns <- FourConns
    Subjects <- TwoSubjects
    SubOf <- MostOfOneUser
    Addrs <- TwoAddrs
    IpOf <- TwoPlaces
    PerSubject = 1
    PerIP = 1
    Emails = {"e1", "E1", "e2"}
    Lower <- TwoSpellings
    Names = {"n1", "n2"}
    Passwords = {"p1", "p2"}
    First = "p1"
    Tabs = {"t1", "t2"}
    Life = 1
    Window = 1
    Max = 1
    MaxClock = 3
    MaxOps = 3
    Users = {}
    Admins = {}
    Threads = {}
    Comments = {}
    Solutions = {}
    Problems = {}
    MaxReplyDepth = 1
    Requests = {}
    MaxRequests = 0
INVARIANTS
    ConnectionsAreSound
    SessionsAreSound
PROPERTIES
    ShutdownCompletes
CHECK_DEADLOCK FALSE
