SPECIFICATION TablesSpec
CONSTANTS
    Users = {u1, u2}
    Admins = {u1}
    Threads = {t1, t2}
    Comments = {k1, k2, k3}
    Solutions = {s1}
    Problems = {p1}
    MaxReplyDepth = 2
    Requests = {r1, r2}
    MaxRequests = 5
    Conns = {}
    Subjects = {}
    SubOf <- NoClaims
    Addrs = {}
    IpOf <- NoClaims
    PerSubject = 1
    PerIP = 1
    Emails = {"e1"}
    Lower <- AsTyped
    Names = {"n1"}
    Passwords = {"p1"}
    First = "p1"
    Tabs = {}
    Life = 1
    Window = 1
    Max = 1
    MaxClock = 1
    MaxOps = 0
SYMMETRY Symmetry
INVARIANTS
    CommunityIsSound
CHECK_DEADLOCK FALSE
