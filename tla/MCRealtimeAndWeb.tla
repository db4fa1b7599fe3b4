-------------------------- MODULE MCRealtimeAndWeb --------------------------
\* Model-checking instance of two parts of the site: the connections of the realtime service
\* and the sessions of the web tier.  A behaviour takes one of them.
EXTENDS Site

CONSTANTS c1, c2, c3, c4, u1, u2, a1, a2

FourConns == {c1, c2, c3, c4}
TwoSubjects == {u1, u2}
TwoAddrs == {a1, a2}

\* Three connections of one user, one of them from the other address, which it
\* shares with the second user.
MostOfOneUser == [c \in Conns |-> IF c = c4 THEN u2 ELSE u1]
TwoPlaces == [c \in Conns |-> IF c \in {c3, c4} THEN a2 ELSE a1]

\* An account of an email in capitals, which shares its budget with one in small letters.
TwoSpellings == [e \in Emails |-> IF e = "E1" THEN "e1" ELSE e]

VARIABLE part    \* the part that runs

\* The account there at first is one of those that another differs from in case alone; which
\* of the tabs shows which form matters not.
WebInit ==
    /\ Web!Init
    /\ row["e1"].name = "n1"
    /\ page["t1"] = "register" => page["t2"] = "register"
    /\ part = "realtime" => fallback /\ row["e1"].there /\ page["t1"] = "register"

MCInit ==
    /\ part \in {"realtime", "web"}
    /\ Init /\ Db!Init /\ WebInit

RealtimeStep(A) == part = "realtime" /\ A /\ UNCHANGED <<part, tableVars, webVars>>
WebStep == part = "web" /\ Web!Next /\ UNCHANGED <<part, vars, tableVars>>

MCSpec ==
    /\ MCInit
    /\ [][RealtimeStep(Next) \/ WebStep]_<<part, vars, tableVars, webVars>>
    /\ WF_vars(RealtimeStep(MainStep))
    /\ \A c \in Conns : WF_vars(RealtimeStep(ServeWS(c)))
=============================================================================
