--------------------------- MODULE MCSolvesAndHub ---------------------------
\* Model-checking instance of two parts that share nothing: the effects of a solve, three
\* requests of one user over three days with the same challenge on the first day and the last,
\* and the hub of the realtime service.  A behaviour takes one of them.  There is no contest.
EXTENDS Members, TLC

CONSTANTS u1, u2, r1, r2, r3, p1, p2, py, h1, h2

TwoUsers == {u1, u2}
ThreeRequests == {r1, r2, r3}
Interchangeable == Permutations({r1, r2})
AllOfOne == [r \in ThreeRequests |-> u1]
NoContest == {}
Nothing == {0}
TwoProblems == {p1, p2}
TwoOfFirst == [r \in ThreeRequests |-> IF r = r3 THEN p2 ELSE p1]
Graded == [p \in TwoProblems |-> IF p = p1 THEN "easy" ELSE "hard"]
OneLanguage == {py}
OneRuntime == {5}
ThreeDays == 1..3
Alternating == [d \in ThreeDays |-> IF d = 2 THEN p2 ELSE p1]
SolveTwo == <<[type |-> "problemsSolved", threshold |-> 2]>>
Profiles ==
    [u \in TwoUsers |-> [rating |-> IF u = u1 THEN 1200 ELSE 1500, entries |-> 0, ranks |-> {}, posts |-> 0]]

\* The two clients are as interchangeable as the requests whose model values they take.
TwoClients == {r1, r2}
TwoChannels == {h1, h2}

VARIABLE part    \* the part that runs

\* Both clients begin with the same channel.
MCInit ==
    /\ Init /\ Solving!Init /\ Hub!Init
    /\ channels = [c \in TwoClients |-> {h1}]
    /\ part \in {"solves", "hub"}

Solve == part = "solves" /\ Solving!Next /\ UNCHANGED <<part, vars, hubVars>>
Push == part = "hub" /\ Hub!Next /\ UNCHANGED <<part, vars, solveVars>>

MCSpec == MCInit /\ [][Solve \/ Push]_<<part, vars, solveVars, hubVars>>
=============================================================================
