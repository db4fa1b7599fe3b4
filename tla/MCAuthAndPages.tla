--------------------------- MODULE MCAuthAndPages ---------------------------
\* Model-checking instance of two parts that share nothing: the authentication service and
\* the pages that load once.  A behaviour takes one of them.
EXTENDS Servers, TLC

CONSTANTS u1, w1, w2, r1, r2

OneUser == {u1}
TwoPasswords == {w1, w2}
TwoRequests == {r1, r2}

\* Two tabs are as interchangeable as the two requests whose model values they take.
Symmetry == Permutations(TwoPasswords) \cup Permutations(TwoRequests)

VARIABLE part    \* the part that runs

\* Bound of the authentication service: the tokens issued in one behaviour.
MaxTokens == 3

\* Bounds of the pages.  Time runs for as long as something is shown after it was loaded, and
\* a tick at least.  A page that shows it for longer than two ticks is opened first in a
\* browser that has kept nothing, and its loads take less than a tick.  The page of study
\* plans has the rule and the words of that of contests, which stands for both.
Lasting == Pages!Life > 2
Horizon == IF Pages!Life = 0 THEN 1 ELSE Pages!Life

MCInit ==
    /\ Init /\ Cache!Init
    /\ \/ /\ part = "pages" /\ Pages!Init
          /\ page # "plans"
          /\ Lasting => http = Pages!Nobody /\ worker = Pages!Nobody
       \/ part = "auth" /\ NoPages

Authenticate ==
    /\ part = "auth" /\ Next
    /\ Len(tokens') <= MaxTokens
    /\ UNCHANGED <<part, cacheVars, pageVars>>

Browse ==
    /\ part = "pages" /\ Pages!Next
    /\ ticks' <= Horizon
    /\ Lasting /\ ticks' # ticks => \A k \in DOMAIN flight : ~flight[k].on
    /\ UNCHANGED <<part, vars, cacheVars>>

MCSpec == MCInit /\ [][Authenticate \/ Browse]_<<part, vars, cacheVars, pageVars>>
=============================================================================
